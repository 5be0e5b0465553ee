----------------------------- MODULE ListProofs -----------------------------
(***************************************************************************)
(* For every set of items and lists: calls that respect the conditions of  *)
(* LinkedList keep the two pointers of every node in agreement, and the    *)
(* rings they form are the lists of ItemLists.                             *)
(***************************************************************************)
EXTENDS LinkedList, TLAPS, SequenceTheorems, WellFoundedInduction

-----------------------------------------------------------------------------
(* The operators of ListLinks: which calls keep the rings of the lists well *)
(* formed, and what they do to the sequences that the rings show.           *)

Links == [next : [Node -> Node], prev : [Node -> Node]]

Agree(ls) ==
  \A n \in Node : ls.prev[ls.next[n]] = n /\ ls.next[ls.prev[n]] = n

\* own labels every node with a node of its ring: lists label themselves, so
\* no ring holds two lists.
Owned(ls, own) ==
  /\ own \in [Node -> Node]
  /\ \A l \in List : own[l] = l
  /\ \A n \in Node : own[ls.next[n]] = own[n]

\* The links of well-formed lists.
Sound(ls) == ls \in Links /\ Agree(ls) /\ \E own : Owned(ls, own)

\* A pointer leads to a node.
LEMMA Pointers ==
  ASSUME NEW ls \in Links, NEW n \in Node
  PROVE  ls.next[n] \in Node /\ ls.prev[n] \in Node
BY DEF Links

\* Leaving a ring joins the neighbours; the item's own pointers stay.
LEMMA BypassFacts ==
  ASSUME NEW ls \in Links, NEW item \in Node, Agree(ls)
  PROVE  /\ Bypass(ls, item) \in Links
         /\ \A m \in Node : Bypass(ls, item).next[m] =
              IF m = ls.prev[item] THEN ls.next[item] ELSE ls.next[m]
         /\ \A m \in Node : Bypass(ls, item).prev[m] =
              IF m = ls.next[item] THEN ls.prev[item] ELSE ls.prev[m]
<1>1. ls.prev[ls.next[item]] = item /\ ls.next[ls.prev[item]] = item
  BY DEF Agree
<1>2. QED
  BY <1>1 DEF Links, Bypass

\* An item placed between two neighbours of a ring it has left is in that
\* ring, and nothing else changes rings: the step addBefore and addAfter share.
LEMMA InsertedSound ==
  ASSUME NEW ls, Sound(ls), NEW item \in Item, NEW p \in Node, NEW n \in Node,
         ls.next[p] = n, p # item, n # item
  PROVE  Sound(ItemBetween(Bypass(ls, item), item, p, n))
<1> DEFINE by == Bypass(ls, item)
           r == ItemBetween(by, item, p, n)
<1>0. ls \in Links /\ Agree(ls) /\ item \in Node /\ item \notin List
  BY ListAssumption DEF Sound, Node
<1>1. /\ by \in Links
      /\ \A m \in Node : by.next[m] = IF m = ls.prev[item] THEN ls.next[item] ELSE ls.next[m]
      /\ \A m \in Node : by.prev[m] = IF m = ls.next[item] THEN ls.prev[item] ELSE ls.prev[m]
  BY <1>0, BypassFacts
<1> HIDE DEF by
<1>2. by \in Links
  BY <1>1
<1>3. /\ r \in Links
      /\ \A m \in Node : r.next[m] = IF m = item THEN n ELSE IF m = p THEN item ELSE by.next[m]
      /\ \A m \in Node : r.prev[m] = IF m = n THEN item ELSE IF m = item THEN p ELSE by.prev[m]
  BY <1>0, <1>2 DEF Links, ItemBetween
<1> HIDE DEF r
<1>4. \A m \in Node : r.next[m] \in Node /\ r.prev[m] \in Node /\ ls.next[m] \in Node /\ ls.prev[m] \in Node
  BY <1>0, <1>3, Pointers
<1>5. \A m \in Node : r.prev[r.next[m]] = m
  BY <1>0, <1>1, <1>3, <1>4 DEF Agree
<1>6. \A m \in Node : r.next[r.prev[m]] = m
  BY <1>0, <1>1, <1>3, <1>4 DEF Agree
<1>7. PICK own : Owned(ls, own)
  BY DEF Sound
<1> DEFINE moved == [own EXCEPT ![item] = own[p]]
<1>8. /\ moved \in [Node -> Node]
      /\ moved[item] = own[p]
      /\ \A m \in Node : m # item => moved[m] = own[m]
  BY <1>0, <1>7 DEF Owned
<1> HIDE DEF moved
<1>9. ASSUME NEW m \in Node PROVE moved[r.next[m]] = moved[m]
  <2> USE <1>0, <1>4
  <2>1. CASE m = item
    BY <1>3, <1>7, <1>8, <2>1 DEF Owned
  <2>2. CASE m = p
    BY <1>3, <1>8, <2>2
  <2>3. CASE m # item /\ m # p /\ m = ls.prev[item]
    <3>1. r.next[m] = ls.next[item] /\ ls.next[m] = item /\ ls.next[item] # item
      BY <1>1, <1>3, <2>3 DEF Agree
    <3>2. own[ls.next[item]] = own[item] /\ own[item] = own[m]
      BY <1>7, <3>1 DEF Owned
    <3>3. QED
      BY <1>8, <2>3, <3>1, <3>2
  <2>4. CASE m # item /\ m # p /\ m # ls.prev[item]
    <3>1. r.next[m] = ls.next[m] /\ ls.next[m] # item
      BY <1>1, <1>3, <2>4 DEF Agree
    <3>2. QED
      BY <1>7, <1>8, <2>4, <3>1 DEF Owned
  <2>5. QED
    BY <2>1, <2>2, <2>3, <2>4
<1>10. \A l \in List : moved[l] = l
  BY <1>0, <1>7, <1>8 DEF Owned, Node
<1>11. Owned(r, moved)
  BY <1>8, <1>9, <1>10 DEF Owned
<1>12. Sound(r)
  BY <1>3, <1>5, <1>6, <1>11 DEF Sound, Agree
<1>13. QED
  BY <1>12 DEF r, by

\* addBefore keeps the lists well formed unless the item is the existing one
\* or already stands directly before it.
LEMMA AddBeforeSound ==
  ASSUME NEW ls, Sound(ls), NEW item \in Item, NEW existing \in Node,
         item # existing, ls.prev[existing] # item
  PROVE  Sound(AddBefore(ls, item, existing))
<1> DEFINE p == ls.prev[existing]
<1>1. p \in Node /\ ls.next[p] = existing /\ p # item
  BY Pointers DEF Sound, Agree
<1>2. AddBefore(ls, item, existing) = ItemBetween(Bypass(ls, item), item, p, existing)
  BY DEF AddBefore
<1> HIDE DEF p
<1>3. QED
  BY <1>1, <1>2, InsertedSound

\* addAfter, unless the item is the existing one or stands directly after it.
LEMMA AddAfterSound ==
  ASSUME NEW ls, Sound(ls), NEW item \in Item, NEW existing \in Node,
         item # existing, ls.next[existing] # item
  PROVE  Sound(AddAfter(ls, item, existing))
<1> DEFINE n == ls.next[existing]
<1>1. n \in Node /\ ls.next[existing] = n /\ n # item
  BY Pointers DEF Sound
<1>2. AddAfter(ls, item, existing) = ItemBetween(Bypass(ls, item), item, existing, n)
  BY DEF AddAfter
<1> HIDE DEF n
<1>3. QED
  BY <1>1, <1>2, InsertedSound

\* remove() closes the gap and leaves the item pointing to itself.
LEMMA RemoveSound ==
  ASSUME NEW ls, Sound(ls), NEW item \in Item
  PROVE  Sound(Remove(ls, item))
<1> DEFINE r == Remove(ls, item)
<1>0. ls \in Links /\ Agree(ls) /\ item \in Node /\ item \notin List
  BY ListAssumption DEF Sound, Node
<1>1. ls.prev[ls.next[item]] = item /\ ls.next[ls.prev[item]] = item
  BY <1>0 DEF Agree
<1>2. /\ r \in Links
      /\ \A m \in Node : r.next[m] = IF m = item THEN item
                           ELSE IF m = ls.prev[item] THEN ls.next[item] ELSE ls.next[m]
      /\ \A m \in Node : r.prev[m] = IF m = item THEN item
                           ELSE IF m = ls.next[item] THEN ls.prev[item] ELSE ls.prev[m]
  BY <1>0, <1>1 DEF Links, Remove, Bypass
<1> HIDE DEF r
<1>3. \A m \in Node : r.next[m] \in Node /\ r.prev[m] \in Node /\ ls.next[m] \in Node /\ ls.prev[m] \in Node
  BY <1>0, <1>2, Pointers
<1>4. Agree(r)
  BY <1>0, <1>2, <1>3, SMTT(60) DEF Agree
<1>5. PICK own : Owned(ls, own)
  BY DEF Sound
<1> DEFINE left == [own EXCEPT ![item] = item]
<1>6. /\ left \in [Node -> Node]
      /\ left[item] = item
      /\ \A m \in Node : m # item => left[m] = own[m]
  BY <1>0, <1>5 DEF Owned
<1> HIDE DEF left
<1>7. ASSUME NEW m \in Node PROVE left[r.next[m]] = left[m]
  <2> USE <1>0, <1>3
  <2>1. CASE m = item
    BY <1>2, <1>6, <2>1
  <2>2. CASE m # item /\ m = ls.prev[item]
    <3>1. r.next[m] = ls.next[item] /\ ls.next[m] = item /\ ls.next[item] # item
      BY <1>2, <2>2 DEF Agree
    <3>2. own[ls.next[item]] = own[item] /\ own[item] = own[m]
      BY <1>5, <3>1 DEF Owned
    <3>3. QED
      BY <1>6, <2>2, <3>1, <3>2
  <2>3. CASE m # item /\ m # ls.prev[item]
    <3>1. r.next[m] = ls.next[m] /\ ls.next[m] # item
      BY <1>2, <2>3 DEF Agree
    <3>2. QED
      BY <1>5, <1>6, <2>3, <3>1 DEF Owned
  <2>4. QED
    BY <2>1, <2>2, <2>3
<1>8. \A l \in List : left[l] = l
  BY <1>0, <1>5, <1>6 DEF Owned, Node
<1>9. Sound(r)
  BY <1>2, <1>4, <1>6, <1>7, <1>8 DEF Sound, Owned
<1>10. QED
  BY <1>9 DEF r

\* Splicing an empty list changes nothing.
LEMMA EmptySplice ==
  ASSUME NEW ls \in Links, Agree(ls), NEW source \in Node, NEW p \in Node, NEW n \in Node,
         ls.next[p] = n, p # source, ls.next[source] = source
  PROVE  LET r == ContentsBetween(ls, source, p, n)
         IN  r \in Links /\ Agree(r)
<1> DEFINE r == ContentsBetween(ls, source, p, n)
<1>1. ls.prev[source] = source /\ ls.prev[n] = p /\ n # source
  BY DEF Agree
<1>2. /\ r \in Links
      /\ \A m \in Node : r.next[m] = ls.next[m]
      /\ \A m \in Node : r.prev[m] = ls.prev[m]
  BY <1>1 DEF Links, ContentsBetween
<1> HIDE DEF r
<1>3. \A m \in Node : ls.next[m] \in Node /\ ls.prev[m] \in Node
  BY Pointers
<1>4. Agree(r)
  BY <1>2, <1>3 DEF Agree
<1>5. QED
  BY <1>2, <1>4 DEF r

\* Splicing the items f to t of source between p and n of another ring.
LEMMA ItemsSplice ==
  ASSUME NEW ls \in Links, Agree(ls), NEW source \in Node, NEW p \in Node, NEW n \in Node,
         ls.next[p] = n, p # source, n # source, ls.next[source] # source
  PROVE  LET r == ContentsBetween(ls, source, p, n)
         IN  r \in Links /\ Agree(r)
<1> DEFINE r == ContentsBetween(ls, source, p, n)
           f == ls.next[source]
           t == ls.prev[source]
<1>1. /\ f \in Node /\ t \in Node /\ f # source /\ t # source
      /\ f = ls.next[source] /\ t = ls.prev[source]
      /\ ls.prev[f] = source /\ ls.next[t] = source /\ ls.prev[n] = p
  BY Pointers DEF Agree
<1> HIDE DEF f, t
<1>2. /\ r \in Links
      /\ \A m \in Node : r.next[m] = IF m = source THEN source
                                   ELSE IF m = t THEN n ELSE IF m = p THEN f ELSE ls.next[m]
      /\ \A m \in Node : r.prev[m] = IF m = source THEN source
                                   ELSE IF m = n THEN t ELSE IF m = f THEN p ELSE ls.prev[m]
  BY <1>1 DEF Links, ContentsBetween
<1> HIDE DEF r
<1>3. \A m \in Node : r.next[m] \in Node /\ r.prev[m] \in Node /\ ls.next[m] \in Node /\ ls.prev[m] \in Node
  BY <1>2, Pointers
<1>4. \A m \in Node : r.prev[r.next[m]] = m
  BY <1>1, <1>2, <1>3 DEF Agree
<1>5. \A m \in Node : r.next[r.prev[m]] = m
  BY <1>1, <1>2, <1>3 DEF Agree
<1>6. QED
  BY <1>2, <1>4, <1>5 DEF Agree, r

\* Splicing a list into another keeps the lists well formed and their rings
\* apart: the items get the label of the list they move to.
LEMMA SpliceSound ==
  ASSUME NEW ls, Sound(ls), NEW list \in List, NEW source \in List, list # source,
         NEW p \in Node, NEW n \in Node, ls.next[p] = n, p = list \/ n = list
  PROVE  Sound(ContentsBetween(ls, source, p, n))
<1> DEFINE r == ContentsBetween(ls, source, p, n)
<1>1. ls \in Links /\ Agree(ls) /\ source \in Node /\ list \in Node
  BY DEF Sound, Node
<1>2. PICK own : Owned(ls, own)
  BY DEF Sound
<1>3. own[p] = list /\ own[n] = list /\ own[source] = source
  BY <1>1, <1>2 DEF Owned
<1>4. p # source /\ n # source
  BY <1>3
<1>5. r \in Links /\ Agree(r)
  BY <1>1, <1>4, EmptySplice, ItemsSplice
<1>6. CASE ls.next[source] = source
  <2>1. ls.prev[source] = source /\ ls.prev[n] = p
    BY <1>1, <1>6 DEF Agree
  <2>2. \A m \in Node : r.next[m] = ls.next[m]
    BY <1>1, <1>4, <1>6, <2>1 DEF Links, ContentsBetween
  <2> HIDE DEF r
  <2>3. Owned(r, own)
    BY <1>2, <2>2 DEF Owned
  <2>4. Sound(r)
    BY <1>5, <2>3 DEF Sound
  <2>5. QED
    BY <2>4 DEF r
<1>7. CASE ls.next[source] # source
  <2> DEFINE f == ls.next[source]
             t == ls.prev[source]
  <2>1. /\ f \in Node /\ t \in Node /\ f # source /\ t # source
        /\ f = ls.next[source] /\ t = ls.prev[source]
        /\ ls.prev[f] = source /\ ls.next[t] = source /\ ls.prev[n] = p
    BY <1>1, <1>7, Pointers DEF Agree
  <2> HIDE DEF f, t
  <2>2. \A m \in Node : r.next[m] = IF m = source THEN source
                                   ELSE IF m = t THEN n ELSE IF m = p THEN f ELSE ls.next[m]
    BY <1>1, <1>4, <1>7, <2>1 DEF Links, ContentsBetween
  <2> HIDE DEF r
  <2>3. own[f] = source /\ own[t] = source
    BY <1>2, <1>3, <2>1, <1>1 DEF Owned
  <2> DEFINE merged == [m \in Node |-> IF own[m] = source /\ m # source THEN list ELSE own[m]]
  <2>4. /\ merged \in [Node -> Node]
        /\ \A m \in Node : own[m] = source /\ m # source => merged[m] = list
        /\ \A m \in Node : own[m] # source \/ m = source => merged[m] = own[m]
    BY <1>1, <1>2 DEF Owned
  <2> HIDE DEF merged
  <2>5. ASSUME NEW m \in Node PROVE merged[r.next[m]] = merged[m]
    <3>1. CASE m = source
      BY <2>2, <3>1
    <3>2. CASE m # source /\ m = t
      <4>1. r.next[m] = n
        BY <2>2, <3>2
      <4>2. merged[n] = list /\ merged[m] = list
        BY <1>3, <2>3, <2>4, <3>2
      <4>3. QED
        BY <4>1, <4>2
    <3>3. CASE m # source /\ m # t /\ m = p
      <4>1. r.next[m] = f
        BY <2>2, <3>3
      <4>2. merged[f] = list /\ merged[m] = list
        BY <1>3, <2>1, <2>3, <2>4, <3>3
      <4>3. QED
        BY <4>1, <4>2
    <3>4. CASE m # source /\ m # t /\ m # p
      <4>1. r.next[m] = ls.next[m] /\ ls.next[m] \in Node
        BY <1>1, <2>2, <3>4, Pointers
      <4>2. ls.next[m] # source
        BY <1>1, <2>1, <3>4 DEF Agree
      <4>3. own[ls.next[m]] = own[m]
        BY <1>2 DEF Owned
      <4>4. QED
        BY <2>4, <3>4, <4>1, <4>2, <4>3
    <3>5. QED
      BY <3>1, <3>2, <3>3, <3>4
  <2>6. \A l \in List : merged[l] = l
    BY <1>2, <1>3, <2>4 DEF Owned, Node
  <2>7. Sound(r)
    BY <1>5, <2>4, <2>5, <2>6 DEF Sound, Owned
  <2>8. QED
    BY <2>7 DEF r
<1>8. QED
  BY <1>6, <1>7

\* Nothing links the nodes of new lists.
LEMMA UnlinkedSound == Sound(Unlinked)
<1> DEFINE ls == Unlinked
           own == [n \in Node |-> n]
<1>1. ls \in Links /\ \A n \in Node : ls.next[n] = n /\ ls.prev[n] = n
  BY DEF Unlinked, Links
<1>2. own \in [Node -> Node] /\ \A n \in Node : own[n] = n
  OBVIOUS
<1> HIDE DEF ls, own
<1>3. Owned(ls, own)
  BY <1>1, <1>2 DEF Owned, Node
<1>4. Sound(ls)
  BY <1>1, <1>3 DEF Sound, Agree
<1>5. QED
  BY <1>4 DEF ls

-----------------------------------------------------------------------------
(* Sequences that lose an element or take some in. *)

\* d is c without its element at place j.
Shorter(d, c, j) ==
  /\ d \in Seq(Item) /\ Len(d) = Len(c) - 1
  /\ \A k \in 1..Len(d) : d[k] = c[IF k < j THEN k ELSE k + 1]

\* d is c with the elements of s behind the first k.
Longer(d, c, k, s) ==
  /\ d \in Seq(Item) /\ Len(d) = Len(c) + Len(s)
  /\ \A m \in 1..Len(d) :
       d[m] = IF m <= k THEN c[m]
              ELSE IF m <= k + Len(s) THEN s[m - k] ELSE c[m - Len(s)]

\* Concatenation puts a sequence before the first or behind the last place.
LEMMA Concatenated ==
  ASSUME NEW c \in Seq(Item), NEW s \in Seq(Item)
  PROVE  Longer(s \o c, c, 0, s) /\ Longer(c \o s, c, Len(c), s)
<1>1. ASSUME NEW p \in Seq(Item), NEW q \in Seq(Item)
      PROVE  /\ p \o q \in Seq(Item) /\ Len(p \o q) = Len(p) + Len(q)
             /\ \A m \in 1..Len(p) : (p \o q)[m] = p[m]
             /\ \A m \in (Len(p) + 1)..(Len(p) + Len(q)) : (p \o q)[m] = q[m - Len(p)]
  OBVIOUS
<1>2. Len(c) \in Nat /\ Len(s) \in Nat
  OBVIOUS
<1>3. ASSUME NEW m \in 1..Len(s \o c)
      PROVE  (s \o c)[m] = IF m <= 0 THEN c[m] ELSE IF m <= 0 + Len(s) THEN s[m - 0] ELSE c[m - Len(s)]
  <2>1. CASE m \in 1..Len(s)
    BY <1>1, <1>2, <2>1
  <2>2. CASE m \in (Len(s) + 1)..(Len(s) + Len(c))
    BY <1>1, <1>2, <2>2
  <2>. QED
    BY <1>1, <1>2, <2>1, <2>2
<1>4. ASSUME NEW m \in 1..Len(c \o s)
      PROVE  (c \o s)[m] = IF m <= Len(c) THEN c[m]
                           ELSE IF m <= Len(c) + Len(s) THEN s[m - Len(c)] ELSE c[m - Len(s)]
  <2>1. CASE m \in 1..Len(c)
    BY <1>1, <1>2, <2>1
  <2>2. CASE m \in (Len(c) + 1)..(Len(c) + Len(s))
    BY <1>1, <1>2, <2>2
  <2>. QED
    BY <1>1, <1>2, <2>1, <2>2
<1>5. /\ s \o c \in Seq(Item) /\ Len(s \o c) = Len(c) + Len(s)
      /\ c \o s \in Seq(Item) /\ Len(c \o s) = Len(c) + Len(s)
  BY <1>1, <1>2
<1>. QED
  BY <1>3, <1>4, <1>5 DEF Longer

\* InsertAt(c, k + 1, x) puts x behind the k-th place.
LEMMA InsertedAt ==
  ASSUME NEW c \in Seq(Item), NEW x \in Item, NEW k \in 0..Len(c)
  PROVE  Longer(S!InsertAt(c, k + 1, x), c, k, <<x>>)
<1>. DEFINE p == SubSeq(c, 1, k)
            q == SubSeq(c, k + 1, Len(c))
            d == S!InsertAt(c, k + 1, x)
<1>1. Len(c) \in Nat /\ k \in Nat /\ k <= Len(c)
  OBVIOUS
<1>2. /\ p \in Seq(Item) /\ Len(p) = k /\ \A m \in 1..k : p[m] = c[m]
      /\ q \in Seq(Item) /\ Len(q) = Len(c) - k /\ \A m \in 1..(Len(c) - k) : q[m] = c[k + m]
  BY <1>1
<1>3. <<x>> \in Seq(Item) /\ Len(<<x>>) = 1 /\ <<x>>[1] = x
  OBVIOUS
<1>4. d = p \o <<x>> \o q
  <2>1. S!InsertAt(c, k + 1, x) = SubSeq(c, 1, (k + 1) - 1) \o <<x>> \o SubSeq(c, k + 1, Len(c))
    BY DEF S!InsertAt
  <2>2. (k + 1) - 1 = k
    BY <1>1
  <2>. QED
    BY <2>1, <2>2, Zenon
<1>. HIDE DEF p, q, d
<1>. DEFINE y == <<x>>
<1>5. /\ y \in Seq(Item) /\ Len(y) = 1 /\ y[1] = x
  BY <1>3
<1>. HIDE DEF y
<1>6. /\ p \o y \in Seq(Item) /\ Len(p \o y) = k + 1
      /\ \A m \in 1..k : (p \o y)[m] = c[m]
      /\ (p \o y)[k + 1] = x
  <2>1. Longer(p \o y, p, Len(p), y)
    BY <1>2, <1>5, Concatenated
  <2>. QED
    BY <1>1, <1>2, <1>5, <2>1 DEF Longer
<1>. DEFINE r == p \o y
<1>7. Longer(r \o q, r, Len(r), q)
  BY <1>2, <1>6, Concatenated
<1>8. d = r \o q
  BY <1>4 DEF y
<1>. HIDE DEF r
<1>9. r \in Seq(Item) /\ Len(r) = k + 1 /\ r[k + 1] = x /\ \A m \in 1..k : r[m] = c[m]
  BY <1>6 DEF r
<1>10. d \in Seq(Item) /\ Len(d) = Len(c) + 1
  BY <1>1, <1>2, <1>7, <1>8, <1>9 DEF Longer
<1>11. ASSUME NEW m \in 1..Len(d)
       PROVE  d[m] = IF m <= k THEN c[m] ELSE IF m <= k + Len(y) THEN y[m - k] ELSE c[m - Len(y)]
  <2>1. d[m] = IF m <= k + 1 THEN r[m] ELSE q[m - (k + 1)]
    BY <1>1, <1>2, <1>7, <1>8, <1>9, <1>10 DEF Longer
  <2>2. CASE m <= k
    BY <1>1, <1>9, <2>1, <2>2
  <2>3. CASE m = k + 1
    BY <1>1, <1>5, <1>9, <2>1, <2>3
  <2>4. CASE m > k + 1
    <3>1. m - (k + 1) \in 1..(Len(c) - k) /\ k + (m - (k + 1)) = m - 1
      BY <1>1, <1>10, <2>4
    <3>2. q[m - (k + 1)] = c[m - 1]
      BY <1>2, <3>1
    <3>. QED
      BY <1>1, <1>5, <2>1, <2>4, <3>2
  <2>. QED
    BY <1>1, <1>10, <2>2, <2>3, <2>4
<1>. QED
  BY <1>5, <1>10, <1>11 DEF Longer, d, y

\* Cons and Snoc put x before the first and behind the last place.
LEMMA OneLonger ==
  ASSUME NEW c \in Seq(Item), NEW x \in Item
  PROVE  Longer(S!Cons(x, c), c, 0, <<x>>) /\ Longer(S!Snoc(x, c), c, Len(c), <<x>>)
<1>1. <<x>> \in Seq(Item)
  OBVIOUS
<1>2. S!Cons(x, c) = <<x>> \o c
  BY DEF S!Cons
<1>3. Append(c, x) = c \o <<x>>
  BY AppendIsConcat
<1>. QED
  BY <1>1, <1>2, <1>3, Concatenated DEF S!Snoc

\* RemoveAt(c, j) closes up behind place j.
LEMMA RemovedAt ==
  ASSUME NEW c \in Seq(Item), NEW j \in 1..Len(c)
  PROVE  Shorter(S!RemoveAt(c, j), c, j)
<1>. DEFINE p == SubSeq(c, 1, j - 1)
            q == SubSeq(c, j + 1, Len(c))
            d == S!RemoveAt(c, j)
<1>1. Len(c) \in Nat /\ j \in Nat /\ 1 <= j /\ j <= Len(c)
  OBVIOUS
<1>2. /\ p \in Seq(Item) /\ Len(p) = j - 1 /\ \A m \in 1..(j - 1) : p[m] = c[m]
      /\ q \in Seq(Item) /\ Len(q) = Len(c) - j /\ \A m \in 1..(Len(c) - j) : q[m] = c[j + m]
  BY <1>1
<1>3. d = p \o q
  BY DEF S!RemoveAt
<1>. HIDE DEF p, q, d
<1>4. Longer(d, p, Len(p), q)
  BY <1>2, <1>3, Concatenated
<1>5. d \in Seq(Item) /\ Len(d) = Len(c) - 1
  BY <1>1, <1>2, <1>4 DEF Longer
<1>6. ASSUME NEW k \in 1..Len(d) PROVE d[k] = c[IF k < j THEN k ELSE k + 1]
  <2>1. d[k] = IF k <= j - 1 THEN p[k] ELSE q[k - (j - 1)]
    BY <1>1, <1>2, <1>4, <1>5 DEF Longer
  <2>2. CASE k < j
    BY <1>1, <1>2, <2>1, <2>2
  <2>3. CASE ~(k < j)
    <3>1. k - (j - 1) \in 1..(Len(c) - j) /\ j + (k - (j - 1)) = k + 1
      BY <1>1, <1>5, <2>3
    <3>2. q[k - (j - 1)] = c[k + 1]
      BY <1>2, <3>1
    <3>. QED
      BY <1>1, <2>1, <2>3, <3>2
  <2>. QED
    BY <2>2, <2>3
<1>. QED
  BY <1>5, <1>6 DEF Shorter, d

\* A sequence without the first occurrence of an item, if there is one.
Without(c, x) ==
  IF S!Contains(c, x) THEN S!RemoveAt(c, CHOOSE k \in DOMAIN c : c[k] = x) ELSE c

\* Without is the sequence itself, or lacks one place that held the item.
LEMMA DroppedIs ==
  ASSUME NEW c \in Seq(Item), NEW x \in Item
  PROVE  /\ (\A k \in 1..Len(c) : c[k] # x) => Without(c, x) = c
         /\ (\E k \in 1..Len(c) : c[k] = x) =>
              \E j \in 1..Len(c) : c[j] = x /\ Shorter(Without(c, x), c, j)
<1>1. ASSUME \A k \in 1..Len(c) : c[k] # x PROVE Without(c, x) = c
  BY <1>1 DEF Without, S!Contains
<1>2. ASSUME \E k \in 1..Len(c) : c[k] = x
      PROVE  \E j \in 1..Len(c) : c[j] = x /\ Shorter(Without(c, x), c, j)
  <2>. DEFINE j == CHOOSE k \in DOMAIN c : c[k] = x
  <2>1. DOMAIN c = 1..Len(c)
    OBVIOUS
  <2>2. j \in 1..Len(c) /\ c[j] = x
    BY <1>2, <2>1
  <2>3. Without(c, x) = S!RemoveAt(c, j)
    BY <1>2 DEF Without, S!Contains
  <2>. HIDE DEF j
  <2>. QED
    BY <2>2, <2>3, RemovedAt
<1>. QED
  BY <1>1, <1>2

-----------------------------------------------------------------------------
(* What the pointers show: the contents of the lists, place by place. *)

\* The nodes of a list's ring: its items by their places, around the list.
Spot(l, c, k) == IF k \in 1..Len(c) THEN c[k] ELSE l

Ring(ls, l, c) == \A k \in 0..Len(c) : ls.next[Spot(l, c, k)] = Spot(l, c, k + 1)

\* No item is in two places.
Apart(cts) ==
  \A l, h \in List : \A k \in 1..Len(cts[l]), m \in 1..Len(cts[h]) :
    cts[l][k] = cts[h][m] => l = h /\ k = m

In(cts, x) == \E l \in List : \E k \in 1..Len(cts[l]) : cts[l][k] = x

\* The rings are the lists, and other items point to themselves.
Shown(ls, cts) ==
  /\ cts \in [List -> Seq(Item)] /\ Apart(cts)
  /\ \A l \in List : Ring(ls, l, cts[l])
  /\ \A x \in Item : ~In(cts, x) => ls.next[x] = x

\* The lists without an item.
Dropped(cts, x) == [l \in List |-> Without(cts[l], x)]

\* Every place of every list is a node of its own.
LEMMA SpotIs ==
  ASSUME NEW cts \in [List -> Seq(Item)], Apart(cts), NEW l \in List, NEW h \in List,
         NEW k \in 0..Len(cts[l]), NEW m \in 0..Len(cts[h])
  PROVE  /\ Spot(l, cts[l], k) \in Node
         /\ Spot(l, cts[l], k) = Spot(h, cts[h], m) => l = h /\ k = m
<1>1. /\ k \in 1..Len(cts[l]) => Spot(l, cts[l], k) \in Item
      /\ m \in 1..Len(cts[h]) => Spot(h, cts[h], m) \in Item
  BY DEF Spot
<1>2. /\ k \notin 1..Len(cts[l]) => k = 0 /\ Spot(l, cts[l], k) = l
      /\ m \notin 1..Len(cts[h]) => m = 0 /\ Spot(h, cts[h], m) = h
  BY DEF Spot
<1>3. \A y \in Item : y \notin List
  BY ListAssumption
<1>4. k \in 1..Len(cts[l]) /\ m \in 1..Len(cts[h]) /\ cts[l][k] = cts[h][m] => l = h /\ k = m
  BY DEF Apart
<1>5. /\ k \in 1..Len(cts[l]) => Spot(l, cts[l], k) = cts[l][k]
      /\ m \in 1..Len(cts[h]) => Spot(h, cts[h], m) = cts[h][m]
  BY DEF Spot
<1>. QED
  BY <1>1, <1>2, <1>3, <1>4, <1>5 DEF Node

\* What remove() does to the pointers.
LEMMA RemoveFacts ==
  ASSUME NEW ls, Sound(ls), NEW x \in Item
  PROVE  LET r == Remove(ls, x)
         IN  /\ \A m \in Node : r.next[m] = IF m = x THEN x
                                  ELSE IF m = ls.prev[x] THEN ls.next[x] ELSE ls.next[m]
             /\ \A m \in Node : r.prev[m] = IF m = x THEN x
                                  ELSE IF m = ls.next[x] THEN ls.prev[x] ELSE ls.prev[m]
<1>1. ls \in Links /\ Agree(ls) /\ x \in Node
  BY DEF Sound, Node
<1>2. ls.prev[ls.next[x]] = x /\ ls.next[ls.prev[x]] = x
  BY <1>1 DEF Agree
<1>. QED
  BY <1>1, <1>2 DEF Links, Remove, Bypass

\* An item that leaves: its list closes up, and it is in none.
LEMMA Leaves ==
  ASSUME NEW ls, Sound(ls), NEW cts, Shown(ls, cts), NEW x \in Item
  PROVE  Shown(Remove(ls, x), Dropped(cts, x)) /\ ~In(Dropped(cts, x), x)
<1>. DEFINE out == Dropped(cts, x)
            r == Remove(ls, x)
<1>1. /\ cts \in [List -> Seq(Item)] /\ Apart(cts) /\ ls \in Links /\ Agree(ls) /\ x \in Node
      /\ \A l \in List : cts[l] \in Seq(Item)
      /\ \A l \in List : Ring(ls, l, cts[l])
  BY DEF Shown, Sound, Node
<1>2. \A m \in Node : r.next[m] = IF m = x THEN x
                        ELSE IF m = ls.prev[x] THEN ls.next[x] ELSE ls.next[m]
  BY RemoveFacts
<1>. HIDE DEF r
<1>3. CASE ~In(cts, x)
  <2>1. \A l \in List : out[l] = cts[l]
    BY <1>1, <1>3, DroppedIs DEF In, Dropped
  <2>2. out = cts
    BY <1>1, <2>1 DEF Dropped
  <2>3. ls.next[x] = x /\ ls.prev[x] = x
    BY <1>1, <1>3 DEF Shown, Agree
  <2>4. \A m \in Node : r.next[m] = ls.next[m]
    BY <1>2, <2>3
  <2>5. \A l \in List : Ring(r, l, cts[l])
    BY <1>1, <2>4, SpotIs DEF Ring
  <2>6. \A y \in Item : ~In(cts, y) => r.next[y] = y
    BY <2>4 DEF Shown, Node
  <2>. QED
    BY <1>1, <1>3, <2>2, <2>5, <2>6 DEF Shown, r
<1>4. CASE In(cts, x)
  <2>1. PICK h \in List : \E k \in 1..Len(cts[h]) : cts[h][k] = x
    BY <1>4 DEF In
  <2>2. PICK j \in 1..Len(cts[h]) : cts[h][j] = x /\ Shorter(Without(cts[h], x), cts[h], j)
    BY <1>1, <2>1, DroppedIs
  <2>3. \A l \in List : l # h => \A k \in 1..Len(cts[l]) : cts[l][k] # x
    BY <1>1, <2>2 DEF Apart
  <2>4. \A l \in List : out[l] = IF l = h THEN Without(cts[h], x) ELSE cts[l]
    BY <1>1, <2>3, DroppedIs DEF Dropped
  <2>. DEFINE c == cts[h]
              d == out[h]
              at(k) == IF k < j THEN k ELSE k + 1
  <2>5. Shorter(d, c, j) /\ c \in Seq(Item) /\ Len(c) \in Nat /\ j \in 1..Len(c) /\ c[j] = x
    BY <1>1, <2>2, <2>4
  <2>6. /\ d \in Seq(Item) /\ Len(d) = Len(c) - 1
        /\ \A k \in 1..Len(d) : d[k] = c[at(k)] /\ at(k) \in 1..Len(c) /\ at(k) # j
    BY <2>5 DEF Shorter
  <2>7. out \in [List -> Seq(Item)]
    BY <1>1, <2>4, <2>6 DEF Dropped
  <2>8. \A l \in List : l # h => out[l] = cts[l]
    BY <2>4
  <2>. HIDE DEF out, c, d
  <2>9. \A k \in 0..(Len(d) + 1) : Spot(h, d, k) = Spot(h, c, at(k))
    BY <2>5, <2>6 DEF Spot
  <2>10. Spot(h, c, j) = x /\ ls.prev[x] = Spot(h, c, j - 1) /\ ls.next[x] = Spot(h, c, j + 1)
    <3>1. Spot(h, c, j) = x
      BY <2>5 DEF Spot
    <3>2. j - 1 \in 0..Len(c) /\ j \in 0..Len(c) /\ (j - 1) + 1 = j
      BY <2>5
    <3>3. ls.next[Spot(h, c, j - 1)] = Spot(h, c, j) /\ ls.next[Spot(h, c, j)] = Spot(h, c, j + 1)
      BY <1>1, <3>2 DEF Ring, c
    <3>4. Spot(h, c, j - 1) \in Node
      BY <1>1, <3>2, SpotIs DEF c
    <3>. QED
      BY <1>1, <3>1, <3>3, <3>4 DEF Agree
  <2>11. ASSUME NEW l \in List PROVE Ring(r, l, out[l])
    <3>1. CASE l # h
      <4>. SUFFICES ASSUME NEW k \in 0..Len(cts[l])
                    PROVE  r.next[Spot(l, cts[l], k)] = Spot(l, cts[l], k + 1)
        BY <2>8, <3>1 DEF Ring
      <4>1. ls.next[Spot(l, cts[l], k)] = Spot(l, cts[l], k + 1)
        BY <1>1 DEF Ring
      <4>2. j \in 0..Len(cts[h]) /\ j - 1 \in 0..Len(cts[h])
        BY <2>5 DEF c
      <4>3. Spot(l, cts[l], k) # x /\ Spot(l, cts[l], k) # ls.prev[x] /\ Spot(l, cts[l], k) \in Node
        BY <1>1, <2>10, <3>1, <4>2, SpotIs DEF c
      <4>. QED
        BY <1>2, <4>1, <4>3
    <3>2. CASE l = h
      <4>. SUFFICES ASSUME NEW k \in 0..Len(d)
                    PROVE  r.next[Spot(h, d, k)] = Spot(h, d, k + 1)
        BY <3>2 DEF Ring, d
      <4>1. Spot(h, d, k) = Spot(h, c, at(k)) /\ Spot(h, d, k + 1) = Spot(h, c, at(k + 1))
        BY <2>6, <2>9, <2>5
      <4>2. at(k) \in 0..Len(c) /\ at(k) # j
        BY <2>5, <2>6
      <4>3. ls.next[Spot(h, c, at(k))] = Spot(h, c, at(k) + 1)
        BY <1>1, <4>2 DEF Ring, c
      <4>4. Spot(h, c, at(k)) \in Node /\ Spot(h, c, at(k)) # x
        BY <1>1, <2>5, <2>10, <4>2, SpotIs DEF c
      <4>5. CASE k = j - 1
        <5>1. at(k) = j - 1 /\ at(k + 1) = j + 1
          BY <2>5, <4>5
        <5>. QED
          BY <1>2, <2>10, <4>1, <4>4, <5>1
      <4>6. CASE k # j - 1
        <5>1. at(k) # j - 1 /\ at(k + 1) = at(k) + 1 /\ j - 1 \in 0..Len(c)
          BY <2>5, <2>6, <4>6
        <5>2. Spot(h, c, at(k)) # ls.prev[x]
          BY <1>1, <2>10, <4>2, <5>1, SpotIs DEF c
        <5>. QED
          BY <1>2, <4>1, <4>3, <4>4, <5>1, <5>2
      <4>. QED
        BY <4>5, <4>6
    <3>. QED
      BY <3>1, <3>2
  <2>12. ASSUME NEW l \in List, NEW k \in 1..Len(out[l])
         PROVE  \E m \in 1..Len(cts[l]) :
                  /\ out[l][k] = cts[l][m] /\ out[l][k] # x
                  /\ m = IF l = h THEN at(k) ELSE k
    <3>1. CASE l = h
      <4>1. out[l][k] = c[at(k)] /\ at(k) \in 1..Len(c) /\ at(k) # j
        BY <2>6, <3>1 DEF d
      <4>2. c[at(k)] # c[j]
        BY <1>1, <2>5, <4>1 DEF Apart, c
      <4>. QED
        BY <2>5, <3>1, <4>1, <4>2 DEF c
    <3>2. CASE l # h
      BY <2>3, <2>8, <3>2
    <3>. QED
      BY <3>1, <3>2
  <2>13. Apart(out)
    <3>. SUFFICES ASSUME NEW l \in List, NEW g \in List,
                         NEW k \in 1..Len(out[l]), NEW m \in 1..Len(out[g]), out[l][k] = out[g][m]
                  PROVE  l = g /\ k = m
      BY DEF Apart
    <3>1. PICK p \in 1..Len(cts[l]) : out[l][k] = cts[l][p] /\ p = IF l = h THEN at(k) ELSE k
      BY <2>12
    <3>2. PICK q \in 1..Len(cts[g]) : out[g][m] = cts[g][q] /\ q = IF g = h THEN at(m) ELSE m
      BY <2>12
    <3>3. l = g /\ p = q
      <4>1. cts[l][p] = cts[g][q]
        BY <3>1, <3>2
      <4>2. Apart(cts)
        BY <1>1
      <4>. QED
        BY ONLY <4>1, <4>2 DEF Apart
    <3>4. Len(out[l]) \in Nat /\ Len(out[g]) \in Nat
      BY <2>7
    <3>. QED
      BY <2>5, <3>1, <3>2, <3>3, <3>4
  <2>14. ~In(out, x)
    BY <2>12 DEF In
  <2>15. ASSUME NEW y \in Item, ~In(out, y) PROVE r.next[y] = y
    <3>1. CASE y = x
      BY <1>1, <1>2, <3>1
    <3>2. CASE y # x
      <4>1. ~In(cts, y)
        <5>. SUFFICES ASSUME NEW l \in List, NEW k \in 1..Len(cts[l]), cts[l][k] = y PROVE FALSE
          BY DEF In
        <5>1. CASE l # h
          BY <1>1, <2>8, <2>15, <5>1 DEF In
        <5>2. CASE l = h
          <6>. DEFINE m == IF k < j THEN k ELSE k - 1
          <6>1. k # j /\ k \in 1..Len(c)
            BY <2>5, <3>2, <5>2 DEF c
          <6>2. m \in 1..Len(d) /\ at(m) = k
            BY <2>5, <2>6, <6>1
          <6>3. d[m] = y
            BY <2>6, <5>2, <6>2 DEF c
          <6>. QED
            BY <2>15, <6>2, <6>3 DEF In, d
        <5>. QED
          BY <5>1, <5>2
      <4>2. ls.next[y] = y
        BY <4>1 DEF Shown
      <4>3. y # ls.prev[x]
        BY <1>1, <3>2, <4>2 DEF Agree, Node
      <4>. QED
        BY <1>2, <3>2, <4>2, <4>3 DEF Node
    <3>. QED
      BY <3>1, <3>2
  <2>. QED
    BY <2>7, <2>11, <2>13, <2>14, <2>15 DEF Shown, r, out
<1>. QED
  BY <1>3, <1>4

\* The pointers after x came in behind the k-th place of l.
Between(r, ls, l, c, k, x) ==
  \A m \in Node : r.next[m] = IF m = x THEN Spot(l, c, k + 1)
                               ELSE IF m = Spot(l, c, k) THEN x ELSE ls.next[m]

\* An item that is in no list enters one, behind the k-th place.
LEMMA Enters ==
  ASSUME NEW ls, NEW cts, Shown(ls, cts), NEW x \in Item, ~In(cts, x),
         NEW l \in List, NEW k \in 0..Len(cts[l]),
         NEW d, Longer(d, cts[l], k, <<x>>), NEW r,
         Between(r, ls, l, cts[l], k, x)
  PROVE  Shown(r, [cts EXCEPT ![l] = d])
<1>. DEFINE c == cts[l]
            new == [cts EXCEPT ![l] = d]
<1>0. \A m \in Node : r.next[m] = IF m = x THEN Spot(l, cts[l], k + 1)
                         ELSE IF m = Spot(l, cts[l], k) THEN x ELSE ls.next[m]
  BY DEF Between
<1>1. /\ cts \in [List -> Seq(Item)] /\ Apart(cts) /\ c \in Seq(Item) /\ x \in Node
      /\ \A h \in List : Ring(ls, h, cts[h])
      /\ Len(c) \in Nat /\ k \in 0..Len(c)
  BY DEF Shown, Node
<1>2. /\ d \in Seq(Item) /\ Len(d) = Len(c) + 1
      /\ \A m \in 1..Len(d) : d[m] = IF m <= k THEN c[m] ELSE IF m = k + 1 THEN x ELSE c[m - 1]
  <2>1. Len(<<x>>) = 1 /\ <<x>>[1] = x
    OBVIOUS
  <2>. DEFINE y == <<x>>
  <2>2. Len(y) = 1 /\ y[1] = x /\ Longer(d, c, k, y)
    BY <2>1
  <2>. HIDE DEF y, c
  <2>3. d \in Seq(Item) /\ Len(d) = Len(c) + 1
    BY <2>2 DEF Longer
  <2>4. ASSUME NEW m \in 1..Len(d)
        PROVE  d[m] = IF m <= k THEN c[m] ELSE IF m = k + 1 THEN x ELSE c[m - 1]
    <3>1. d[m] = IF m <= k THEN c[m] ELSE IF m <= k + 1 THEN y[m - k] ELSE c[m - 1]
      BY <2>2, <2>3 DEF Longer
    <3>2. m = k + 1 => m - k = 1
      BY <1>1
    <3>. QED
      BY <1>1, <2>2, <2>3, <3>1, <3>2
  <2>. QED
    BY <2>3, <2>4
<1>3. new \in [List -> Seq(Item)] /\ new[l] = d /\ \A h \in List : h # l => new[h] = cts[h]
  BY <1>1, <1>2
<1>4. /\ Spot(l, d, k + 1) = x
      /\ \A m \in 0..(k + 0) : Spot(l, d, m) = Spot(l, c, m)
      /\ \A m \in (k + 2)..(Len(c) + 2) : Spot(l, d, m) = Spot(l, c, m - 1)
  <2>. HIDE DEF c
  <2>. QED
    BY <1>1, <1>2 DEF Spot
<1>5. \A h \in List : \A m \in 1..Len(cts[h]) : cts[h][m] # x
  BY DEF In
<1>6. \A h \in List : \A m \in 0..Len(cts[h]) : Spot(h, cts[h], m) # x
  BY <1>5, ListAssumption DEF Spot
<1>. HIDE DEF new, c
<1>7. ASSUME NEW h \in List PROVE Ring(r, h, new[h])
  <2>1. CASE h # l
    <3>. SUFFICES ASSUME NEW m \in 0..Len(cts[h])
                  PROVE  r.next[Spot(h, cts[h], m)] = Spot(h, cts[h], m + 1)
      BY <1>3, <2>1 DEF Ring
    <3>1. ls.next[Spot(h, cts[h], m)] = Spot(h, cts[h], m + 1)
      BY <1>1 DEF Ring
    <3>2. Spot(h, cts[h], m) \in Node /\ Spot(h, cts[h], m) # Spot(l, cts[l], k)
      BY <1>1, <2>1, SpotIs
    <3>. QED
      BY <1>0, <1>6, <3>1, <3>2
  <2>2. CASE h = l
    <3>. SUFFICES ASSUME NEW m \in 0..Len(d) PROVE r.next[Spot(l, d, m)] = Spot(l, d, m + 1)
      BY <1>3, <2>2 DEF Ring
    <3>0. ASSUME NEW p \in 0..Len(c)
          PROVE  /\ ls.next[Spot(l, c, p)] = Spot(l, c, p + 1)
                 /\ Spot(l, c, p) \in Node /\ Spot(l, c, p) # x
                 /\ p # k => Spot(l, c, p) # Spot(l, c, k)
      <4>1. ls.next[Spot(l, c, p)] = Spot(l, c, p + 1)
        BY <1>1 DEF Ring, c
      <4>2. Spot(l, c, p) # x
        BY <1>6 DEF c
      <4>3. Spot(l, c, p) \in Node /\ (p # k => Spot(l, c, p) # Spot(l, c, k))
        BY <1>1, SpotIs DEF c
      <4>. QED
        BY <4>1, <4>2, <4>3
    <3>1. CASE m < k
      <4>1. Spot(l, d, m) = Spot(l, c, m) /\ Spot(l, d, m + 1) = Spot(l, c, m + 1)
        BY <1>1, <1>4, <3>1
      <4>2. m \in 0..Len(c) /\ m # k
        BY <1>1, <3>1
      <4>. QED
        BY <1>0, <3>0, <4>1, <4>2 DEF c
    <3>2. CASE m = k
      <4>1. Spot(l, d, m) = Spot(l, c, k) /\ Spot(l, d, m + 1) = x
        BY <1>1, <1>4, <3>2
      <4>. QED
        BY <1>0, <1>1, <3>0, <4>1 DEF c
    <3>3. CASE m = k + 1
      <4>1. Spot(l, d, m) = x /\ Spot(l, d, m + 1) = Spot(l, c, k + 1)
        BY <1>1, <1>2, <1>4, <3>3
      <4>. QED
        BY <1>0, <1>1, <4>1 DEF c
    <3>4. CASE m > k + 1
      <4>1. /\ Spot(l, d, m) = Spot(l, c, m - 1) /\ Spot(l, d, m + 1) = Spot(l, c, m)
            /\ m - 1 \in 0..Len(c) /\ m - 1 # k /\ (m - 1) + 1 = m
        BY <1>1, <1>2, <1>4, <3>4
      <4>. QED
        BY <1>0, <3>0, <4>1 DEF c
    <3>. QED
      BY <1>1, <3>1, <3>2, <3>3, <3>4
  <2>. QED
    BY <2>1, <2>2
<1>8. ASSUME NEW h \in List, NEW m \in 1..Len(new[h])
      PROVE  \/ h = l /\ m = k + 1 /\ new[h][m] = x
             \/ \E p \in 1..Len(cts[h]) :
                  /\ new[h][m] = cts[h][p] /\ new[h][m] # x
                  /\ IF h # l THEN p = m
                     ELSE (m <= k /\ p = m) \/ (m > k + 1 /\ p = m - 1)
  <2>1. CASE h # l
    BY <1>3, <1>5, <2>1
  <2>2. CASE h = l
    <3>1. new[h] = d /\ m \in 1..Len(d) /\ m \in 1..(Len(c) + 1) /\ m \in Nat
      BY <1>2, <1>3, <2>2
    <3>2. CASE m <= k
      <4>1. d[m] = c[m]
        BY <1>2, <3>1, <3>2
      <4>2. m \in 1..Len(c)
        BY <1>1, <3>1, <3>2
      <4>. QED
        BY <1>5, <2>2, <3>1, <3>2, <4>1, <4>2 DEF c
    <3>3. CASE m = k + 1
      BY <1>1, <1>2, <2>2, <3>1, <3>3
    <3>4. CASE m > k + 1
      <4>1. d[m] = c[m - 1] /\ m - 1 \in 1..Len(c)
        BY <1>1, <1>2, <3>1, <3>4
      <4>. QED
        BY <1>5, <2>2, <3>1, <3>4, <4>1 DEF c
    <3>. QED
      BY <1>1, <3>1, <3>2, <3>3, <3>4
  <2>. QED
    BY <2>1, <2>2
<1>9. Apart(new)
  <2>. SUFFICES ASSUME NEW h \in List, NEW g \in List,
                       NEW m \in 1..Len(new[h]), NEW n \in 1..Len(new[g]), new[h][m] = new[g][n]
                PROVE  h = g /\ m = n
    BY DEF Apart
  <2>1. CASE new[h][m] = x
    <3>1. h = l /\ m = k + 1
      BY <1>8, <2>1
    <3>2. new[g][n] = x
      BY <2>1
    <3>3. g = l /\ n = k + 1
      BY <1>8, <3>2
    <3>. QED
      BY <3>1, <3>3
  <2>2. CASE new[h][m] # x
    <3>1. PICK p \in 1..Len(cts[h]) :
            /\ new[h][m] = cts[h][p]
            /\ IF h # l THEN p = m ELSE (m <= k /\ p = m) \/ (m > k + 1 /\ p = m - 1)
      BY <1>8, <2>2
    <3>2. PICK q \in 1..Len(cts[g]) :
            /\ new[g][n] = cts[g][q]
            /\ IF g # l THEN q = n ELSE (n <= k /\ q = n) \/ (n > k + 1 /\ q = n - 1)
      BY <1>8, <2>2
    <3>3. cts[h][p] = cts[g][q] /\ Apart(cts)
      BY <1>1, <3>1, <3>2
    <3>4. h = g /\ p = q
      BY ONLY <3>3 DEF Apart
    <3>5. m \in Nat /\ n \in Nat
      BY <1>3
    <3>. QED
      BY <1>1, <3>1, <3>2, <3>4, <3>5
  <2>. QED
    BY <2>1, <2>2
<1>10. ASSUME NEW y \in Item, ~In(new, y) PROVE r.next[y] = y
  <2>1. y # x
    <3>1. k + 1 \in 1..Len(new[l]) /\ new[l][k + 1] = x
      BY <1>1, <1>2, <1>3
    <3>. QED
      BY <1>10, <3>1 DEF In
  <2>2. ~In(cts, y)
    <3>. SUFFICES ASSUME NEW h \in List, NEW m \in 1..Len(cts[h]), cts[h][m] = y PROVE FALSE
      BY DEF In
    <3>1. CASE h # l
      BY <1>3, <1>10, <3>1 DEF In
    <3>2. CASE h = l /\ m <= k
      <4>1. m \in 1..Len(new[l]) /\ new[l][m] = y
        BY <1>1, <1>2, <1>3, <3>2 DEF c
      <4>. QED
        BY <1>10, <4>1 DEF In
    <3>3. CASE h = l /\ m > k
      <4>1. m + 1 \in 1..Len(new[l]) /\ new[l][m + 1] = c[(m + 1) - 1] /\ (m + 1) - 1 = m
        BY <1>1, <1>2, <1>3, <3>3 DEF c
      <4>2. new[l][m + 1] = y
        BY <3>3, <4>1 DEF c
      <4>. QED
        BY <1>10, <4>1, <4>2 DEF In
    <3>. QED
      BY <1>1, <3>1, <3>2, <3>3
  <2>3. ls.next[y] = y
    BY <2>2 DEF Shown
  <2>4. y # Spot(l, cts[l], k)
    <3>1. CASE k \in 1..Len(cts[l])
      BY <2>2, <3>1 DEF In, Spot
    <3>2. CASE k \notin 1..Len(cts[l])
      BY <3>2, ListAssumption DEF Spot
    <3>. QED
      BY <3>1, <3>2
  <2>. QED
    BY <1>0, <2>1, <2>3, <2>4 DEF Node
<1>. QED
  BY <1>3, <1>7, <1>9, <1>10 DEF Shown, new

\* The pointers after the items of s came in behind the k-th place of l.
Joined(r, ls, l, c, k, s, o) ==
  \A m \in Node : r.next[m] = IF m = s THEN s
                               ELSE IF m = Spot(s, o, Len(o)) THEN Spot(l, c, k + 1)
                               ELSE IF m = Spot(l, c, k) THEN Spot(s, o, 1) ELSE ls.next[m]

\* A list's items all move to another one, behind the k-th place.
LEMMA Merges ==
  ASSUME NEW ls, NEW cts, Shown(ls, cts), NEW l \in List, NEW s \in List, l # s,
         cts[s] # <<>>, NEW k \in 0..Len(cts[l]),
         NEW d, Longer(d, cts[l], k, cts[s]), NEW r,
         Joined(r, ls, l, cts[l], k, s, cts[s])
  PROVE  Shown(r, [cts EXCEPT ![l] = d, ![s] = <<>>])
<1>. DEFINE c == cts[l]
            o == cts[s]
            w == Len(o)
            new == [cts EXCEPT ![l] = d, ![s] = <<>>]
<1>1. /\ cts \in [List -> Seq(Item)] /\ Apart(cts) /\ c \in Seq(Item) /\ o \in Seq(Item)
      /\ \A h \in List : Ring(ls, h, cts[h])
      /\ Len(c) \in Nat /\ k \in 0..Len(c) /\ w \in Nat /\ w > 0
  <2>1. cts \in [List -> Seq(Item)] /\ Apart(cts) /\ \A h \in List : Ring(ls, h, cts[h])
    BY DEF Shown
  <2>2. c \in Seq(Item) /\ o \in Seq(Item) /\ o # <<>>
    BY <2>1
  <2>. HIDE DEF c, o
  <2>3. Len(c) \in Nat /\ w \in Nat /\ w > 0
    BY <2>2
  <2>. QED
    BY <2>1, <2>2, <2>3 DEF c
<1>2. /\ d \in Seq(Item) /\ Len(d) = Len(c) + w
      /\ \A m \in 1..Len(d) : d[m] = IF m <= k THEN c[m] ELSE IF m <= k + w THEN o[m - k] ELSE c[m - w]
  BY DEF Longer
<1>3. /\ new \in [List -> Seq(Item)] /\ new[l] = d /\ new[s] = <<>>
      /\ \A h \in List : h # l /\ h # s => new[h] = cts[h]
  <2>1. <<>> \in Seq(Item)
    OBVIOUS
  <2>. QED
    BY <1>1, <1>2, <2>1
<1>. HIDE DEF new, c, o, w
<1>4. /\ \A m \in 0..k : Spot(l, d, m) = Spot(l, c, m)
      /\ \A m \in (k + 1)..(k + w) : Spot(l, d, m) = Spot(s, o, m - k)
      /\ \A m \in (k + w + 1)..(Len(c) + w + 1) : Spot(l, d, m) = Spot(l, c, m - w)
  <2>1. ASSUME NEW m \in 0..k PROVE Spot(l, d, m) = Spot(l, c, m)
    BY <1>1, <1>2 DEF Spot
  <2>2. ASSUME NEW m \in (k + 1)..(k + w) PROVE Spot(l, d, m) = Spot(s, o, m - k)
    <3>1. m \in 1..Len(d) /\ m - k \in 1..Len(o) /\ ~(m <= k) /\ m <= k + w
      BY <1>1, <1>2 DEF w
    <3>2. d[m] = o[m - k]
      BY <1>2, <3>1
    <3>. QED
      BY <3>1, <3>2 DEF Spot
  <2>3. ASSUME NEW m \in (k + w + 1)..(Len(c) + w + 1) PROVE Spot(l, d, m) = Spot(l, c, m - w)
    <3>1. CASE m \in 1..Len(d)
      <4>1. m - w \in 1..Len(c) /\ ~(m <= k) /\ ~(m <= k + w)
        BY <1>1, <1>2, <3>1
      <4>2. d[m] = c[m - w]
        BY <1>2, <3>1, <4>1
      <4>. QED
        BY <3>1, <4>1, <4>2 DEF Spot
    <3>2. CASE m \notin 1..Len(d)
      <4>1. m - w \notin 1..Len(c)
        BY <1>1, <1>2, <3>2
      <4>. QED
        BY <3>2, <4>1 DEF Spot
    <3>. QED
      BY <3>1, <3>2
  <2>. QED
    BY <2>1, <2>2, <2>3
<1>5. ASSUME NEW h \in List, NEW p \in 0..Len(cts[h])
      PROVE  /\ ls.next[Spot(h, cts[h], p)] = Spot(h, cts[h], p + 1)
             /\ Spot(h, cts[h], p) \in Node
             /\ h # s \/ p # 0 => Spot(h, cts[h], p) # s
             /\ h # s \/ p # w => Spot(h, cts[h], p) # Spot(s, o, w)
             /\ h # l \/ p # k => Spot(h, cts[h], p) # Spot(l, c, k)
  <2>1. ls.next[Spot(h, cts[h], p)] = Spot(h, cts[h], p + 1)
    BY <1>1 DEF Ring
  <2>2. Spot(s, o, 0) = s /\ 0 \in 0..Len(cts[s]) /\ w \in 0..Len(cts[s])
    BY <1>1 DEF Spot, w, o
  <2>7. cts \in [List -> Seq(Item)] /\ Apart(cts) /\ p \in 0..Len(cts[h])
    BY <1>1
  <2>3. Spot(h, cts[h], p) \in Node
    BY <1>1, SpotIs
  <2>4. h # s \/ p # 0 => Spot(h, cts[h], p) # Spot(s, cts[s], 0)
    BY ONLY <2>2, <2>7, h \in List, s \in List, SpotIs
  <2>5. h # s \/ p # w => Spot(h, cts[h], p) # Spot(s, cts[s], w)
    BY ONLY <2>2, <2>7, h \in List, s \in List, SpotIs
  <2>0. k \in 0..Len(cts[l])
    OBVIOUS
  <2>6. h # l \/ p # k => Spot(h, cts[h], p) # Spot(l, cts[l], k)
    BY ONLY <2>0, <2>7, h \in List, l \in List, SpotIs
  <2>. QED
    BY <2>1, <2>2, <2>3, <2>4, <2>5, <2>6 DEF c, o
<1>6. \A m \in Node : r.next[m] = IF m = s THEN s
                        ELSE IF m = Spot(s, o, w) THEN Spot(l, c, k + 1)
                        ELSE IF m = Spot(l, c, k) THEN Spot(s, o, 1) ELSE ls.next[m]
  BY DEF Joined, c, o, w
<1>7. ASSUME NEW h \in List PROVE Ring(r, h, new[h])
  <2>1. CASE h # l /\ h # s
    <3>. SUFFICES ASSUME NEW m \in 0..Len(cts[h])
                  PROVE  r.next[Spot(h, cts[h], m)] = Spot(h, cts[h], m + 1)
      BY <1>3, <2>1 DEF Ring
    <3>. QED
      BY <1>5, <1>6, <2>1
  <2>2. CASE h = s
    <3>1. r.next[s] = s
      BY <1>6 DEF Node
    <3>2. Len(new[h]) = 0 /\ \A m \in Nat : Spot(h, new[h], m) = s
      BY <1>3, <2>2 DEF Spot
    <3>. QED
      BY <3>1, <3>2 DEF Ring
  <2>3. CASE h = l
    <3>. SUFFICES ASSUME NEW m \in 0..Len(d) PROVE r.next[Spot(l, d, m)] = Spot(l, d, m + 1)
      BY <1>3, <2>3 DEF Ring
    <3>1. CASE m < k
      <4>1. Spot(l, d, m) = Spot(l, c, m) /\ Spot(l, d, m + 1) = Spot(l, c, m + 1)
        BY <1>1, <1>4, <3>1
      <4>2. m \in 0..Len(cts[l]) /\ m # k
        BY <1>1, <3>1 DEF c
      <4>. QED
        BY <1>5, <1>6, <4>1, <4>2 DEF c
    <3>2. CASE m = k
      <4>1. Spot(l, d, m) = Spot(l, c, k) /\ Spot(l, d, m + 1) = Spot(s, o, 1)
        BY <1>1, <1>4, <3>2
      <4>2. k \in 0..Len(cts[l])
        OBVIOUS
      <4>. QED
        BY <1>5, <1>6, <4>1, <4>2 DEF c
    <3>3. CASE m > k /\ m < k + w
      <4>1. Spot(l, d, m) = Spot(s, o, m - k) /\ Spot(l, d, m + 1) = Spot(s, o, (m - k) + 1)
        <5>1. m \in (k + 1)..(k + w) /\ m + 1 \in (k + 1)..(k + w) /\ (m + 1) - k = (m - k) + 1
          BY <1>1, <3>3
        <5>. QED
          BY <1>4, <5>1
      <4>2. m - k \in 0..Len(cts[s]) /\ m - k # 0 /\ m - k # w
        BY <1>1, <3>3 DEF o, w
      <4>. QED
        BY <1>5, <1>6, <4>1, <4>2 DEF o
    <3>4. CASE m = k + w
      <4>1. Spot(l, d, m) = Spot(s, o, w) /\ Spot(l, d, m + 1) = Spot(l, c, k + 1)
        <5>1. m \in (k + 1)..(k + w) /\ m - k = w
          BY <1>1, <3>4
        <5>2. m + 1 \in (k + w + 1)..(Len(c) + w + 1) /\ (m + 1) - w = k + 1
          BY <1>1, <3>4
        <5>. QED
          BY <1>4, <5>1, <5>2
      <4>2. w \in 0..Len(cts[s]) /\ w # 0
        BY <1>1 DEF o, w
      <4>. QED
        BY <1>5, <1>6, <4>1, <4>2 DEF o
    <3>5. CASE m > k + w
      <4>1. Spot(l, d, m) = Spot(l, c, m - w) /\ Spot(l, d, m + 1) = Spot(l, c, (m - w) + 1)
        BY <1>1, <1>2, <1>4, <3>5
      <4>2. m - w \in 0..Len(cts[l]) /\ m - w # k
        BY <1>1, <1>2, <3>5 DEF c
      <4>. QED
        BY <1>5, <1>6, <4>1, <4>2 DEF c
    <3>6. m \in Nat /\ k \in Nat /\ w \in Nat
      BY <1>1, <1>2
    <3>. QED
      BY <3>1, <3>2, <3>3, <3>4, <3>5, <3>6
  <2>. QED
    BY <2>1, <2>2, <2>3
<1>. DEFINE Came(h, m, g, p) ==
              /\ new[h][m] = cts[g][p]
              /\ IF h # l THEN g = h /\ p = m
                 ELSE \/ g = l /\ m <= k /\ p = m
                      \/ g = s /\ m > k /\ m <= k + w /\ p = m - k
                      \/ g = l /\ m > k + w /\ p = m - w
<1>8. ASSUME NEW h \in List, NEW m \in 1..Len(new[h])
      PROVE  \E g \in List : \E p \in 1..Len(cts[g]) : Came(h, m, g, p)
  <2>1. CASE h = s
    BY <1>3, <2>1
  <2>2. CASE h # l /\ h # s
    BY <1>3, <2>2
  <2>3. CASE h = l
    <3>1. new[h] = d /\ m \in 1..Len(d) /\ m \in Nat
      BY <1>2, <1>3, <2>3
    <3>2. CASE m <= k
      <4>1. d[m] = c[m] /\ m \in 1..Len(c)
        BY <1>1, <1>2, <3>1, <3>2
      <4>. QED
        BY <2>3, <3>1, <3>2, <4>1 DEF c
    <3>3. CASE m > k /\ m <= k + w
      <4>1. d[m] = o[m - k] /\ m - k \in 1..Len(o)
        BY <1>1, <1>2, <3>1, <3>3 DEF w
      <4>. QED
        BY <2>3, <3>1, <3>3, <4>1 DEF o
    <3>4. CASE m > k + w
      <4>1. d[m] = c[m - w] /\ m - w \in 1..Len(c)
        BY <1>1, <1>2, <3>1, <3>4
      <4>. QED
        BY <2>3, <3>1, <3>4, <4>1 DEF c
    <3>. QED
      BY <1>1, <3>1, <3>2, <3>3, <3>4
  <2>. QED
    BY <2>1, <2>2, <2>3
<1>9. Apart(new)
  <2>. SUFFICES ASSUME NEW h \in List, NEW g \in List,
                       NEW m \in 1..Len(new[h]), NEW n \in 1..Len(new[g]), new[h][m] = new[g][n]
                PROVE  h = g /\ m = n
    BY DEF Apart
  <2>1. PICK a \in List : \E p \in 1..Len(cts[a]) : Came(h, m, a, p)
    BY <1>8
  <2>2. PICK p \in 1..Len(cts[a]) : Came(h, m, a, p)
    BY <2>1
  <2>6. PICK b \in List : \E q \in 1..Len(cts[b]) : Came(g, n, b, q)
    BY <1>8
  <2>7. PICK q \in 1..Len(cts[b]) : Came(g, n, b, q)
    BY <2>6
  <2>3. cts[a][p] = cts[b][q] /\ Apart(cts)
    BY <1>1, <2>2, <2>7
  <2>4. a = b /\ p = q
    BY ONLY <2>3 DEF Apart
  <2>5. m \in Nat /\ n \in Nat
    BY <1>3
  <2>8. h # s /\ g # s
    <3>1. Len(new[s]) = 0
      BY <1>3
    <3>. QED
      BY <3>1
  <2>. QED
    BY <1>1, <2>2, <2>4, <2>5, <2>7, <2>8, SMTT(60)
<1>10. ASSUME NEW y \in Item, ~In(new, y) PROVE r.next[y] = y
  <2>1. ASSUME NEW h \in List, NEW m \in 1..Len(cts[h]), cts[h][m] = y PROVE FALSE
    <3>0. m \in Nat
      OBVIOUS
    <3>1. CASE h # l /\ h # s
      BY <1>3, <1>10, <2>1, <3>1 DEF In
    <3>2. CASE h = l /\ m <= k
      <4>1. m \in 1..Len(new[l]) /\ new[l][m] = y
        BY <1>1, <1>2, <1>3, <2>1, <3>2 DEF c
      <4>. QED
        BY <1>10, <4>1 DEF In
    <3>3. CASE h = l /\ m > k
      <4>1. m + w \in 1..Len(new[l]) /\ ~(m + w <= k) /\ ~(m + w <= k + w) /\ (m + w) - w = m
        BY <1>1, <1>2, <1>3, <2>1, <3>3 DEF c
      <4>2. new[l][m + w] = c[m]
        BY <1>2, <1>3, <4>1
      <4>. QED
        BY <1>10, <2>1, <3>3, <4>1, <4>2 DEF In, c
    <3>4. CASE h = s
      <4>1. k + m \in 1..Len(new[l]) /\ ~(k + m <= k) /\ k + m <= k + w /\ (k + m) - k = m
        BY <1>1, <1>2, <1>3, <2>1, <3>4 DEF o, w
      <4>2. new[l][k + m] = o[m]
        BY <1>2, <1>3, <4>1
      <4>. QED
        BY <1>10, <2>1, <3>4, <4>1, <4>2 DEF In, o
    <3>. QED
      BY <1>1, <3>0, <3>1, <3>2, <3>3, <3>4
  <2>2. ~In(cts, y)
    BY <2>1 DEF In
  <2>3. ls.next[y] = y
    BY <2>2 DEF Shown
  <2>4. \A h \in List : \A p \in 0..Len(cts[h]) : Spot(h, cts[h], p) # y
    BY <2>1, ListAssumption DEF Spot
  <2>5. y # s /\ y # Spot(s, o, w) /\ y # Spot(l, c, k)
    <3>1. w \in 0..Len(cts[s]) /\ k \in 0..Len(cts[l])
      BY <1>1 DEF o, w
    <3>. QED
      BY <2>4, <3>1, ListAssumption DEF o, c
  <2>. QED
    BY <1>6, <2>3, <2>5 DEF Node
<1>. QED
  BY <1>3, <1>7, <1>9, <1>10 DEF Shown, new

\* An item is placed between two neighbours of which one is known by its
\* place: the pointers and the sequences change alike.
LEMMA Placed ==
  ASSUME NEW ls, Sound(ls), NEW cts, Shown(ls, cts), NEW x \in Item,
         NEW p \in Node, NEW n \in Node, ls.next[p] = n, p # x, n # x,
         NEW rest, rest = Dropped(cts, x),
         NEW l \in List, NEW k \in 0..Len(rest[l]),
         p = Spot(l, rest[l], k) \/ n = Spot(l, rest[l], k + 1),
         NEW d, Longer(d, rest[l], k, <<x>>)
  PROVE  Shown(ItemBetween(Bypass(ls, x), x, p, n), [rest EXCEPT ![l] = d])
<1>. DEFINE q == Remove(ls, x)
            by == Bypass(ls, x)
            r == ItemBetween(by, x, p, n)
<1>1. Shown(q, rest) /\ ~In(rest, x)
  BY Leaves
<1>2. Sound(q) /\ Agree(q) /\ Agree(ls) /\ ls \in Links /\ x \in Node
  BY RemoveSound DEF Sound, Node
<1>3. \A m \in Node : q.next[m] = IF m = x THEN x
                        ELSE IF m = ls.prev[x] THEN ls.next[x] ELSE ls.next[m]
  BY RemoveFacts
<1>4. /\ by \in Links
      /\ \A m \in Node : by.next[m] = IF m = ls.prev[x] THEN ls.next[x] ELSE ls.next[m]
  BY <1>2, BypassFacts
<1>. HIDE DEF q, by
<1>5. \A m \in Node : r.next[m] = IF m = x THEN n ELSE IF m = p THEN x ELSE by.next[m]
  BY <1>2, <1>4 DEF Links, ItemBetween
<1>. HIDE DEF r
<1>6. q.next[p] = n
  BY <1>2, <1>3 DEF Agree
<1>7. q.next[Spot(l, rest[l], k)] = Spot(l, rest[l], k + 1) /\ Spot(l, rest[l], k) \in Node
  <2>1. rest \in [List -> Seq(Item)] /\ Apart(rest) /\ Ring(q, l, rest[l])
    BY <1>1 DEF Shown
  <2>. QED
    BY <2>1, SpotIs DEF Ring
<1>8. p = Spot(l, rest[l], k) /\ n = Spot(l, rest[l], k + 1)
  BY <1>2, <1>6, <1>7 DEF Agree
<1>9. Between(r, q, l, rest[l], k, x)
  BY <1>3, <1>4, <1>5, <1>8 DEF Between
<1>10. k \in 0..Len(rest[l]) /\ Longer(d, rest[l], k, <<x>>)
  OBVIOUS
<1>11. Shown(r, [rest EXCEPT ![l] = d])
  BY ONLY <1>1, <1>9, <1>10, x \in Item, l \in List, Enters
<1>. QED
  BY <1>11 DEF r, by

\* A splice changes the pointers and the sequences alike.
LEMMA Spliced ==
  ASSUME NEW ls, Sound(ls), NEW cts, Shown(ls, cts), NEW l \in List, NEW s \in List, l # s,
         NEW k \in 0..Len(cts[l]),
         NEW p, p = Spot(l, cts[l], k), NEW n, n = Spot(l, cts[l], k + 1),
         NEW d, Longer(d, cts[l], k, cts[s])
  PROVE  Shown(ContentsBetween(ls, s, p, n), [cts EXCEPT ![l] = d, ![s] = <<>>])
<1>. DEFINE r == ContentsBetween(ls, s, p, n)
            c == cts[l]
            o == cts[s]
            w == Len(o)
<1>1. /\ cts \in [List -> Seq(Item)] /\ Apart(cts) /\ c \in Seq(Item) /\ o \in Seq(Item)
      /\ \A h \in List : Ring(ls, h, cts[h])
      /\ Len(c) \in Nat /\ w \in Nat /\ ls \in Links /\ Agree(ls) /\ s \in Node /\ l \in Node
  <2>1. cts \in [List -> Seq(Item)] /\ Apart(cts) /\ \A h \in List : Ring(ls, h, cts[h])
    BY DEF Shown
  <2>2. c \in Seq(Item) /\ o \in Seq(Item)
    BY <2>1
  <2>3. ls \in Links /\ Agree(ls) /\ s \in Node /\ l \in Node
    BY DEF Sound, Node
  <2>. HIDE DEF c, o
  <2>. QED
    BY <2>1, <2>2, <2>3
<1>2. /\ 0 \in 0..Len(cts[s]) /\ w \in 0..Len(cts[s]) /\ k \in 0..Len(cts[l])
      /\ Spot(s, cts[s], 0) = s /\ Spot(s, cts[s], w + 1) = s
  <2>. HIDE DEF c
  <2>1. 0 \in 0..w /\ w \in 0..w /\ 0 \notin 1..w /\ w + 1 \notin 1..w
    BY <1>1
  <2>. QED
    BY <2>1 DEF Spot
<1>3. /\ ls.next[p] = n /\ p \in Node /\ p # s
      /\ ls.next[s] = Spot(s, cts[s], 1) /\ ls.next[Spot(s, cts[s], w)] = s
      /\ Spot(s, cts[s], w) \in Node
  <2>1. ls.next[p] = n
    BY <1>1, <1>2 DEF Ring
  <2>2. p \in Node /\ p # s
    BY <1>1, <1>2, SpotIs
  <2>3. Spot(s, cts[s], w) \in Node
    BY <1>1, <1>2, SpotIs
  <2>4. ls.next[Spot(s, cts[s], 0)] = Spot(s, cts[s], 0 + 1)
    BY <1>1, <1>2 DEF Ring
  <2>5. ls.next[Spot(s, cts[s], w)] = Spot(s, cts[s], w + 1)
    BY <1>1, <1>2 DEF Ring
  <2>. QED
    BY <1>2, <2>1, <2>2, <2>3, <2>4, <2>5
<1>4. n \in Node /\ n # s /\ ls.prev[n] = p /\ ls.prev[s] = Spot(s, cts[s], w)
  <2>1. CASE k + 1 \in 1..Len(cts[l])
    <3>1. k + 1 \in 0..Len(cts[l])
      BY <2>1
    <3>2. Spot(l, cts[l], k + 1) \in Node /\ Spot(l, cts[l], k + 1) # s
      BY <1>1, <1>2, <3>1, SpotIs
    <3>. QED
      BY <1>1, <1>3, <3>2 DEF Agree
  <2>2. CASE k + 1 \notin 1..Len(cts[l])
    <3>1. n = l
      BY <2>2 DEF Spot
    <3>. QED
      BY <1>1, <1>3, <3>1 DEF Agree
  <2>. QED
    BY <2>1, <2>2
<1>5. CASE o = <<>>
  <2>1. Spot(s, cts[s], 1) = s /\ w = 0
    BY <1>5 DEF Spot
  <2>2. \A m \in Node : r.next[m] = ls.next[m]
    BY <1>1, <1>3, <1>4, <2>1 DEF Links, ContentsBetween
  <2>3. d = c
    <3>. DEFINE z == w
    <3>1. Longer(d, c, k, o) /\ Len(o) = z /\ z = 0
      BY <2>1
    <3>. HIDE DEF c, o, z
    <3>2. d \in Seq(Item) /\ Len(d) = Len(c)
      BY <1>1, <3>1 DEF Longer
    <3>3. ASSUME NEW m \in 1..Len(d) PROVE d[m] = c[m]
      <4>1. d[m] = IF m <= k THEN c[m] ELSE IF m <= k + 0 THEN o[m - k] ELSE c[m - 0]
        BY <3>1 DEF Longer
      <4>2. m \in Nat /\ k \in Nat
        BY <3>2
      <4>. QED
        BY <4>1, <4>2
    <3>. QED
      BY <1>1, <3>2, <3>3, SMTT(60)
  <2>4. [cts EXCEPT ![l] = d, ![s] = <<>>] = cts
    BY <1>1, <1>5, <2>3
  <2>5. ASSUME NEW h \in List PROVE Ring(r, h, cts[h])
    BY <1>1, <2>2, SpotIs DEF Ring
  <2>6. \A y \in Item : ~In(cts, y) => r.next[y] = y
    BY <2>2 DEF Shown, Node
  <2>. QED
    BY <1>1, <2>4, <2>5, <2>6 DEF Shown
<1>6. CASE o # <<>>
  <2>. DEFINE f == Spot(s, cts[s], 1)
              t == Spot(s, cts[s], w)
  <2>1. f # s /\ f \in Node /\ f = ls.next[s] /\ t = ls.prev[s] /\ t \in Node /\ t # s
    <3>1. w > 0
      <4>. HIDE DEF c
      <4>. QED
        BY <1>1, <1>6
    <3>2. 1 \in 0..Len(cts[s]) /\ w # 0
      BY <1>1, <3>1
    <3>3. f \in Node /\ f # s
      BY <1>1, <1>2, <3>2, SpotIs
    <3>4. t # s
      BY <1>1, <1>2, <3>2, SpotIs
    <3>. QED
      BY <1>3, <1>4, <3>3, <3>4
  <2>. HIDE DEF f, t
  <2>2. \A m \in Node : r.next[m] = IF m = s THEN s
                          ELSE IF m = t THEN n ELSE IF m = p THEN f ELSE ls.next[m]
    BY <1>1, <1>3, <1>4, <2>1 DEF Links, ContentsBetween
  <2>3. Joined(r, ls, l, cts[l], k, s, cts[s])
    BY <2>2 DEF Joined, f, t
  <2>. HIDE DEF r
  <2>4. cts[s] # <<>>
    BY <1>6
  <2>5. k \in 0..Len(cts[l]) /\ Longer(d, cts[l], k, cts[s]) /\ Shown(ls, cts)
    OBVIOUS
  <2>6. Shown(r, [cts EXCEPT ![l] = d, ![s] = <<>>])
    BY ONLY <2>3, <2>4, <2>5, l \in List, s \in List, l # s, Merges
  <2>. QED
    BY <2>6 DEF r
<1>. QED
  BY <1>5, <1>6

\* New lists are empty, and their sentinels and the items point to themselves.
LEMMA EmptyShown == Shown(Unlinked, [l \in List |-> <<>>])
<1>. DEFINE ls == Unlinked
            cts == [l \in List |-> <<>>]
<1>1. \A n \in Node : ls.next[n] = n
  BY DEF Unlinked
<1>. HIDE DEF ls
<1>2. cts \in [List -> Seq(Item)]
  <2>1. <<>> \in Seq(Item)
    OBVIOUS
  <2>. QED
    BY <2>1
<1>3. \A l \in List : Len(cts[l]) = 0 /\ \A k \in Nat : Spot(l, cts[l], k) = l
  BY DEF Spot
<1>. HIDE DEF cts
<1>4. Apart(cts)
  BY <1>3 DEF Apart
<1>5. ASSUME NEW l \in List PROVE Ring(ls, l, cts[l])
  BY <1>1, <1>3 DEF Ring, Node
<1>6. \A x \in Item : ls.next[x] = x
  BY <1>1 DEF Node
<1>. QED
  BY <1>2, <1>4, <1>5, <1>6 DEF Shown, ls, cts

-----------------------------------------------------------------------------
(* Numbers *)

\* A set of numbers with an element has a least one.
LEMMA Least ==
  ASSUME NEW T \in SUBSET Nat, T # {}
  PROVE  \E x \in T : \A y \in T : x <= y
<1>. DEFINE R == OpToRel(<, Nat)
<1>1. IsWellFoundedOn(R, Nat)
  BY NatLessThanWellFounded
<1>2. \A x, y \in Nat : <<y, x>> \in R <=> y < x
  BY DEF OpToRel
<1>. HIDE DEF R
<1>3. PICK x \in T : \A y \in T : ~(<<y, x>> \in R)
  BY <1>1, WFMin
<1>4. ASSUME NEW y \in T PROVE x <= y
  <2>1. x \in Nat /\ y \in Nat /\ ~(y < x)
    BY <1>2, <1>3
  <2>. QED
    BY <2>1
<1>. QED
  BY <1>4

\* A set that holds 0, and with a number the next one, holds all up to n.
LEMMA AllUpTo ==
  ASSUME NEW n \in Nat, NEW T, 0 \in T,
         \A k \in Nat : k < n /\ k \in T => k + 1 \in T
  PROVE  \A k \in 0..n : k \in T
<1>. DEFINE Missing == {k \in 0..n : k \notin T}
<1>1. SUFFICES ASSUME Missing # {} PROVE FALSE
  OBVIOUS
<1>2. PICK x \in Missing : \A y \in Missing : x <= y
  <2>1. Missing \in SUBSET Nat
    OBVIOUS
  <2>. HIDE DEF Missing
  <2>. QED
    BY <1>1, <2>1, Least
<1>3. x \in 1..n /\ x - 1 \in 0..n
  BY <1>2
<1>4. x - 1 \in T
  BY <1>2, <1>3
<1>5. x \in T
  BY <1>3, <1>4
<1>. QED
  BY <1>2, <1>5

\* f repeats a step, the k-th of n, from a base.
Repeats(f, n, base, step) ==
  f[0] = base /\ \A k \in 1..n : f[k] = step[k][f[k - 1]]

\* A step can be repeated: the function that a recursion over the
\* numbers up to n defines exists.
LEMMA Repeated ==
  ASSUME NEW n \in Nat, NEW Place, NEW base \in Place,
         NEW step \in [1..n -> [Place -> Place]]
  PROVE  \E f \in [0..n -> Place] : Repeats(f, n, base, step)
<1>. DEFINE Upto(m) == \E f \in [0..m -> Place] : Repeats(f, m, base, step)
            T == {m \in 0..n : Upto(m)}
<1>1. 0 \in T
  <2>. DEFINE f == [k \in 0..0 |-> base]
  <2>1. f \in [0..0 -> Place] /\ Repeats(f, 0, base, step)
    BY DEF Repeats
  <2>. HIDE DEF f
  <2>2. Upto(0)
    BY <2>1
  <2>. QED
    BY <2>2
<1>2. ASSUME NEW m \in Nat, m < n, m \in T PROVE m + 1 \in T
  <2>1. PICK f \in [0..m -> Place] : Repeats(f, m, base, step)
    BY <1>2
  <2>. DEFINE last == step[m + 1][f[m]]
              g == [k \in 0..(m + 1) |-> IF k = m + 1 THEN last ELSE f[k]]
  <2>2. last \in Place /\ last = step[m + 1][f[m]]
    <3>1. m + 1 \in 1..n /\ f[m] \in Place
      BY <1>2
    <3>2. step[m + 1] \in [Place -> Place]
      BY <3>1
    <3>. QED
      BY <3>1, <3>2
  <2>. HIDE DEF last
  <2>3. g \in [0..(m + 1) -> Place]
    BY <2>2
  <2>4. \A k \in 0..m : g[k] = f[k]
    OBVIOUS
  <2>5. g[m + 1] = last
    OBVIOUS
  <2>. HIDE DEF g
  <2>6. ASSUME NEW k \in 1..(m + 1) PROVE g[k] = step[k][g[k - 1]]
    <3>1. CASE k = m + 1
      <4>1. k - 1 = m /\ m \in 0..m
        BY <3>1
      <4>. QED
        BY <2>2, <2>4, <2>5, <3>1, <4>1
    <3>2. CASE k # m + 1
      <4>1. k \in 1..m /\ k \in 0..m /\ k - 1 \in 0..m
        BY <3>2
      <4>. QED
        BY <2>1, <2>4, <4>1 DEF Repeats
    <3>. QED
      BY <3>1, <3>2
  <2>7. g[0] = base
    BY <2>1, <2>4 DEF Repeats
  <2>8. Repeats(g, m + 1, base, step)
    BY <2>6, <2>7 DEF Repeats
  <2>. QED
    BY <1>2, <2>3, <2>8
<1>3. n \in T
  <2>. HIDE DEF T
  <2>1. \A k \in 0..n : k \in T
    BY <1>1, <1>2, AllUpTo
  <2>. QED
    BY <2>1
<1>. QED
  BY <1>3

-----------------------------------------------------------------------------
(* An item moved to a list that it is not in. *)

\* Without of a sequence whose elements differ.
LEMMA WithoutIs ==
  ASSUME NEW c \in Seq(Item), NEW j \in 1..Len(c),
         \A k \in 1..Len(c) : c[k] = c[j] => k = j
  PROVE  Shorter(Without(c, c[j]), c, j)
<1>1. PICK i \in 1..Len(c) : c[i] = c[j] /\ Shorter(Without(c, c[j]), c, i)
  <2>1. c[j] \in Item
    OBVIOUS
  <2>. QED
    BY <2>1, DroppedIs
<1>. QED
  BY <1>1

LEMMA MovedShown ==
  ASSUME NEW ls, Sound(ls), NEW cts, Shown(ls, cts), NEW x \in Item, NEW l \in List,
         \A j \in 1..Len(cts[l]) : cts[l][j] # x,
         NEW k \in 0..Len(cts[l]), NEW d, Longer(d, cts[l], k, <<x>>),
         NEW existing, existing = Spot(l, cts[l], k + 1)
  PROVE  /\ Sound(AddBefore(ls, x, existing))
         /\ Shown(AddBefore(ls, x, existing), [Dropped(cts, x) EXCEPT ![l] = d])
<1>. DEFINE rest == Dropped(cts, x)
            p == Spot(l, cts[l], k)
<1>1. /\ cts \in [List -> Seq(Item)] /\ Apart(cts) /\ ls \in Links /\ Agree(ls)
      /\ Ring(ls, l, cts[l]) /\ cts[l] \in Seq(Item) /\ x \notin List
  BY ListAssumption DEF Shown, Sound
<1>2. rest[l] = cts[l]
  BY <1>1, DroppedIs DEF Dropped
<1>3. ls.next[p] = existing /\ p \in Node
  BY <1>1, SpotIs DEF Ring
<1>4. p # x /\ existing # x
  BY <1>1 DEF Spot
<1>5. existing \in Node /\ ls.prev[existing] = p
  BY <1>1, <1>3, Pointers DEF Agree
<1>. HIDE DEF p, rest
<1>6. Sound(AddBefore(ls, x, existing))
  BY <1>4, <1>5, AddBeforeSound
<1>7. AddBefore(ls, x, existing) = ItemBetween(Bypass(ls, x), x, p, existing)
  BY <1>5 DEF AddBefore
<1>8. Shown(ItemBetween(Bypass(ls, x), x, p, existing), [rest EXCEPT ![l] = d])
  <2>1. k \in 0..Len(rest[l]) /\ Longer(d, rest[l], k, <<x>>) /\ existing = Spot(l, rest[l], k + 1)
    BY <1>2
  <2>. QED
    BY <1>3, <1>4, <1>5, <2>1, Placed DEF rest
<1>. QED
  BY <1>6, <1>7, <1>8 DEF rest

\* Appending a list's new last item.
LEMMA TailShown ==
  ASSUME NEW ls, Sound(ls), NEW cts, Shown(ls, cts), NEW x \in Item, NEW l \in List,
         \A j \in 1..Len(cts[l]) : cts[l][j] # x
  PROVE  /\ Sound(AddTail(ls, l, x))
         /\ Shown(AddTail(ls, l, x), [Dropped(cts, x) EXCEPT ![l] = Append(cts[l], x)])
<1>1. cts[l] \in Seq(Item)
  BY DEF Shown
<1>2. Longer(Append(cts[l], x), cts[l], Len(cts[l]), <<x>>)
  BY <1>1, OneLonger DEF S!Snoc
<1>3. l = Spot(l, cts[l], Len(cts[l]) + 1) /\ Len(cts[l]) \in 0..Len(cts[l])
  BY <1>1 DEF Spot
<1>. QED
  BY <1>1, <1>2, <1>3, MovedShown DEF AddTail

\* Splicing a list behind an empty one.
LEMMA SplicedShown ==
  ASSUME NEW ls, Sound(ls), NEW cts, Shown(ls, cts), NEW l \in List, NEW s \in List, l # s,
         cts[l] = <<>>
  PROVE  /\ Sound(SpliceTail(ls, l, s))
         /\ Shown(SpliceTail(ls, l, s), [cts EXCEPT ![l] = cts[s], ![s] = <<>>])
<1>1. /\ cts[s] \in Seq(Item) /\ Ring(ls, l, cts[l]) /\ ls \in Links /\ Agree(ls)
      /\ l \in Node
  BY DEF Shown, Sound, Node
<1>2. ls.next[l] = l
  BY <1>1 DEF Ring, Spot
<1>3. ls.prev[l] = l
  BY <1>1, <1>2 DEF Agree
<1>4. SpliceTail(ls, l, s) = ContentsBetween(ls, s, l, l)
  BY <1>3 DEF SpliceTail
<1>5. Sound(ContentsBetween(ls, s, l, l))
  BY <1>1, <1>2, SpliceSound
<1>6. Longer(cts[s], cts[l], 0, cts[s])
  BY <1>1 DEF Longer
<1>7. 0 \in 0..Len(cts[l]) /\ l = Spot(l, cts[l], 0) /\ l = Spot(l, cts[l], 0 + 1)
  BY DEF Spot
<1>8. Shown(ContentsBetween(ls, s, l, l), [cts EXCEPT ![l] = cts[s], ![s] = <<>>])
  BY <1>6, <1>7, Spliced
<1>. QED
  BY <1>4, <1>5, <1>8

-----------------------------------------------------------------------------
(* The pointers *)

\* RingsOK alone is not inductive: a splice needs the rings of the two lists
\* to be different, which is what the labels of Sound say.
LEMMA SoundAlways == Careful => (ListSpec => []Sound(pointers))
<1> SUFFICES ASSUME Careful PROVE ListSpec => []Sound(pointers)
  OBVIOUS
<1>1. ListInit => Sound(pointers)
  BY UnlinkedSound DEF ListInit
<1>2. Sound(pointers) /\ [ListNext]_listVars => Sound(pointers)'
  <2> SUFFICES ASSUME Sound(pointers), [ListNext]_listVars PROVE Sound(pointers')
    BY DEF Sound, Links, Agree, Owned
  <2>1. ASSUME NEW item \in Item, NEW existing \in Item, CallAddBefore(item, existing)
        PROVE  Sound(pointers')
    BY <2>1, AddBeforeSound DEF CallAddBefore, MayAddBefore, Node
  <2>2. ASSUME NEW item \in Item, NEW existing \in Item, CallAddAfter(item, existing)
        PROVE  Sound(pointers')
    BY <2>2, AddAfterSound DEF CallAddAfter, MayAddAfter, Node
  <2>3. ASSUME NEW list \in List, NEW item \in Item, CallAddHead(list, item)
        PROVE  Sound(pointers')
    BY <2>3, AddAfterSound DEF CallAddHead, MayAddAfter, AddHead, Node
  <2>4. ASSUME NEW list \in List, NEW item \in Item, CallAddTail(list, item)
        PROVE  Sound(pointers')
    BY <2>4, AddBeforeSound DEF CallAddTail, MayAddBefore, AddTail, Node
  <2>5. ASSUME NEW item \in Item, CallRemove(item)
        PROVE  Sound(pointers')
    BY <2>5, RemoveSound DEF CallRemove
  <2>6. ASSUME NEW list \in List, NEW source \in List, CallSpliceHead(list, source)
        PROVE  Sound(pointers')
    <3> DEFINE n == pointers.next[list]
    <3>1. n \in Node /\ list \in Node /\ pointers.next[list] = n
      BY Pointers DEF Sound, Node
    <3>2. pointers' = ContentsBetween(pointers, source, list, n) /\ list # source
      BY <2>6 DEF CallSpliceHead, MaySplice, SpliceHead
    <3> HIDE DEF n
    <3>3. QED
      BY <3>1, <3>2, SpliceSound
  <2>7. ASSUME NEW list \in List, NEW source \in List, CallSpliceTail(list, source)
        PROVE  Sound(pointers')
    <3> DEFINE p == pointers.prev[list]
    <3>1. p \in Node /\ list \in Node /\ pointers.next[p] = list
      BY Pointers DEF Sound, Agree, Node
    <3>2. pointers' = ContentsBetween(pointers, source, p, list) /\ list # source
      BY <2>7 DEF CallSpliceTail, MaySplice, SpliceTail
    <3> HIDE DEF p
    <3>3. QED
      BY <3>1, <3>2, SpliceSound
  <2>8. ASSUME NEW list \in List, NEW backwards \in BOOLEAN, BeginIteration(list, backwards)
        PROVE  Sound(pointers')
    BY <2>8 DEF BeginIteration
  <2>9. CASE Advance
    BY <2>9 DEF Advance
  <2>10. CASE UNCHANGED listVars
    BY <2>10 DEF listVars
  <2>11. QED
    BY <2>1, <2>2, <2>3, <2>4, <2>5, <2>6, <2>7, <2>8, <2>9, <2>10 DEF ListNext
<1>3. QED
  BY <1>1, <1>2, PTL DEF ListSpec

\* However many items and lists there are, careful callers never leave a node
\* that one direction of the list reaches and the other does not.
THEOREM RingsAgree == Careful => (ListSpec => []RingsOK)
<1>1. Sound(pointers) => RingsOK
  BY DEF Sound, Agree, RingsOK
<1>2. QED
  BY <1>1, SoundAlways, PTL

\* Two lists never share a ring, however items and contents have moved: every
\* node can be labelled so that neighbours agree and no two lists do.  An
\* iteration that stays inside its list therefore meets no other sentinel.
THEOREM ListsApart ==
  Careful => (ListSpec => [](\E own \in [Node -> Node] :
                            /\ \A l \in List : own[l] = l
                            /\ \A n \in Node : own[pointers.next[n]] = own[n]))
<1>1. Sound(pointers) => \E own \in [Node -> Node] :
                        /\ \A l \in List : own[l] = l
                        /\ \A n \in Node : own[pointers.next[n]] = own[n]
  BY DEF Sound, Owned
<1>2. QED
  BY <1>1, SoundAlways, PTL

-----------------------------------------------------------------------------
(* The contents *)

\* Dropping an item from the abstract lists.
LEMMA SameWithout ==
  /\ \A c, x : Lists!Without(c, x) = Without(c, x)
  /\ \A x : Lists!Drop(x) = Dropped(contents, x)
<1>1. \A c, x : Lists!Without(c, x) = Without(c, x)
  BY DEF Lists!Without, Lists!PlaceOf, Lists!S!Contains, Lists!S!RemoveAt, Without, S!Contains, S!RemoveAt
<1>. QED
  BY <1>1 DEF Lists!Drop, Dropped

\* Another item's place is still found when one has left.
LEMMA StillFound ==
  ASSUME NEW c \in Seq(Item), NEW x \in Item, NEW y \in Item, x # y, Lists!S!Contains(c, y)
  PROVE  LET d == Without(c, x)
             at == Lists!PlaceOf(d, y)
         IN  d \in Seq(Item) /\ at \in 1..Len(d) /\ d[at] = y
<1>. DEFINE d == Without(c, x)
            at == Lists!PlaceOf(d, y)
<1>1. PICK m \in 1..Len(c) : c[m] = y
  BY DEF Lists!S!Contains
<1>2. d \in Seq(Item) /\ \E k \in 1..Len(d) : d[k] = y
  <2>1. CASE \A k \in 1..Len(c) : c[k] # x
    <3>1. d = c
      BY <2>1, DroppedIs
    <3>. HIDE DEF d
    <3>. QED
      BY <1>1, <3>1
  <2>2. CASE \E k \in 1..Len(c) : c[k] = x
    <3>1. PICK j \in 1..Len(c) : c[j] = x /\ Shorter(d, c, j)
      BY <2>2, DroppedIs
    <3>. HIDE DEF d
    <3>2. /\ d \in Seq(Item) /\ Len(d) = Len(c) - 1 /\ Len(c) \in Nat /\ m # j
          /\ \A k \in 1..Len(d) : d[k] = c[IF k < j THEN k ELSE k + 1]
      BY <1>1, <3>1 DEF Shorter
    <3>3. CASE m < j
      <4>1. m \in 1..Len(d)
        BY <3>2, <3>3
      <4>. QED
        BY <1>1, <3>2, <3>3, <4>1
    <3>4. CASE m > j
      <4>1. m - 1 \in 1..Len(d) /\ ~(m - 1 < j) /\ (m - 1) + 1 = m
        BY <3>2, <3>4
      <4>2. d[m - 1] = y
        BY <1>1, <3>2, <4>1
      <4>. QED
        BY <3>2, <4>1, <4>2
    <3>. QED
      BY <3>2, <3>3, <3>4
  <2>. QED
    BY <2>1, <2>2
<1>. HIDE DEF d
<1>3. DOMAIN d = 1..Len(d)
  BY <1>2
<1>4. at \in 1..Len(d) /\ d[at] = y
  BY <1>2, <1>3 DEF Lists!PlaceOf
<1>. QED
  BY <1>2, <1>4 DEF d

\* The remainder of what does not exceed the divisor.
LEMMA Modulo ==
  ASSUME NEW n \in Nat, n > 0, NEW k \in Nat, k <= n
  PROVE  k % n = IF k = n THEN 0 ELSE k
<1>1. k < n => k % n = k
  OBVIOUS
<1>2. n % n = 0
  OBVIOUS
<1>. QED
  BY <1>1, <1>2

\* The item leaves where it was and enters a list behind some place.
Adds(item) ==
  \E l \in List : \E k \in 0..Len(Dropped(contents, item)[l]) : \E d :
    /\ Longer(d, Dropped(contents, item)[l], k, <<item>>)
    /\ contents' = [Dropped(contents, item) EXCEPT ![l] = d]

\* The four calls that add an item.
LEMMA AddingShown ==
  ASSUME Careful, Sound(pointers), Shown(pointers, contents), NEW item \in Item
  PROVE  /\ \A existing \in Item :
              CallAddBefore(item, existing) \/ CallAddAfter(item, existing) =>
                Shown(pointers', contents') /\ Adds(item)
         /\ \A list \in List :
              CallAddHead(list, item) \/ CallAddTail(list, item) =>
                Shown(pointers', contents') /\ Adds(item)
<1>. DEFINE rest == Dropped(contents, item)
<1>1. /\ contents \in [List -> Seq(Item)] /\ pointers \in Links /\ Agree(pointers)
      /\ \A h \in List : contents[h] \in Seq(Item)
  BY DEF Shown, Sound
<1>2. rest \in [List -> Seq(Item)] /\ \A h \in List : rest[h] \in Seq(Item)
  <2>1. Shown(Remove(pointers, item), rest)
    BY Leaves
  <2>. HIDE DEF rest
  <2>. QED
    BY <2>1 DEF Shown
<1>3. /\ \A n \in Node : pointers.next[n] \in Node /\ pointers.prev[n] \in Node
      /\ \A n \in Node : pointers.next[pointers.prev[n]] = n
  BY <1>1, Pointers DEF Agree
<1>4. Lists!Drop(item) = rest
  BY SameWithout
<1>5. ASSUME NEW existing \in Item, item # existing, NEW list \in Lists!ListOf(existing)
      PROVE  LET at == Lists!PlaceOf(rest[list], existing)
             IN  list \in List /\ at \in 1..Len(rest[list]) /\ rest[list][at] = existing
  <2>1. list \in List /\ Lists!S!Contains(contents[list], existing)
    BY <1>5 DEF Lists!ListOf
  <2>2. rest[list] = Without(contents[list], item)
    BY <2>1 DEF Dropped
  <2>. QED
    BY <1>1, <1>5, <2>1, <2>2, StillFound
<1>6. ASSUME NEW existing \in Item, CallAddBefore(item, existing)
      PROVE  Shown(pointers', contents') /\ Adds(item)
  <2>1. item # existing /\ pointers.prev[existing] # item /\ existing \in Node
    BY <1>6 DEF CallAddBefore, MayAddBefore, Node
  <2>2. PICK list \in Lists!ListOf(existing) :
          contents' = [rest EXCEPT ![list] =
                         Lists!S!InsertAt(@, Lists!PlaceOf(rest[list], existing) + 0, item)]
    BY <1>4, <1>6 DEF CallAddBefore, Lists!AddBeside
  <2>. DEFINE at == Lists!PlaceOf(rest[list], existing)
  <2>3. list \in List /\ at \in 1..Len(rest[list]) /\ rest[list][at] = existing
    BY <1>5, <2>1
  <2>. DEFINE d == Lists!S!InsertAt(rest[list], at + 0, item)
              k == at - 1
  <2>4. contents' = [rest EXCEPT ![list] = d]
    BY <1>2, <2>2, <2>3
  <2>5. pointers' = ItemBetween(Bypass(pointers, item), item, pointers.prev[existing], existing)
    BY <1>6 DEF CallAddBefore, AddBefore
  <2>. HIDE DEF at, rest
  <2>6. k \in 0..Len(rest[list]) /\ at + 0 = k + 1 /\ k + 1 \in 1..Len(rest[list])
    BY <2>3
  <2>7. Longer(d, rest[list], k, <<item>>)
    <3>1. d = S!InsertAt(rest[list], k + 1, item)
      BY <2>6 DEF Lists!S!InsertAt, S!InsertAt
    <3>. QED
      BY <1>2, <2>3, <2>6, <3>1, InsertedAt, SMTT(60)
  <2>8. existing = Spot(list, rest[list], k + 1)
    BY <2>3, <2>6 DEF Spot
  <2>9. rest = Dropped(contents, item)
    BY DEF rest
  <2>. HIDE DEF d, k
  <2>10. Shown(ItemBetween(Bypass(pointers, item), item, pointers.prev[existing], existing), [rest EXCEPT ![list] = d])
    BY ONLY Sound(pointers), Shown(pointers, contents), item \in Item, <1>3, <2>1, <2>3, <2>6, <2>7, <2>8, <2>9, Placed
  <2>. QED
    BY <2>3, <2>4, <2>5, <2>6, <2>7, <2>9, <2>10 DEF Adds
<1>7. ASSUME NEW existing \in Item, CallAddAfter(item, existing)
      PROVE  Shown(pointers', contents') /\ Adds(item)
  <2>1. item # existing /\ pointers.next[existing] # item /\ existing \in Node
    BY <1>7 DEF CallAddAfter, MayAddAfter, Node
  <2>2. PICK list \in Lists!ListOf(existing) :
          contents' = [rest EXCEPT ![list] =
                         Lists!S!InsertAt(@, Lists!PlaceOf(rest[list], existing) + 1, item)]
    BY <1>4, <1>7 DEF CallAddAfter, Lists!AddBeside
  <2>. DEFINE at == Lists!PlaceOf(rest[list], existing)
  <2>3. list \in List /\ at \in 1..Len(rest[list]) /\ rest[list][at] = existing
    BY <1>5, <2>1
  <2>. DEFINE d == Lists!S!InsertAt(rest[list], at + 1, item)
  <2>4. contents' = [rest EXCEPT ![list] = d]
    BY <1>2, <2>2, <2>3
  <2>5. pointers' = ItemBetween(Bypass(pointers, item), item, existing, pointers.next[existing])
    BY <1>7 DEF CallAddAfter, AddAfter
  <2>. HIDE DEF at, rest
  <2>6. at \in 0..Len(rest[list])
    BY <2>3
  <2>7. Longer(d, rest[list], at, <<item>>)
    <3>1. d = S!InsertAt(rest[list], at + 1, item)
      BY DEF Lists!S!InsertAt, S!InsertAt
    <3>. QED
      BY <1>2, <2>3, <2>6, <3>1, InsertedAt
  <2>8. existing = Spot(list, rest[list], at)
    BY <2>3, <2>6 DEF Spot
  <2>9. rest = Dropped(contents, item)
    BY DEF rest
  <2>. HIDE DEF d
  <2>10. Shown(ItemBetween(Bypass(pointers, item), item, existing, pointers.next[existing]), [rest EXCEPT ![list] = d])
    BY ONLY Sound(pointers), Shown(pointers, contents), item \in Item, <1>3, <2>1, <2>3, <2>6, <2>7, <2>8, <2>9, Placed
  <2>. QED
    BY <2>3, <2>4, <2>5, <2>6, <2>7, <2>9, <2>10 DEF Adds
<1>8. ASSUME NEW list \in List, CallAddHead(list, item)
      PROVE  Shown(pointers', contents') /\ Adds(item)
  <2>. DEFINE d == Lists!S!Cons(item, rest[list])
  <2>1. item # list /\ pointers.next[list] # item /\ list \in Node
    BY <1>8 DEF CallAddHead, MayAddAfter, Node
  <2>2. contents' = [rest EXCEPT ![list] = d]
    BY <1>2, <1>4, <1>8 DEF CallAddHead, Lists!AddHead
  <2>3. pointers' = ItemBetween(Bypass(pointers, item), item, list, pointers.next[list])
    BY <1>8 DEF CallAddHead, AddHead, AddAfter
  <2>. HIDE DEF rest
  <2>4. 0 \in 0..Len(rest[list]) /\ list = Spot(list, rest[list], 0)
    BY <1>2 DEF Spot
  <2>5. Longer(d, rest[list], 0, <<item>>)
    <3>1. d = S!Cons(item, rest[list])
      BY DEF Lists!S!Cons, S!Cons
    <3>. QED
      BY <1>2, <3>1, OneLonger
  <2>6. rest = Dropped(contents, item)
    BY DEF rest
  <2>. HIDE DEF d
  <2>7. Shown(ItemBetween(Bypass(pointers, item), item, list, pointers.next[list]), [rest EXCEPT ![list] = d])
    BY ONLY Sound(pointers), Shown(pointers, contents), item \in Item, list \in List,
            <1>3, <2>1, <2>4, <2>5, <2>6, Placed
  <2>. QED
    BY <2>2, <2>3, <2>4, <2>5, <2>6, <2>7 DEF Adds
<1>9. ASSUME NEW list \in List, CallAddTail(list, item)
      PROVE  Shown(pointers', contents') /\ Adds(item)
  <2>. DEFINE d == Lists!S!Snoc(item, rest[list])
              k == Len(rest[list])
  <2>1. item # list /\ pointers.prev[list] # item /\ list \in Node
    BY <1>9 DEF CallAddTail, MayAddBefore, Node
  <2>2. contents' = [rest EXCEPT ![list] = d]
    BY <1>2, <1>4, <1>9 DEF CallAddTail, Lists!AddTail
  <2>3. pointers' = ItemBetween(Bypass(pointers, item), item, pointers.prev[list], list)
    BY <1>9 DEF CallAddTail, AddTail, AddBefore
  <2>. HIDE DEF rest
  <2>4. k \in 0..Len(rest[list]) /\ list = Spot(list, rest[list], k + 1)
    BY <1>2 DEF Spot
  <2>5. Longer(d, rest[list], k, <<item>>)
    <3>1. d = S!Snoc(item, rest[list])
      BY DEF Lists!S!Snoc, S!Snoc
    <3>. QED
      BY <1>2, <3>1, OneLonger
  <2>6. rest = Dropped(contents, item)
    BY DEF rest
  <2>. HIDE DEF d, k
  <2>7. Shown(ItemBetween(Bypass(pointers, item), item, pointers.prev[list], list), [rest EXCEPT ![list] = d])
    BY ONLY Sound(pointers), Shown(pointers, contents), item \in Item, list \in List,
            <1>3, <2>1, <2>4, <2>5, <2>6, Placed
  <2>. QED
    BY <2>2, <2>3, <2>4, <2>5, <2>6, <2>7 DEF Adds
<1>. QED
  BY <1>6, <1>7, <1>8, <1>9

\* The two splices.
LEMMA SplicingShown ==
  ASSUME Sound(pointers), Shown(pointers, contents), NEW list \in List, NEW source \in List,
         CallSpliceHead(list, source) \/ CallSpliceTail(list, source)
  PROVE  Shown(pointers', contents')
<1>. DEFINE c == contents[list]
            o == contents[source]
<1>1. /\ contents \in [List -> Seq(Item)] /\ Agree(pointers)
      /\ c \in Seq(Item) /\ o \in Seq(Item) /\ Ring(pointers, list, c) /\ list \in Node
  BY DEF Shown, Sound, Node
<1>2. list # source
  BY DEF CallSpliceHead, CallSpliceTail, MaySplice
<1>3. CASE CallSpliceHead(list, source)
  <2>. DEFINE d == o \o c
  <2>1. pointers' = ContentsBetween(pointers, source, list, pointers.next[list])
    BY <1>3 DEF CallSpliceHead, SpliceHead
  <2>2. contents' = [contents EXCEPT ![list] = d, ![source] = <<>>]
    BY <1>1, <1>3 DEF CallSpliceHead, Lists!SpliceHead
  <2>3. Longer(d, c, 0, o)
    BY <1>1, Concatenated
  <2>. HIDE DEF d
  <2>4. 0 \in 0..Len(c) /\ list = Spot(list, c, 0)
    <3>. HIDE DEF c
    <3>. QED
      BY <1>1 DEF Spot
  <2>5. pointers.next[list] = Spot(list, c, 0 + 1)
    <3>. HIDE DEF c
    <3>. QED
      BY <1>1, <2>4 DEF Ring
  <2>6. Shown(ContentsBetween(pointers, source, list, pointers.next[list]),
              [contents EXCEPT ![list] = d, ![source] = <<>>])
    BY <1>2, <2>3, <2>4, <2>5, Spliced
  <2>. QED
    BY <2>1, <2>2, <2>6
<1>4. CASE CallSpliceTail(list, source)
  <2>. DEFINE d == c \o o
              k == Len(c)
  <2>1. pointers' = ContentsBetween(pointers, source, pointers.prev[list], list)
    BY <1>4 DEF CallSpliceTail, SpliceTail
  <2>2. contents' = [contents EXCEPT ![list] = d, ![source] = <<>>]
    BY <1>1, <1>4 DEF CallSpliceTail, Lists!SpliceTail
  <2>3. Longer(d, c, k, o)
    BY <1>1, Concatenated
  <2>. HIDE DEF d
  <2>4. k \in 0..Len(c) /\ list = Spot(list, c, k + 1)
    <3>. HIDE DEF c
    <3>. QED
      BY <1>1 DEF Spot
  <2>5. pointers.prev[list] = Spot(list, c, k)
    <3>1. pointers.next[Spot(list, c, k)] = list
      BY <1>1, <2>4 DEF Ring
    <3>2. Spot(list, c, k) \in Node
      <4>1. Apart(contents)
        BY DEF Shown
      <4>. QED
        BY <1>1, <2>4, <4>1, SpotIs
    <3>. QED
      BY <1>1, <3>1, <3>2 DEF Agree
  <2>6. Shown(ContentsBetween(pointers, source, pointers.prev[list], list),
              [contents EXCEPT ![list] = d, ![source] = <<>>])
    BY <1>2, <2>3, <2>4, <2>5, Spliced
  <2>. QED
    BY <2>1, <2>2, <2>6
<1>. QED
  BY <1>3, <1>4

\* Every call keeps what the pointers show in step with the abstract lists.
LEMMA ShownAlways == Careful => (ListSpec => []Shown(pointers, contents))
<1>. SUFFICES ASSUME Careful PROVE ListSpec => []Shown(pointers, contents)
  OBVIOUS
<1>1. ListInit => Shown(pointers, contents)
  BY EmptyShown DEF ListInit, Lists!Init
<1>2. Sound(pointers) /\ Shown(pointers, contents) /\ [ListNext]_listVars => Shown(pointers, contents)'
  <2>. SUFFICES ASSUME Sound(pointers), Shown(pointers, contents), [ListNext]_listVars
                PROVE  Shown(pointers', contents')
    BY DEF Shown, Apart, Ring, In, Spot
  <2>1. ASSUME NEW item \in Item, NEW existing \in Item,
               CallAddBefore(item, existing) \/ CallAddAfter(item, existing)
        PROVE  Shown(pointers', contents')
    BY <2>1, AddingShown
  <2>2. ASSUME NEW list \in List, NEW item \in Item, CallAddHead(list, item) \/ CallAddTail(list, item)
        PROVE  Shown(pointers', contents')
    BY <2>2, AddingShown
  <2>3. ASSUME NEW item \in Item, CallRemove(item)
        PROVE  Shown(pointers', contents')
    BY <2>3, Leaves, SameWithout DEF CallRemove, Lists!Remove
  <2>4. ASSUME NEW list \in List, NEW source \in List,
               CallSpliceHead(list, source) \/ CallSpliceTail(list, source)
        PROVE  Shown(pointers', contents')
    BY <2>4, SplicingShown
  <2>5. ASSUME NEW list \in List, NEW backwards \in BOOLEAN, BeginIteration(list, backwards)
        PROVE  Shown(pointers', contents')
    BY <2>5 DEF BeginIteration
  <2>6. CASE Advance
    BY <2>6 DEF Advance
  <2>7. CASE UNCHANGED listVars
    BY <2>7 DEF listVars
  <2>. QED
    BY <2>1, <2>2, <2>3, <2>4, <2>5, <2>6, <2>7 DEF ListNext
<1>3. ListSpec => []Sound(pointers)
  BY SoundAlways
<1>. QED
  BY <1>1, <1>2, <1>3, PTL DEF ListSpec

\* However many items and lists there are, and whatever careful callers do to
\* them, the ring through every sentinel is the list the calls have built, in
\* both directions: no item is lost, linked twice or left in two lists by a
\* move or a splice, and none is skipped or met out of order.
THEOREM ListsRepresented == Careful => (ListSpec => []Represents)
<1>1. Sound(pointers) /\ Shown(pointers, contents) => Represents
  <2>. SUFFICES ASSUME Sound(pointers), Shown(pointers, contents), NEW l \in List
                PROVE  LET ring == S!Cons(l, contents[l])
                           following(k) == ring[(k % Len(ring)) + 1]
                       IN  \A k \in DOMAIN ring :
                             /\ pointers.next[ring[k]] = following(k)
                             /\ pointers.prev[following(k)] = ring[k]
    BY DEF Represents
  <2>. DEFINE c == contents[l]
              ring == S!Cons(l, c)
              n == Len(c) + 1
  <2>1. contents \in [List -> Seq(Item)] /\ c \in Seq(Item) /\ Ring(pointers, l, c) /\ Apart(contents) /\ Agree(pointers)
    BY DEF Shown, Sound
  <2>2. Len(c) \in Nat
    <3>. HIDE DEF c
    <3>. QED
      BY <2>1
  <2>3. Len(ring) = n /\ DOMAIN ring = 1..n /\ \A k \in 1..n : ring[k] = Spot(l, c, k - 1)
    <3>. HIDE DEF c
    <3>. DEFINE one == <<l>>
    <3>1. one \in Seq(Node) /\ c \in Seq(Node) /\ Len(one) = 1 /\ one[1] = l
      BY <2>1 DEF Node
    <3>2. ring = one \o c
      BY DEF S!Cons
    <3>. HIDE DEF one, ring
    <3>0. ASSUME NEW p \in Seq(Node), NEW q \in Seq(Node)
          PROVE  /\ p \o q \in Seq(Node) /\ Len(p \o q) = Len(p) + Len(q)
                 /\ \A k \in 1..Len(p) : (p \o q)[k] = p[k]
                 /\ \A k \in (Len(p) + 1)..(Len(p) + Len(q)) : (p \o q)[k] = q[k - Len(p)]
      OBVIOUS
    <3>3. ring \in Seq(Node) /\ Len(ring) = n
      <4>1. one \o c \in Seq(Node) /\ Len(one \o c) = Len(one) + Len(c)
        BY <3>0, <3>1
      <4>. QED
        BY <2>2, <3>1, <3>2, <4>1
    <3>4. ASSUME NEW k \in 1..n PROVE ring[k] = Spot(l, c, k - 1)
      <4>1. k \in 1..(Len(one) + Len(c)) /\ k \in Nat
        BY <2>2, <3>1
      <4>2. CASE k = 1
        <5>1. ring[k] = one[k]
          BY <3>0, <3>1, <3>2, <4>2
        <5>. QED
          BY <3>1, <4>2, <5>1 DEF Spot
      <4>3. CASE k # 1
        <5>1. k - 1 \in 1..Len(c) /\ k \in (Len(one) + 1)..(Len(one) + Len(c))
          BY <2>2, <3>1, <4>1, <4>3
        <5>2. ring[k] = c[k - 1]
          <6>1. (one \o c)[k] = c[k - Len(one)]
            BY <3>0, <3>1, <5>1
          <6>. QED
            BY <3>1, <3>2, <6>1
        <5>. QED
          BY <5>1, <5>2 DEF Spot
      <4>. QED
        BY <4>2, <4>3
    <3>. QED
      BY <3>3, <3>4
  <2>4. ASSUME NEW k \in 1..n PROVE k % n = IF k = n THEN 0 ELSE k
    <3>1. n \in Nat /\ n > 0 /\ k \in Nat /\ k <= n
      BY <2>2
    <3>. HIDE DEF n
    <3>. QED
      BY <3>1, Modulo
  <2>. HIDE DEF ring
  <2>5. ASSUME NEW k \in 1..n
        PROVE  ring[(k % n) + 1] = Spot(l, c, k)
    <3>. HIDE DEF c
    <3>1. CASE k = n
      <4>1. k % n = 0 /\ 1 \in 1..n /\ Spot(l, c, k) = Spot(l, c, 1 - 1)
        BY <2>2, <2>4, <3>1 DEF Spot
      <4>. QED
        BY <2>3, <4>1
    <3>2. CASE k # n
      <4>1. k % n = k /\ k + 1 \in 1..n /\ (k + 1) - 1 = k
        BY <2>2, <2>4, <3>2
      <4>. QED
        BY <2>3, <4>1
    <3>. QED
      BY <3>1, <3>2
  <2>6. ASSUME NEW k \in 1..n
        PROVE  pointers.next[ring[k]] = ring[(k % n) + 1] /\ pointers.prev[ring[(k % n) + 1]] = ring[k]
    <3>1. k - 1 \in 0..Len(c) /\ (k - 1) + 1 = k
      BY <2>2
    <3>2. pointers.next[Spot(l, c, k - 1)] = Spot(l, c, k)
      BY <2>1, <3>1 DEF Ring
    <3>3. Spot(l, c, k - 1) \in Node
      BY <2>1, <3>1, SpotIs
    <3>. QED
      BY <2>1, <2>3, <2>5, <3>2, <3>3 DEF Agree
  <2>. QED
    BY <2>3, <2>6 DEF ring
<1>. QED
  BY <1>1, SoundAlways, ShownAlways, PTL

-----------------------------------------------------------------------------
(* Iterations: what is still to come, in the list as it now is. *)

Before(back, j, k) == IF back THEN j > k ELSE j < k

Occurs(c, x) == \E k \in 1..Len(c) : c[k] = x

\* x comes before y when c is walked in that direction.
Precedes(c, back, x, y) ==
  \E j \in 1..Len(c) : \E k \in 1..Len(c) : c[j] = x /\ c[k] = y /\ Before(back, j, k)

\* The planned items are in c in their order, the first done of them before
\* the node fetched next and the others not.
DueNow(c, back, plan, done, next) ==
  /\ Occurs(c, next)
  /\ \A k \in 1..Len(plan) :
       /\ Occurs(c, plan[k])
       /\ \A m \in 1..Len(plan) : k < m => Precedes(c, back, plan[k], plan[m])
       /\ k <= done => Precedes(c, back, plan[k], next)
       /\ k > done => plan[k] = next \/ Precedes(c, back, next, plan[k])

\* d holds what c does, except x, in the same order.
Kept(c, d, x) ==
  \A y \in Item \ {x} :
    /\ Occurs(c, y) => Occurs(d, y)
    /\ \A z \in Item \ {x} : \A back \in BOOLEAN :
         Precedes(c, back, y, z) => Precedes(d, back, y, z)

\* What keeps its places in order is kept.
LEMMA KeptByPlaces ==
  ASSUME NEW c \in Seq(Item), NEW d \in Seq(Item), NEW x, NEW at \in [1..Len(c) -> Int],
         \A m \in 1..Len(c) : c[m] # x => at[m] \in 1..Len(d) /\ d[at[m]] = c[m],
         \A m \in 1..Len(c) : \A n \in 1..Len(c) : m < n /\ c[m] # x /\ c[n] # x => at[m] < at[n]
  PROVE  Kept(c, d, x)
<1>. SUFFICES ASSUME NEW y \in Item \ {x}
              PROVE  /\ Occurs(c, y) => Occurs(d, y)
                     /\ \A z \in Item \ {x} : \A back \in BOOLEAN :
                          Precedes(c, back, y, z) => Precedes(d, back, y, z)
  BY DEF Kept
<1>1. Occurs(c, y) => Occurs(d, y)
  BY DEF Occurs
<1>2. ASSUME NEW z \in Item \ {x}, NEW back \in BOOLEAN, Precedes(c, back, y, z)
      PROVE  Precedes(d, back, y, z)
  <2>1. PICK j \in 1..Len(c) : \E k \in 1..Len(c) : c[j] = y /\ c[k] = z /\ Before(back, j, k)
    BY <1>2 DEF Precedes
  <2>2. PICK k \in 1..Len(c) : c[j] = y /\ c[k] = z /\ Before(back, j, k)
    BY <2>1
  <2>3. at[j] \in 1..Len(d) /\ d[at[j]] = y /\ at[k] \in 1..Len(d) /\ d[at[k]] = z
    BY <2>2
  <2>4. Before(back, at[j], at[k])
    BY <2>2 DEF Before
  <2>. QED
    BY <2>3, <2>4 DEF Precedes
<1>. QED
  BY <1>1, <1>2

\* A list that loses a place keeps the other items.
LEMMA KeptByShorter ==
  ASSUME NEW c \in Seq(Item), NEW j \in 1..Len(c), NEW d, Shorter(d, c, j)
  PROVE  Kept(c, d, c[j])
<1>. DEFINE at == [m \in 1..Len(c) |-> IF m < j THEN m ELSE m - 1]
<1>1. /\ d \in Seq(Item) /\ Len(d) = Len(c) - 1 /\ Len(c) \in Nat
      /\ \A k \in 1..Len(d) : d[k] = c[IF k < j THEN k ELSE k + 1]
  BY DEF Shorter
<1>2. at \in [1..Len(c) -> Int] /\ \A m \in 1..Len(c) : at[m] = IF m < j THEN m ELSE m - 1
  BY <1>1
<1>. HIDE DEF at
<1>3. ASSUME NEW m \in 1..Len(c), c[m] # c[j]
      PROVE  at[m] \in 1..Len(d) /\ d[at[m]] = c[m]
  <2>1. CASE m < j
    <3>1. at[m] = m /\ m \in 1..Len(d)
      BY <1>1, <1>2, <2>1
    <3>. QED
      BY <1>1, <2>1, <3>1
  <2>2. CASE m > j
    <3>1. at[m] = m - 1 /\ m - 1 \in 1..Len(d) /\ ~(m - 1 < j) /\ (m - 1) + 1 = m
      BY <1>1, <1>2, <2>2
    <3>. QED
      BY <1>1, <3>1
  <2>. QED
    BY <1>3, <2>1, <2>2
<1>4. ASSUME NEW m \in 1..Len(c), NEW n \in 1..Len(c), m < n, c[m] # c[j], c[n] # c[j]
      PROVE  at[m] < at[n]
  <2>1. m # j /\ n # j
    BY <1>4
  <2>2. at[m] = (IF m < j THEN m ELSE m - 1) /\ at[n] = (IF n < j THEN n ELSE n - 1)
    BY <1>2
  <2>. QED
    BY <1>4, <2>1, <2>2
<1>. QED
  BY <1>1, <1>2, <1>3, <1>4, KeptByPlaces

\* A list that takes items in keeps those it had.
LEMMA KeptByLonger ==
  ASSUME NEW c \in Seq(Item), NEW s \in Seq(Item), NEW k \in 0..Len(c), NEW d, Longer(d, c, k, s), NEW x
  PROVE  Kept(c, d, x)
<1>. DEFINE w == Len(s)
            at == [m \in 1..Len(c) |-> IF m <= k THEN m ELSE m + w]
<1>1. /\ d \in Seq(Item) /\ Len(d) = Len(c) + w /\ Len(c) \in Nat /\ w \in Nat
      /\ \A m \in 1..Len(d) : d[m] = IF m <= k THEN c[m] ELSE IF m <= k + w THEN s[m - k] ELSE c[m - w]
  BY DEF Longer
<1>. HIDE DEF w
<1>2. at \in [1..Len(c) -> Int] /\ \A m \in 1..Len(c) : at[m] = IF m <= k THEN m ELSE m + w
  BY <1>1
<1>. HIDE DEF at
<1>3. ASSUME NEW m \in 1..Len(c)
      PROVE  at[m] \in 1..Len(d) /\ d[at[m]] = c[m]
  <2>1. CASE m <= k
    <3>1. at[m] = m /\ m \in 1..Len(d)
      BY <1>1, <1>2, <2>1
    <3>. QED
      BY <1>1, <2>1, <3>1
  <2>2. CASE m > k
    <3>1. at[m] = m + w /\ m + w \in 1..Len(d) /\ ~(m + w <= k) /\ ~(m + w <= k + w) /\ (m + w) - w = m
      BY <1>1, <1>2, <2>2
    <3>. QED
      BY <1>1, <3>1
  <2>. QED
    BY <2>1, <2>2
<1>4. ASSUME NEW m \in 1..Len(c), NEW n \in 1..Len(c), m < n
      PROVE  at[m] < at[n]
  BY <1>1, <1>2, <1>4
<1>. QED
  BY <1>1, <1>2, <1>3, <1>4, KeptByPlaces

\* Keeping is transitive,
LEMMA KeptTwice ==
  ASSUME NEW c, NEW d, NEW e, NEW x, Kept(c, d, x), Kept(d, e, x)
  PROVE  Kept(c, e, x)
BY DEF Kept

\* and a list keeps itself.
LEMMA KeptItself == ASSUME NEW c, NEW x PROVE Kept(c, c, x)
BY DEF Kept

\* What a list keeps when an item leaves its place.
LEMMA KeptByDropping ==
  ASSUME NEW c \in Seq(Item), NEW x \in Item
  PROVE  Without(c, x) \in Seq(Item) /\ Kept(c, Without(c, x), x)
<1>. DEFINE d == Without(c, x)
<1>1. CASE \A k \in 1..Len(c) : c[k] # x
  <2>1. d = c
    BY <1>1, DroppedIs
  <2>. QED
    BY <2>1, KeptItself
<1>2. CASE \E k \in 1..Len(c) : c[k] = x
  <2>1. PICK j \in 1..Len(c) : c[j] = x /\ Shorter(d, c, j)
    BY <1>2, DroppedIs
  <2>. QED
    BY <2>1, KeptByShorter DEF Shorter
<1>. QED
  BY <1>1, <1>2

\* What is due stays due in a list that keeps it.
LEMMA DueKept ==
  ASSUME NEW c, NEW d, NEW x, Kept(c, d, x), NEW back \in BOOLEAN,
         NEW plan \in Seq(Item), \A k \in 1..Len(plan) : plan[k] # x,
         NEW done, NEW next \in Item, next # x, DueNow(c, back, plan, done, next)
  PROVE  DueNow(d, back, plan, done, next)
<1>1. \A k \in 1..Len(plan) : plan[k] \in Item \ {x}
  OBVIOUS
<1>2. next \in Item \ {x}
  OBVIOUS
<1>. QED
  BY <1>1, <1>2 DEF DueNow, Kept

\* Two places of a plan hold different items.
LEMMA PlanOnce ==
  ASSUME NEW cts \in [List -> Seq(Item)], Apart(cts), NEW l \in List, NEW back \in BOOLEAN,
         NEW x, NEW y, Precedes(cts[l], back, x, y)
  PROVE  x # y /\ ~Precedes(cts[l], back, y, x)
<1>1. PICK j \in 1..Len(cts[l]) : \E k \in 1..Len(cts[l]) :
        cts[l][j] = x /\ cts[l][k] = y /\ Before(back, j, k)
  BY DEF Precedes
<1>2. PICK k \in 1..Len(cts[l]) : cts[l][j] = x /\ cts[l][k] = y /\ Before(back, j, k)
  BY <1>1
<1>3. ASSUME NEW m \in 1..Len(cts[l]), NEW n \in 1..Len(cts[l]), cts[l][m] = cts[l][n]
      PROVE  m = n
  BY <1>3 DEF Apart
<1>4. x # y
  BY <1>2, <1>3 DEF Before
<1>5. ASSUME Precedes(cts[l], back, y, x) PROVE FALSE
  <2>1. PICK m \in 1..Len(cts[l]) : \E n \in 1..Len(cts[l]) :
          cts[l][m] = y /\ cts[l][n] = x /\ Before(back, m, n)
    BY <1>5 DEF Precedes
  <2>2. PICK n \in 1..Len(cts[l]) : cts[l][m] = y /\ cts[l][n] = x /\ Before(back, m, n)
    BY <2>1
  <2>3. m = k /\ n = j
    BY <1>2, <1>3, <2>2
  <2>. QED
    BY <1>2, <2>2, <2>3 DEF Before
<1>. QED
  BY <1>4, <1>5

\* What has been visited is the beginning of what was planned.
Prefix(seen, plan) ==
  /\ seen \in Seq(Item) /\ plan \in Seq(Item) /\ Len(seen) <= Len(plan)
  /\ \A k \in 1..Len(seen) : seen[k] = plan[k]

Distinct(plan) == \A j \in 1..Len(plan) : \A k \in 1..Len(plan) : plan[j] = plan[k] => j = k

\* p is a part of plan in its order, and s the part of seen in it.
Part(p, s, plan, seen, x) ==
  \E at \in [1..Len(p) -> 1..Len(plan)] : \A k \in 1..Len(p) :
    /\ p[k] = plan[at[k]] /\ p[k] # x
    /\ k <= Len(s) <=> at[k] <= Len(seen)
    /\ \A m \in 1..Len(p) : k < m => at[k] < at[m]

\* A beginning as long as the plan is the plan.
LEMMA WholePrefix ==
  ASSUME NEW seen, NEW plan, Prefix(seen, plan), Len(seen) = Len(plan)
  PROVE  seen = plan
BY DEF Prefix

\* A moved item leaves both the plan and what was visited of it.
LEMMA PlanWithout ==
  ASSUME NEW plan, NEW seen, Prefix(seen, plan), Distinct(plan), NEW x \in Item,
         NEW p, p = Without(plan, x), NEW s, s = Without(seen, x)
  PROVE  Prefix(s, p) /\ Part(p, s, plan, seen, x)
<1>1. /\ plan \in Seq(Item) /\ seen \in Seq(Item) /\ p \in Seq(Item) /\ s \in Seq(Item)
      /\ Len(plan) \in Nat /\ Len(seen) \in Nat /\ Len(seen) <= Len(plan)
      /\ \A k \in 1..Len(seen) : seen[k] = plan[k]
  BY KeptByDropping DEF Prefix
<1>2. CASE \A k \in 1..Len(plan) : plan[k] # x
  <2>1. p = plan
    BY <1>1, <1>2, DroppedIs
  <2>2. \A k \in 1..Len(seen) : seen[k] # x
    BY <1>1, <1>2
  <2>3. s = seen
    BY <1>1, <2>2, DroppedIs
  <2>. DEFINE at == [k \in 1..Len(plan) |-> k]
  <2>4. at \in [1..Len(plan) -> 1..Len(plan)] /\ \A k \in 1..Len(plan) : at[k] = k
    OBVIOUS
  <2>. HIDE DEF at
  <2>. QED
    BY <1>2, <2>1, <2>3, <2>4 DEF Part
<1>3. CASE \E k \in 1..Len(plan) : plan[k] = x
  <2>1. PICK j \in 1..Len(plan) : plan[j] = x /\ Shorter(p, plan, j)
    BY <1>1, <1>3, DroppedIs
  <2>2. /\ Len(p) = Len(plan) - 1 /\ j \in Nat
        /\ \A k \in 1..Len(p) : p[k] = plan[IF k < j THEN k ELSE k + 1]
    BY <2>1 DEF Shorter
  <2>. DEFINE at == [k \in 1..Len(p) |-> IF k < j THEN k ELSE k + 1]
  <2>3. at \in [1..Len(p) -> 1..Len(plan)] /\ \A k \in 1..Len(p) : at[k] = IF k < j THEN k ELSE k + 1
    BY <1>1, <2>2
  <2>. HIDE DEF at
  <2>4. \A k \in 1..Len(p) : p[k] = plan[at[k]] /\ at[k] # j
    BY <2>2, <2>3
  <2>5. \A k \in 1..Len(p) : p[k] # x
    BY <2>1, <2>3, <2>4 DEF Distinct
  <2>6. \A k \in 1..Len(p) : \A m \in 1..Len(p) : k < m => at[k] < at[m]
    BY <2>2, <2>3
  <2>7. CASE j <= Len(seen)
    <3>1. j \in 1..Len(seen) /\ seen[j] = x
      BY <1>1, <2>1, <2>7
    <3>2. PICK i \in 1..Len(seen) : seen[i] = x /\ Shorter(s, seen, i)
      BY <1>1, <3>1, DroppedIs
    <3>3. i \in 1..Len(plan) /\ plan[i] = x
      BY <1>1, <3>2
    <3>4. i = j
      BY <2>1, <3>3 DEF Distinct
    <3>5. Len(s) = Len(seen) - 1 /\ \A k \in 1..Len(s) : s[k] = seen[IF k < j THEN k ELSE k + 1]
      BY <3>2, <3>4 DEF Shorter
    <3>6. \A k \in 1..Len(p) : k <= Len(s) <=> at[k] <= Len(seen)
      BY <1>1, <2>2, <2>3, <3>1, <3>5, SMTT(60)
    <3>7. ASSUME NEW k \in 1..Len(s) PROVE s[k] = p[k]
      <4>1. k \in 1..Len(p) /\ at[k] \in 1..Len(seen)
        BY <1>1, <2>2, <2>3, <3>5
      <4>2. s[k] = seen[at[k]]
        BY <2>3, <3>5, <4>1
      <4>3. seen[at[k]] = plan[at[k]]
        BY <1>1, <4>1
      <4>. QED
        BY <2>4, <4>1, <4>2, <4>3
    <3>8. Prefix(s, p)
      BY <1>1, <2>2, <3>5, <3>7 DEF Prefix
    <3>. QED
      BY <2>3, <2>4, <2>5, <2>6, <3>6, <3>8 DEF Part
  <2>8. CASE j > Len(seen)
    <3>1. \A k \in 1..Len(seen) : seen[k] # x
      BY <1>1, <2>1, <2>8 DEF Distinct
    <3>2. s = seen
      BY <1>1, <3>1, DroppedIs
    <3>3. \A k \in 1..Len(p) : k <= Len(seen) <=> at[k] <= Len(seen)
      BY <1>1, <2>2, <2>3, <2>8
    <3>4. ASSUME NEW k \in 1..Len(seen) PROVE k \in 1..Len(p) /\ seen[k] = p[k]
      <4>1. k \in 1..Len(p) /\ k < j
        BY <1>1, <2>2, <2>8
      <4>2. seen[k] = plan[k] /\ p[k] = plan[k]
        BY <1>1, <2>2, <4>1
      <4>. QED
        BY <4>1, <4>2
    <3>5. Prefix(s, p)
      BY <1>1, <2>2, <2>8, <3>2, <3>4 DEF Prefix
    <3>. QED
      BY <2>3, <2>4, <2>5, <2>6, <3>2, <3>3, <3>5 DEF Part
  <2>. QED
    BY <1>1, <2>2, <2>7, <2>8
<1>. QED
  BY <1>2, <1>3

\* The rest of the plan is due where the plan was.
LEMMA DueWithout ==
  ASSUME NEW plan, NEW seen, Prefix(seen, plan), NEW p, NEW s, NEW x, Prefix(s, p),
         Part(p, s, plan, seen, x), NEW c, NEW back, NEW next, DueNow(c, back, plan, Len(seen), next)
  PROVE  DueNow(c, back, p, Len(s), next)
<1>1. PICK at \in [1..Len(p) -> 1..Len(plan)] : \A k \in 1..Len(p) :
        /\ p[k] = plan[at[k]]
        /\ k <= Len(s) <=> at[k] <= Len(seen)
        /\ \A m \in 1..Len(p) : k < m => at[k] < at[m]
  BY DEF Part
<1>2. Len(s) \in Nat /\ Len(seen) \in Nat /\ Len(p) \in Nat /\ Len(plan) \in Nat
  BY DEF Prefix
<1>3. ASSUME NEW k \in 1..Len(p)
      PROVE  /\ Occurs(c, p[k])
             /\ \A m \in 1..Len(p) : k < m => Precedes(c, back, p[k], p[m])
             /\ k <= Len(s) => Precedes(c, back, p[k], next)
             /\ k > Len(s) => p[k] = next \/ Precedes(c, back, next, p[k])
  <2>1. at[k] \in 1..Len(plan) /\ (k <= Len(s) <=> at[k] <= Len(seen)) /\ p[k] = plan[at[k]]
    BY <1>1
  <2>2. k > Len(s) => at[k] > Len(seen)
    BY <1>2, <2>1
  <2>3. ASSUME NEW m \in 1..Len(p), k < m PROVE Precedes(c, back, p[k], p[m])
    <3>1. at[m] \in 1..Len(plan) /\ at[k] < at[m] /\ p[m] = plan[at[m]]
      BY <1>1, <2>3
    <3>. QED
      BY <2>1, <3>1 DEF DueNow
  <2>. QED
    BY <2>1, <2>2, <2>3 DEF DueNow
<1>. QED
  BY <1>3 DEF DueNow

-----------------------------------------------------------------------------
\* An iteration that has nothing left to fetch has visited its plan; one that
\* has finds the rest of its plan at and behind the item fetched next.
Iterating ==
  /\ Prefix(visited, planned)
  /\ listIterator.current = Null => listIterator.subsequent = Null
  /\ listIterator.subsequent = Null => visited = planned
  /\ listIterator.subsequent # Null =>
       /\ listIterator.subsequent \in Item /\ listIterator.list \in List /\ listIterator.backwards \in BOOLEAN
       /\ DueNow(contents[listIterator.list], listIterator.backwards, planned, Len(visited),
              listIterator.subsequent)

\* A plan that is due holds every item once.
LEMMA DueOnce ==
  ASSUME NEW cts \in [List -> Seq(Item)], Apart(cts), NEW l \in List, NEW back \in BOOLEAN,
         NEW plan \in Seq(Item), NEW done, NEW next, DueNow(cts[l], back, plan, done, next)
  PROVE  Distinct(plan)
<1>. SUFFICES ASSUME NEW j \in 1..Len(plan), NEW k \in 1..Len(plan), plan[j] = plan[k], j # k
              PROVE  FALSE
  BY DEF Distinct
<1>1. CASE j < k
  BY <1>1, PlanOnce DEF DueNow
<1>2. CASE k < j
  BY <1>2, PlanOnce DEF DueNow
<1>. QED
  BY <1>1, <1>2

\* Moving an item that is not fetched next.
LEMMA MovesKeeps ==
  ASSUME Careful, Shown(pointers, contents), Iterating, NEW item \in Item, Moves(item),
         \A l \in List : Kept(contents[l], contents'[l], item)
  PROVE  Iterating'
<1>1. /\ planned' = Without(planned, item) /\ visited' = Without(visited, item)
      /\ listIterator' = listIterator /\ item # listIterator.subsequent
  BY SameWithout DEF Moves, MayMove
<1>2. /\ Prefix(visited, planned) /\ planned \in Seq(Item) /\ visited \in Seq(Item)
      /\ planned' \in Seq(Item) /\ visited' \in Seq(Item)
      /\ contents \in [List -> Seq(Item)] /\ Apart(contents)
  BY <1>1, KeptByDropping DEF Iterating, Prefix, Shown
<1>3. CASE listIterator.subsequent = Null
  <2>1. visited' = planned'
    BY <1>1, <1>3 DEF Iterating
  <2>2. Prefix(visited', planned')
    BY <1>2, <2>1 DEF Prefix
  <2>. QED
    BY <1>1, <1>3, <2>1, <2>2 DEF Iterating
<1>4. CASE listIterator.subsequent # Null
  <2>. DEFINE l == listIterator.list
              back == listIterator.backwards
              next == listIterator.subsequent
  <2>1. /\ next \in Item /\ l \in List /\ back \in BOOLEAN
        /\ DueNow(contents[l], back, planned, Len(visited), next)
    BY <1>4 DEF Iterating
  <2>2. Distinct(planned)
    BY <1>2, <2>1, DueOnce
  <2>3. Prefix(visited', planned') /\ Part(planned', visited', planned, visited, item)
    BY <1>1, <1>2, <2>2, PlanWithout
  <2>4. DueNow(contents[l], back, planned', Len(visited'), next)
    BY <1>2, <2>1, <2>3, DueWithout
  <2>5. \A k \in 1..Len(planned') : planned'[k] # item
    BY <2>3 DEF Part
  <2>6. DueNow(contents'[l], back, planned', Len(visited'), next)
    BY <1>1, <1>2, <2>1, <2>4, <2>5, DueKept
  <2>. QED
    BY <1>1, <1>4, <2>1, <2>3, <2>6 DEF Iterating
<1>. QED
  BY <1>3, <1>4

\* The place behind another in the direction of a walk.
After(back, j) == IF back THEN j - 1 ELSE j + 1

\* The neighbour that iterator fetches is the next place, or the sentinel.
LEMMA Fetched ==
  ASSUME Sound(pointers), Shown(pointers, contents), NEW l \in List, NEW back \in BOOLEAN,
         NEW j \in 0..(Len(contents[l]) + 1), NEW node, node = Spot(l, contents[l], j),
         ~back => j <= Len(contents[l]), back => j >= 1
  PROVE  LET got == IF back THEN PreviousOf(pointers, l, node) ELSE NextOf(pointers, l, node)
             next == After(back, j)
         IN  got = IF next \in 1..Len(contents[l]) THEN contents[l][next] ELSE Null
<1>. DEFINE c == contents[l]
            next == After(back, j)
<1>1. /\ contents \in [List -> Seq(Item)] /\ c \in Seq(Item) /\ Apart(contents)
      /\ Ring(pointers, l, c) /\ Agree(pointers) /\ \A y \in Item : y # l
  BY ListAssumption DEF Shown, Sound
<1>2. Len(c) \in Nat
  <2>. HIDE DEF c
  <2>. QED
    BY <1>1
<1>3. IF back THEN pointers.prev[node] = Spot(l, c, next) ELSE pointers.next[node] = Spot(l, c, next)
  <2>1. CASE ~back
    <3>1. j \in 0..Len(c)
      BY <1>2, <2>1
    <3>. QED
      BY <1>1, <2>1, <3>1 DEF Ring, After
  <2>2. CASE back
    <3>1. j - 1 \in 0..Len(c) /\ (j - 1) + 1 = j
      BY <1>2, <2>2
    <3>2. pointers.next[Spot(l, c, j - 1)] = node
      BY <1>1, <3>1 DEF Ring
    <3>3. Spot(l, c, j - 1) \in Node
      BY <1>1, <3>1, SpotIs
    <3>. QED
      BY <1>1, <2>2, <3>2, <3>3 DEF Agree, After
  <2>. QED
    BY <2>1, <2>2
<1>4. CASE next \in 1..Len(c)
  <2>1. Spot(l, c, next) = c[next] /\ c[next] # l
    BY <1>1, <1>4 DEF Spot
  <2>. QED
    BY <1>3, <1>4, <2>1 DEF PreviousOf, NextOf, NullAt
<1>5. CASE next \notin 1..Len(c)
  <2>1. Spot(l, c, next) = l
    BY <1>5 DEF Spot
  <2>. QED
    BY <1>3, <1>5, <2>1 DEF PreviousOf, NextOf, NullAt
<1>. QED
  BY <1>4, <1>5

\* Advancing visits what is due and fetches the next place.
LEMMA AdvanceKeeps ==
  ASSUME Sound(pointers), Shown(pointers, contents), Iterating, Advance
  PROVE  Iterating'
<1>. DEFINE l == listIterator.list
            back == listIterator.backwards
            next == listIterator.subsequent
            c == contents[l]
            done == Len(visited)
<1>1. /\ listIterator' = Over(l, back, At(pointers, l, back, next))
      /\ planned' = planned /\ contents' = contents
      /\ visited' = visited \o Visit(listIterator'.current)
  BY DEF Advance, Subsequent
<1>2. listIterator'.current = next /\ listIterator'.list = l /\ listIterator'.backwards = back
  BY <1>1 DEF Over, At
<1>3. /\ planned \in Seq(Item) /\ visited \in Seq(Item) /\ Len(planned) \in Nat /\ Len(visited) \in Nat
      /\ Len(visited) <= Len(planned) /\ \A k \in 1..Len(visited) : visited[k] = planned[k]
  BY DEF Iterating, Prefix
<1>4. S!Contains(planned', next) <=> \E k \in 1..Len(planned) : planned[k] = next
  BY <1>1 DEF S!Contains
<1>5. CASE next = Null
  <2>1. \A k \in 1..Len(planned) : planned[k] # Null
    BY <1>3, ListAssumption
  <2>2. visited' = visited \o <<>>
    BY <1>1, <1>2, <1>4, <1>5, <2>1 DEF Visit
  <2>3. visited' = visited
    BY <1>3, <2>2
  <2>4. listIterator'.subsequent = Null
    BY <1>1, <1>5 DEF Over, At
  <2>. QED
    BY <1>1, <1>2, <1>5, <2>3, <2>4 DEF Iterating
<1>6. CASE next # Null
  <2>1. next \in Item /\ l \in List /\ back \in BOOLEAN /\ DueNow(c, back, planned, done, next)
    BY <1>6 DEF Iterating
  <2>2. contents \in [List -> Seq(Item)] /\ Apart(contents) /\ c \in Seq(Item) /\ Len(c) \in Nat
    <3>1. contents \in [List -> Seq(Item)] /\ Apart(contents) /\ c \in Seq(Item)
      BY <2>1 DEF Shown
    <3>. HIDE DEF c
    <3>. QED
      BY <3>1
  <2>3. Distinct(planned)
    BY <1>3, <2>1, <2>2, DueOnce
  <2>4. PICK t \in 1..Len(c) : c[t] = next
    BY <2>1 DEF DueNow, Occurs
  <2>. DEFINE u == After(back, t)
  <2>5. listIterator'.subsequent = IF u \in 1..Len(c) THEN c[u] ELSE Null
    <3>1. next = Spot(l, c, t) /\ t \in 0..(Len(c) + 1) /\ t <= Len(c) /\ t >= 1
      BY <2>2, <2>4 DEF Spot
    <3>2. listIterator'.subsequent = IF back THEN PreviousOf(pointers, l, next) ELSE NextOf(pointers, l, next)
      BY <1>1, <1>6 DEF Over, At
    <3>. QED
      BY <2>1, <3>1, <3>2, Fetched
  <2>6. ASSUME NEW j \in 1..Len(c), NEW k \in 1..Len(c), c[j] = c[k] PROVE j = k
    BY <2>1, <2>2, <2>6 DEF Apart
  \* At most the first of the rest is visited.
  <2>7. ASSUME NEW k \in 1..Len(planned), planned[k] = next PROVE k = done + 1
    <3>1. k > done
      <4>1. ~Precedes(c, back, next, next)
        BY <2>1, <2>2, PlanOnce
      <4>. QED
        BY <1>3, <2>1, <2>7, <4>1 DEF DueNow
    <3>2. ASSUME k > done + 1 PROVE FALSE
      <4>1. done + 1 \in 1..Len(planned) /\ done + 1 > done /\ done + 1 < k
        BY <1>3, <3>2
      <4>2. Precedes(c, back, planned[done + 1], next)
        BY <2>1, <2>7, <4>1 DEF DueNow
      <4>3. planned[done + 1] = next \/ Precedes(c, back, next, planned[done + 1])
        BY <2>1, <4>1 DEF DueNow
      <4>. QED
        BY <2>1, <2>2, <4>2, <4>3, PlanOnce
    <3>. QED
      BY <1>3, <3>1, <3>2
  <2>8. /\ visited' \in Seq(Item) /\ Len(visited') \in Nat
        /\ IF \E k \in 1..Len(planned) : planned[k] = next
             THEN Len(visited') = done + 1 /\ done + 1 \in 1..Len(planned) /\ planned[done + 1] = next
             ELSE Len(visited') = done
        /\ Len(visited') <= Len(planned)
        /\ \A k \in 1..Len(visited') : visited'[k] = planned[k]
    <3>1. CASE \E k \in 1..Len(planned) : planned[k] = next
      <4>1. visited' = visited \o <<next>>
        BY <1>1, <1>2, <1>4, <3>1 DEF Visit
      <4>2. done + 1 \in 1..Len(planned) /\ planned[done + 1] = next
        BY <2>7, <3>1
      <4>3. visited' = Append(visited, next)
        BY <1>3, <2>1, <4>1, AppendIsConcat
      <4>4. /\ visited' \in Seq(Item) /\ Len(visited') = done + 1
            /\ visited'[done + 1] = next /\ \A k \in 1..done : visited'[k] = visited[k]
        BY <1>3, <2>1, <4>3
      <4>5. ASSUME NEW k \in 1..Len(visited') PROVE visited'[k] = planned[k]
        <5>1. k = done + 1 \/ k \in 1..done
          BY <1>3, <4>4
        <5>. QED
          BY <1>3, <4>2, <4>4, <5>1
      <4>6. Len(visited') \in Nat /\ Len(visited') <= Len(planned)
        BY <1>3, <4>2, <4>4
      <4>. QED
        BY <3>1, <4>2, <4>4, <4>5, <4>6
    <3>2. CASE ~\E k \in 1..Len(planned) : planned[k] = next
      <4>1. visited' = visited \o <<>>
        BY <1>1, <1>2, <1>4, <3>2 DEF Visit
      <4>2. visited' = visited
        BY <1>3, <4>1
      <4>. QED
        BY <1>3, <3>2, <4>2
    <3>. QED
      BY <3>1, <3>2
  <2>9. Prefix(visited', planned')
    BY <1>1, <1>3, <2>8 DEF Prefix
  \* Where the planned items are now.
  <2>10. ASSUME NEW k \in 1..Len(planned), NEW a \in 1..Len(c), c[a] = planned[k]
         PROVE  IF k <= Len(visited') THEN a = t \/ Before(back, a, t) ELSE Before(back, t, a)
    <3>1. CASE planned[k] = next
      <4>1. k = done + 1 /\ Len(visited') = done + 1
        BY <2>7, <2>8, <3>1
      <4>2. a = t
        BY <2>4, <2>6, <2>10, <3>1
      <4>. QED
        BY <1>3, <4>1, <4>2
    <3>2. CASE planned[k] # next /\ k <= done
      <4>1. Precedes(c, back, planned[k], next)
        BY <2>1, <3>2 DEF DueNow
      <4>2. PICK m \in 1..Len(c) : \E n \in 1..Len(c) : c[m] = planned[k] /\ c[n] = next /\ Before(back, m, n)
        BY <4>1 DEF Precedes
      <4>3. PICK n \in 1..Len(c) : c[m] = planned[k] /\ c[n] = next /\ Before(back, m, n)
        BY <4>2
      <4>4. m = a /\ n = t
        BY <2>4, <2>6, <2>10, <4>3
      <4>5. k <= Len(visited')
        BY <1>3, <2>8, <3>2
      <4>. QED
        BY <4>3, <4>4, <4>5
    <3>3. CASE planned[k] # next /\ ~(k <= done)
      <4>0. k > done
        BY <1>3, <3>3
      <4>1. Precedes(c, back, next, planned[k])
        BY <2>1, <3>3, <4>0 DEF DueNow
      <4>2. PICK n \in 1..Len(c) : \E m \in 1..Len(c) : c[n] = next /\ c[m] = planned[k] /\ Before(back, n, m)
        BY <4>1 DEF Precedes
      <4>3. PICK m \in 1..Len(c) : c[n] = next /\ c[m] = planned[k] /\ Before(back, n, m)
        BY <4>2
      <4>4. m = a /\ n = t
        BY <2>4, <2>6, <2>10, <4>3
      <4>5. ~(k <= Len(visited'))
        BY <1>3, <2>8, <3>3, <4>0
      <4>. QED
        BY <4>3, <4>4, <4>5
    <3>. QED
      BY <3>1, <3>2, <3>3
  <2>11. \A k \in 1..Len(planned) : \E a \in 1..Len(c) : c[a] = planned[k]
    BY <2>1 DEF DueNow, Occurs
  <2>12. CASE u \notin 1..Len(c)
    <3>1. listIterator'.subsequent = Null
      BY <2>5, <2>12
    <3>2. ASSUME NEW k \in 1..Len(planned) PROVE k <= Len(visited')
      <4>1. PICK a \in 1..Len(c) : c[a] = planned[k]
        BY <2>11
      <4>2. ~Before(back, t, a)
        BY <2>2, <2>12 DEF Before, After
      <4>. QED
        BY <2>10, <4>1, <4>2
    <3>3. Len(visited') = Len(planned)
      <4>1. Len(planned) > 0 => Len(planned) <= Len(visited')
        BY <1>3, <3>2, SMTT(60)
      <4>. QED
        BY <1>3, <2>8, <4>1
    <3>4. visited' = planned'
      BY <1>1, <2>9, <3>3, WholePrefix
    <3>5. listIterator'.current # Null
      BY <1>2, <1>6
    <3>. QED
      BY ONLY <2>9, <3>1, <3>4, <3>5 DEF Iterating
  <2>13. CASE u \in 1..Len(c)
    <3>1. listIterator'.subsequent = c[u] /\ c[u] \in Item /\ c[u] # Null
      BY <2>2, <2>5, <2>13, ListAssumption
    <3>2. ASSUME NEW k \in 1..Len(planned)
          PROVE  /\ Occurs(c, planned[k])
                 /\ \A m \in 1..Len(planned) : k < m => Precedes(c, back, planned[k], planned[m])
                 /\ k <= Len(visited') => Precedes(c, back, planned[k], c[u])
                 /\ k > Len(visited') => planned[k] = c[u] \/ Precedes(c, back, c[u], planned[k])
      <4>1. PICK a \in 1..Len(c) : c[a] = planned[k]
        BY <2>11
      <4>2. CASE k <= Len(visited')
        <5>1. a = t \/ Before(back, a, t)
          BY <2>10, <4>1, <4>2
        <5>2. Before(back, a, u)
          BY <5>1, <2>1 DEF Before, After
        <5>3. Precedes(c, back, planned[k], c[u])
          BY <2>13, <4>1, <5>2 DEF Precedes
        <5>. QED
          BY <2>1, <2>8, <4>2, <5>3 DEF DueNow
      <4>3. CASE ~(k <= Len(visited'))
        <5>1. Before(back, t, a)
          BY <2>10, <4>1, <4>3
        <5>2. u = a \/ Before(back, u, a)
          BY <5>1, <2>1 DEF Before, After
        <5>3. planned[k] = c[u] \/ Precedes(c, back, c[u], planned[k])
          BY <2>13, <4>1, <5>2 DEF Precedes
        <5>. QED
          BY <2>1, <2>8, <4>3, <5>3 DEF DueNow
      <4>. QED
        BY <4>2, <4>3
    <3>3. Occurs(c, c[u])
      BY <2>13 DEF Occurs
    <3>. HIDE DEF u
    <3>4. DueNow(c, back, planned, Len(visited'), c[u])
      BY <3>2, <3>3 DEF DueNow
    <3>. QED
      BY <1>1, <1>2, <1>6, <2>1, <2>9, <3>1, <3>4 DEF Iterating
  <2>. QED
    BY <2>12, <2>13
<1>. QED
  BY <1>5, <1>6

\* A list walked from either end.
Walk(c, back) == IF back THEN S!Reverse(c) ELSE c

\* The places of a list walked from either end.
LEMMA WalkFacts ==
  ASSUME NEW c \in Seq(Item), NEW back \in BOOLEAN
  PROVE  /\ Walk(c, back) \in Seq(Item) /\ Len(Walk(c, back)) = Len(c)
         /\ \A k \in 1..Len(c) : Walk(c, back)[k] = c[IF back THEN Len(c) - k + 1 ELSE k]
<1>. DEFINE r == S!Reverse(c)
<1>1. Len(c) \in Nat
  OBVIOUS
<1>2. r = [k \in 1..Len(c) |-> c[(Len(c) - k) + 1]]
  BY DEF S!Reverse
<1>3. \A k \in 1..Len(c) : c[(Len(c) - k) + 1] \in Item
  BY <1>1
<1>4. r \in Seq(Item) /\ Len(r) = Len(c) /\ \A k \in 1..Len(c) : r[k] = c[(Len(c) - k) + 1]
  BY <1>1, <1>2, <1>3
<1>. HIDE DEF r
<1>. QED
  BY <1>4 DEF Walk, r

\* A new iteration has visited the first item of its walk and fetched the second.
LEMMA BeginKeeps ==
  ASSUME Sound(pointers), Shown(pointers, contents), NEW l \in List, NEW back \in BOOLEAN,
         BeginIteration(l, back)
  PROVE  Iterating'
<1>. DEFINE c == contents[l]
            n == Len(c)
            start == IF back THEN n + 1 ELSE 0
            first == After(back, start)
            second == After(back, first)
            cur == listIterator'.current
            sub == listIterator'.subsequent
<1>1. /\ contents \in [List -> Seq(Item)] /\ c \in Seq(Item) /\ Apart(contents)
      /\ \A y \in Item : y # Null
  BY ListAssumption DEF Shown
<1>2. n \in Nat
  <2>. HIDE DEF c
  <2>. QED
    BY <1>1
<1>3. /\ listIterator' = Over(l, back, At(pointers, l, back, IF back THEN Last(pointers, l) ELSE First(pointers, l)))
      /\ planned' = Walk(c, back) /\ contents' = contents /\ visited' = Visit(cur)
  BY DEF BeginIteration, Iterator, Walk
<1>4. listIterator'.list = l /\ listIterator'.backwards = back
  BY <1>3 DEF Over
<1>5. cur = IF first \in 1..n THEN c[first] ELSE Null
  <2>1. cur = IF back THEN PreviousOf(pointers, l, l) ELSE NextOf(pointers, l, l)
    BY <1>3 DEF Over, At, Last, First, PreviousOf, NextOf
  <2>2. /\ start \in 0..(Len(contents[l]) + 1) /\ l = Spot(l, contents[l], start)
        /\ ~back => start <= Len(contents[l])
        /\ back => start >= 1
    <3>. HIDE DEF c
    <3>. QED
      BY <1>2 DEF Spot, c
  <2>. HIDE DEF start
  <2>. QED
    BY <2>1, <2>2, Fetched
<1>6. sub = IF cur = Null THEN Null
            ELSE IF back THEN PreviousOf(pointers, l, cur) ELSE NextOf(pointers, l, cur)
  BY <1>3 DEF Over, At
<1>7. /\ planned' \in Seq(Item) /\ Len(planned') = n
      /\ \A k \in 1..n : planned'[k] = c[IF back THEN n - k + 1 ELSE k]
  BY <1>1, <1>3, WalkFacts
<1>8. CASE n = 0
  <2>1. first \notin 1..n /\ planned' = <<>>
    BY <1>7, <1>8
  <2>2. cur = Null /\ sub = Null
    BY <1>5, <1>6, <2>1
  <2>3. ~S!Contains(planned', cur)
    BY <1>7, <1>8 DEF S!Contains
  <2>4. visited' = <<>>
    BY <1>3, <2>3 DEF Visit
  <2>5. Prefix(visited', planned')
    BY <2>1, <2>4 DEF Prefix
  <2>. QED
    BY <2>1, <2>2, <2>4, <2>5 DEF Iterating
<1>9. CASE n > 0
  <2>1. first \in 1..n /\ first = IF back THEN n ELSE 1
    BY <1>2, <1>9 DEF After
  <2>2. cur = c[first] /\ cur \in Item /\ cur # Null
    BY <1>1, <1>5, <2>1
  <2>3. planned'[1] = cur
    <3>1. 1 \in 1..n
      BY <1>2, <1>9
    <3>2. first = IF back THEN n - 1 + 1 ELSE 1
      BY <1>2, <2>1
    <3>. QED
      BY <1>7, <2>2, <3>1, <3>2
  <2>4. visited' = <<cur>>
    <3>1. 1 \in 1..Len(planned')
      BY <1>2, <1>7, <1>9
    <3>. QED
      BY <1>3, <2>3, <3>1 DEF Visit, S!Contains
  <2>5. visited' \in Seq(Item) /\ Len(visited') = 1 /\ visited'[1] = cur
    <3>. HIDE DEF cur
    <3>. QED
      BY <2>2, <2>4
  <2>6. Prefix(visited', planned')
    BY <1>2, <1>7, <1>9, <2>3, <2>5 DEF Prefix
  <2>7. sub = IF second \in 1..n THEN c[second] ELSE Null
    <3>1. /\ first \in 0..(Len(contents[l]) + 1) /\ cur = Spot(l, contents[l], first)
          /\ ~back => first <= Len(contents[l])
          /\ back => first >= 1
      BY <1>2, <2>1, <2>2 DEF Spot
    <3>2. sub = IF back THEN PreviousOf(pointers, l, cur) ELSE NextOf(pointers, l, cur)
      BY <1>6, <2>2
    <3>. HIDE DEF first, cur, sub
    <3>. QED
      BY <3>1, <3>2, Fetched DEF c
  <2>8. CASE second \notin 1..n
    <3>1. n = 1
      <4>1. second = IF back THEN n - 1 ELSE 2
        BY <1>2, <2>1 DEF After
      <4>. HIDE DEF n, second
      <4>. QED
        BY <1>2, <1>9, <2>8, <4>1
    <3>2. visited' = planned'
      BY <1>7, <2>5, <2>6, <3>1, WholePrefix
    <3>. QED
      BY <2>6, <2>7, <2>8, <3>2 DEF Iterating
  <2>9. CASE second \in 1..n
    <3>1. sub = c[second] /\ sub \in Item /\ sub # Null
      BY <1>1, <2>7, <2>9
    <3>. DEFINE at(k) == IF back THEN n - k + 1 ELSE k
    <3>2. \A k \in 1..n : at(k) \in 1..n /\ c[at(k)] = planned'[k]
      BY <1>2, <1>7
    <3>3. ASSUME NEW k \in 1..n
          PROVE  /\ Occurs(c, planned'[k])
                 /\ \A m \in 1..n : k < m => Precedes(c, back, planned'[k], planned'[m])
                 /\ k <= 1 => Precedes(c, back, planned'[k], sub)
                 /\ k > 1 => planned'[k] = sub \/ Precedes(c, back, sub, planned'[k])
      <4>1. at(k) \in 1..n /\ c[at(k)] = planned'[k]
        BY <3>2
      <4>2. ASSUME NEW m \in 1..n, k < m PROVE Precedes(c, back, planned'[k], planned'[m])
        <5>1. Before(back, at(k), at(m))
          BY <1>2, <4>2 DEF Before
        <5>. QED
          BY <3>2, <4>1, <5>1 DEF Precedes
      <4>3. k <= 1 => Before(back, at(k), second)
        BY <1>2, <2>1 DEF Before, After
      <4>4. k > 1 => at(k) = second \/ Before(back, second, at(k))
        BY <1>2, <2>1 DEF Before, After
      <4>5. k <= 1 => Precedes(c, back, planned'[k], sub)
        BY <2>9, <3>1, <4>1, <4>3 DEF Precedes
      <4>6. k > 1 => planned'[k] = sub \/ Precedes(c, back, sub, planned'[k])
        BY <2>9, <3>1, <4>1, <4>4 DEF Precedes
      <4>7. Occurs(c, planned'[k])
        BY <4>1 DEF Occurs
      <4>. QED
        BY <4>2, <4>5, <4>6, <4>7
    <3>4. Occurs(c, sub)
      BY <2>9, <3>1 DEF Occurs
    <3>5. DueNow(c, back, planned', Len(visited'), sub)
      BY <1>7, <2>5, <3>3, <3>4 DEF DueNow
    <3>6. DueNow(contents'[listIterator'.list], listIterator'.backwards, planned', Len(visited'), listIterator'.subsequent)
      BY <1>3, <1>4, <3>5
    <3>. QED
      BY <1>4, <2>2, <2>6, <3>1, <3>6 DEF Iterating
  <2>. QED
    BY <2>8, <2>9
<1>. QED
  BY <1>2, <1>8, <1>9

\* A splice keeps the list of an iteration that still has an item to fetch.
LEMMA SpliceKeeps ==
  ASSUME Careful, Shown(pointers, contents), Iterating, NEW list \in List, NEW source \in List,
         CallSpliceHead(list, source) \/ CallSpliceTail(list, source)
  PROVE  Iterating'
<1>1. /\ planned' = planned /\ visited' = visited /\ listIterator' = listIterator /\ list # source
      /\ source = listIterator.list => listIterator.subsequent = Null
  BY DEF CallSpliceHead, CallSpliceTail, MaySplice, iteration
<1>2. contents \in [List -> Seq(Item)] /\ contents[list] \in Seq(Item) /\ contents[source] \in Seq(Item)
  BY DEF Shown
<1>3. CASE listIterator.subsequent = Null
  BY <1>1, <1>3 DEF Iterating
<1>4. CASE listIterator.subsequent # Null
  <2>. DEFINE l == listIterator.list
  <2>1. /\ listIterator.subsequent \in Item /\ l \in List /\ listIterator.backwards \in BOOLEAN
        /\ DueNow(contents[l], listIterator.backwards, planned, Len(visited), listIterator.subsequent)
        /\ planned \in Seq(Item) /\ l # source
    BY <1>1, <1>4 DEF Iterating, Prefix
  <2>2. Kept(contents[l], contents'[l], Null)
    <3>1. CASE l # list
      <4>1. contents'[l] = contents[l]
        BY <1>2, <2>1, <3>1 DEF CallSpliceHead, CallSpliceTail, Lists!SpliceHead, Lists!SpliceTail
      <4>. QED
        BY <4>1, KeptItself
    <3>2. CASE l = list
      <4>1. contents'[l] = contents[source] \o contents[list] \/ contents'[l] = contents[list] \o contents[source]
        BY <1>1, <1>2, <3>2 DEF CallSpliceHead, CallSpliceTail, Lists!SpliceHead, Lists!SpliceTail
      <4>2. /\ Longer(contents[source] \o contents[list], contents[list], 0, contents[source])
            /\ Longer(contents[list] \o contents[source], contents[list], Len(contents[list]), contents[source])
        BY <1>2, Concatenated
      <4>3. 0 \in 0..Len(contents[list]) /\ Len(contents[list]) \in 0..Len(contents[list])
        BY <1>2
      <4>. QED
        BY <1>2, <3>2, <4>1, <4>2, <4>3, KeptByLonger
    <3>. QED
      BY <3>1, <3>2
  <2>3. \A k \in 1..Len(planned) : planned[k] # Null
    BY <2>1, ListAssumption
  <2>4. DueNow(contents'[l], listIterator.backwards, planned, Len(visited), listIterator.subsequent)
    BY <1>4, <2>1, <2>2, <2>3, DueKept
  <2>. QED
    BY <1>1, <1>4, <2>1, <2>4 DEF Iterating
<1>. QED
  BY <1>3, <1>4

\* The lists without an item keep the others, and so do the lists it enters.
LEMMA DroppingKeeps ==
  ASSUME Shown(pointers, contents), NEW item \in Item
  PROVE  /\ contents' = Dropped(contents, item) => \A l \in List : Kept(contents[l], contents'[l], item)
         /\ Adds(item) => \A l \in List : Kept(contents[l], contents'[l], item)
<1>. DEFINE rest == Dropped(contents, item)
<1>1. contents \in [List -> Seq(Item)] /\ \A l \in List : contents[l] \in Seq(Item)
  BY DEF Shown
<1>2. rest \in [List -> Seq(Item)] /\ \A l \in List : Kept(contents[l], rest[l], item)
  BY <1>1, KeptByDropping DEF Dropped
<1>. HIDE DEF rest
<1>3. ASSUME Adds(item), NEW l \in List PROVE Kept(contents[l], contents'[l], item)
  <2>1. PICK h \in List : \E k \in 0..Len(rest[h]) : \E d :
          Longer(d, rest[h], k, <<item>>) /\ contents' = [rest EXCEPT ![h] = d]
    BY <1>3 DEF Adds, rest
  <2>2. PICK k \in 0..Len(rest[h]) : \E d :
          Longer(d, rest[h], k, <<item>>) /\ contents' = [rest EXCEPT ![h] = d]
    BY <2>1
  <2>3. PICK d : Longer(d, rest[h], k, <<item>>) /\ contents' = [rest EXCEPT ![h] = d]
    BY <2>2
  <2>4. rest[h] \in Seq(Item) /\ <<item>> \in Seq(Item)
    BY <1>2
  <2>5. CASE l = h
    <3>1. contents'[l] = d
      BY <1>2, <2>3, <2>5
    <3>2. Kept(rest[h], d, item)
      BY <2>3, <2>4, KeptByLonger
    <3>. QED
      BY <1>2, <2>5, <3>1, <3>2, KeptTwice
  <2>6. CASE l # h
    <3>1. contents'[l] = rest[l]
      BY <1>2, <2>3, <2>6
    <3>. QED
      BY <1>2, <3>1
  <2>. QED
    BY <2>5, <2>6
<1>. QED
  BY <1>2, <1>3 DEF rest

\* Iterating is inductive: no careful call disturbs what an iteration has to come.
LEMMA IteratingAlways == Careful => (ListSpec => []Iterating)
<1>. SUFFICES ASSUME Careful PROVE ListSpec => []Iterating
  OBVIOUS
<1>1. ListInit => Iterating
  <2>. SUFFICES ASSUME ListInit PROVE Iterating
    OBVIOUS
  <2>1. listIterator.current = Null /\ listIterator.subsequent = Null /\ visited = <<>> /\ planned = <<>>
    BY DEF ListInit, NoIterator
  <2>2. Prefix(visited, planned)
    BY <2>1 DEF Prefix
  <2>. QED
    BY <2>1, <2>2 DEF Iterating
<1>2. Sound(pointers) /\ Shown(pointers, contents) /\ Iterating /\ [ListNext]_listVars => Iterating'
  <2>. SUFFICES ASSUME Sound(pointers), Shown(pointers, contents), Iterating, [ListNext]_listVars
                PROVE  Iterating'
    OBVIOUS
  <2>1. ASSUME NEW item \in Item, NEW existing \in Item,
               CallAddBefore(item, existing) \/ CallAddAfter(item, existing)
        PROVE  Iterating'
    <3>1. Moves(item) /\ Adds(item)
      BY <2>1, AddingShown DEF CallAddBefore, CallAddAfter
    <3>. QED
      BY <3>1, DroppingKeeps, MovesKeeps
  <2>2. ASSUME NEW list \in List, NEW item \in Item, CallAddHead(list, item) \/ CallAddTail(list, item)
        PROVE  Iterating'
    <3>1. Moves(item) /\ Adds(item)
      BY <2>2, AddingShown DEF CallAddHead, CallAddTail
    <3>. QED
      BY <3>1, DroppingKeeps, MovesKeeps
  <2>3. ASSUME NEW item \in Item, CallRemove(item)
        PROVE  Iterating'
    <3>1. Moves(item) /\ contents' = Dropped(contents, item)
      BY <2>3, SameWithout DEF CallRemove, Lists!Remove
    <3>. QED
      BY <3>1, DroppingKeeps, MovesKeeps
  <2>4. ASSUME NEW list \in List, NEW source \in List,
               CallSpliceHead(list, source) \/ CallSpliceTail(list, source)
        PROVE  Iterating'
    BY <2>4, SpliceKeeps
  <2>5. ASSUME NEW list \in List, NEW backwards \in BOOLEAN, BeginIteration(list, backwards)
        PROVE  Iterating'
    BY <2>5, BeginKeeps
  <2>6. CASE Advance
    BY <2>6, AdvanceKeeps
  <2>7. CASE UNCHANGED listVars
    <3>1. contents' = contents /\ listIterator' = listIterator /\ planned' = planned /\ visited' = visited
      BY <2>7 DEF listVars
    <3>. QED
      BY <3>1 DEF Iterating
  <2>. QED
    BY <2>1, <2>2, <2>3, <2>4, <2>5, <2>6, <2>7 DEF ListNext
<1>3. ListSpec => []Sound(pointers) /\ []Shown(pointers, contents)
  BY SoundAlways, ShownAlways
<1>. QED
  BY <1>1, <1>2, <1>3, PTL DEF ListSpec

\* However many items and lists there are: an iteration that has ended visited,
\* once each and in order, the items that stayed in the list, although others
\* were added, moved, removed and spliced around them meanwhile, the current
\* item among them.
THEOREM IterationsComplete == Careful => (ListSpec => []IterationComplete)
<1>1. Iterating => IterationComplete
  BY DEF Iterating, IterationComplete
<1>. QED
  BY <1>1, IteratingAlways, PTL
=============================================================================

------------------------- MODULE DispatchLoopProofs -------------------------
(***************************************************************************)
(* For every finite set of actors, and whatever applications do that       *)
(* respect the rules of DispatchLoop: the loops of run() stay in their     *)
(* lists, no actor with work to do is left out of them, epoll_wait is told *)
(* to wake in time, and every message is handled once, after those before  *)
(* it.                                                                     *)
(***************************************************************************)
EXTENDS DispatchLoop, ListProofs, FiniteSetTheorems

\* A list with every item at most once is shorter than the number of nodes.
LEMMA ShorterThanNodes ==
  ASSUME NEW cts, cts \in [List -> Seq(Item)], Apart(cts), NEW l \in List
  PROVE  Cardinality(Node) \in Nat /\ Len(cts[l]) + 1 <= Cardinality(Node)
<1>. DEFINE c == cts[l]
            n == Len(c)
            places == 1..n
<1>1. c \in Seq(Item) /\ n \in Nat /\ c \in [places -> Item]
  OBVIOUS
<1>2. \A j, k \in places : c[j] = c[k] => j = k
  BY DEF Apart
<1>. HIDE DEF c
<1>3. c \in Injection(places, Item)
  BY <1>1, <1>2 DEF Injection, IsInjective
<1>4. IsFiniteSet(Item) /\ IsFiniteSet(places) /\ Cardinality(places) <= Cardinality(Item)
  BY <1>3, ActorsAssumption, FS_Injection DEF Actor
<1>5. Cardinality(places) = n
  <2>1. n \in Int /\ 1 \in Int
    BY <1>1
  <2>2. Cardinality(1..n) = IF 1 > n THEN 0 ELSE n - 1 + 1
    BY <2>1, FS_Interval
  <2>. QED
    BY <1>1, <2>2
<1>6. IsFiniteSet(List)
  <2>1. IsFiniteSet({"mActiveActors"} \cup {"mWaitingActors"} \cup {"mPassiveActors"} \cup {"actors"})
    <3>1. \A x : IsFiniteSet({x})
      BY FS_Singleton
    <3>. QED
      BY <3>1, FS_Union
  <2>2. List = {"mActiveActors"} \cup {"mWaitingActors"} \cup {"mPassiveActors"} \cup {"actors"}
    BY ActorsAssumption DEF ActorList
  <2>. QED
    BY <2>1, <2>2
<1>7. IsFiniteSet(Node)
  BY <1>4, <1>6, FS_Union DEF Node
<1>8. Cardinality(Item \cup {l}) = Cardinality(Item) + 1
  BY <1>4, ListAssumption, FS_AddElement
<1>9. Cardinality(Item \cup {l}) <= Cardinality(Node)
  BY <1>7, FS_Subset DEF Node
<1>10. Cardinality(Node) \in Nat /\ Cardinality(Item) \in Nat
  BY <1>4, <1>7, FS_CardinalityType
<1>. QED
  BY <1>1, <1>4, <1>5, <1>8, <1>9, <1>10 DEF c

\* A loop over a list meets its items, and ends at the list's sentinel.
LEMMA TrailIs ==
  ASSUME NEW ls \in Links, NEW cts, Shown(ls, cts), NEW l \in List
  PROVE  Trail(ls, l) = [items |-> cts[l], end |-> l]
<1>. DEFINE N == Cardinality(Node)
            c == cts[l]
            reached == CHOOSE f : f = [k \in 0..N |-> IF k = 0 THEN l ELSE ls.next[f[k - 1]]]
            ends == {k \in 1..N : reached[k] \in ActorList}
            length == IF ends = {} THEN N ELSE F!Min(ends) - 1
<1>1. /\ cts \in [List -> Seq(Item)] /\ Apart(cts) /\ Ring(ls, l, c)
      /\ c \in Seq(Item) /\ Len(c) \in Nat /\ l \in Node
  BY DEF Shown, Node
<1>2. N \in Nat /\ Len(c) + 1 <= N
  BY <1>1, ShorterThanNodes
<1>. HIDE DEF N
<1>3. reached = [k \in 0..N |-> IF k = 0 THEN l ELSE ls.next[reached[k - 1]]]
  <2>. DEFINE step == [k \in 1..N |-> [n \in Node |-> ls.next[n]]]
  <2>1. step \in [1..N -> [Node -> Node]]
    BY Pointers
  <2>2. \A k \in 1..N : \A n \in Node : step[k][n] = ls.next[n]
    OBVIOUS
  <2>. HIDE DEF step
  <2>3. PICK f \in [0..N -> Node] : Repeats(f, N, l, step)
    <3>1. N \in Nat /\ l \in Node
      BY <1>1, <1>2
    <3>. QED
      BY <2>1, <3>1, Repeated
  <2>4. ASSUME NEW k \in 0..N PROVE f[k] = IF k = 0 THEN l ELSE ls.next[f[k - 1]]
    <3>1. CASE k = 0
      BY <2>3, <3>1 DEF Repeats
    <3>2. CASE k # 0
      <4>1. k \in 1..N /\ k - 1 \in 0..N
        BY <1>2, <3>2
      <4>. QED
        BY <2>2, <2>3, <3>2, <4>1 DEF Repeats
    <3>. QED
      BY <3>1, <3>2
  <2>5. f = [k \in 0..N |-> IF k = 0 THEN l ELSE ls.next[f[k - 1]]]
    BY <2>3, <2>4
  <2>. QED
    BY <2>5
<1>. HIDE DEF reached
<1>4. \A k \in 0..(Len(c) + 1) : reached[k] = Spot(l, c, k)
  <2>. DEFINE T == {k \in Nat : reached[k] = Spot(l, c, k)}
  <2>1. reached[0] = l /\ Spot(l, c, 0) = l
    BY <1>2, <1>3 DEF Spot
  <2>2. ASSUME NEW k \in Nat, k < Len(c) + 1, k \in T PROVE k + 1 \in T
    <3>1. k + 1 \in 0..N /\ (k + 1) - 1 = k /\ k + 1 # 0 /\ k \in 0..Len(c)
      BY <1>1, <1>2, <2>2
    <3>2. reached[k + 1] = ls.next[reached[k]]
      BY <1>3, <3>1
    <3>3. ls.next[Spot(l, c, k)] = Spot(l, c, k + 1)
      BY <1>1, <3>1 DEF Ring
    <3>. QED
      BY <2>2, <3>2, <3>3
  <2>3. 0 \in T
    BY <2>1
  <2>4. Len(c) + 1 \in Nat
    BY <1>1
  <2>5. \A k \in 0..(Len(c) + 1) : k \in T
    <3>. HIDE DEF T
    <3>. QED
      BY <2>2, <2>3, <2>4, AllUpTo
  <2>. QED
    BY <2>5
<1>5. reached[Len(c) + 1] = l /\ \A k \in 1..Len(c) : reached[k] = c[k] /\ c[k] \in Item
  BY <1>1, <1>4 DEF Spot
<1>6. l \in ActorList /\ \A k \in 1..Len(c) : reached[k] \notin ActorList
  BY <1>5, ActorsAssumption, ListAssumption
<1>7. Len(c) + 1 \in ends /\ \A k \in ends : Len(c) + 1 <= k
  BY <1>1, <1>2, <1>5, <1>6
<1>8. F!Min(ends) = Len(c) + 1
  <2>1. \A x \in ends : (\A y \in ends : x <= y) => x = Len(c) + 1
    BY <1>1, <1>7
  <2>. HIDE DEF ends
  <2>. QED
    BY <1>7, <2>1 DEF F!Min
<1>9. length = Len(c) /\ ends # {}
  BY <1>1, <1>7, <1>8
<1>10. Trail(ls, l) = [items |-> [k \in 1..length |-> reached[k]],
                       end |-> IF ends = {} THEN Null ELSE reached[length + 1]]
  BY DEF Trail, reached, N
<1>. HIDE DEF ends, length
<1>11. [k \in 1..length |-> reached[k]] = c
  BY <1>1, <1>5, <1>9
<1>. QED
  BY <1>5, <1>9, <1>10, <1>11

Contents(ls) == [l \in List |-> Trail(ls, l).items]

\* What is shown is what the trails meet.
LEMMA ContentsAre ==
  ASSUME NEW ls \in Links, NEW cts, Shown(ls, cts)
  PROVE  Contents(ls) = cts
<1>1. cts \in [List -> Seq(Item)]
  BY DEF Shown
<1>2. \A l \in List : Trail(ls, l).items = cts[l]
  BY TrailIs
<1>. QED
  BY <1>1, <1>2 DEF Contents

-----------------------------------------------------------------------------
(* The lists of actors at one moment *)

Has(c, x) == \E k \in 1..Len(c) : c[k] = x

Nth(c, k) == IF k \in 1..Len(c) THEN c[k] ELSE Null

\* An iterator at the first of the items of a list.
FirstTwo(c) == [current |-> Nth(c, 1), subsequent |-> Nth(c, 2)]

ScheduledIn(ls, a) ==
  Has(Contents(ls)["mActiveActors"], a) \/ Has(Contents(ls)["actors"], a)

Waiting(ls) == Contents(ls)["mWaitingActors"]

Ordered(w, times) ==
  \A j, k \in 1..Len(w) : j < k => times[w[j]] <= times[w[k]]

\* The lists as the loops need them.  times holds the time of the first timeout
\* of every actor, 0 for none; spared may wait without a timeout.
Fit(ls, active, times, spared) ==
  /\ Sound(ls) /\ Shown(ls, Contents(ls))
  /\ active \in [Actor -> BOOLEAN]
  /\ \A a \in Actor : active[a] <=> ScheduledIn(ls, a)
  /\ \A a \in Actor : times[a] # 0 => active[a] \/ Has(Waiting(ls), a)
  /\ \A k \in 1..Len(Waiting(ls)) : times[Waiting(ls)[k]] # 0 \/ Waiting(ls)[k] = spared
  /\ Ordered(Waiting(ls), times)

\* A trail's members.
LEMMA MembersAre ==
  ASSUME NEW ls \in Links, Shown(ls, Contents(ls)), NEW l \in List
  PROVE  Members(ls, l) = {Contents(ls)[l][k] : k \in 1..Len(Contents(ls)[l])}
<1>1. Trail(ls, l).items = Contents(ls)[l]
  BY DEF Contents
<1>2. Contents(ls)[l] \in Seq(Item)
  BY DEF Shown
<1>. QED
  BY <1>1, <1>2 DEF Members, S!ToSet

\* An iterator that is at the first item, or past the end of an empty list.
LEMMA AtFirst ==
  ASSUME NEW ls \in Links, NEW cts, Shown(ls, cts), NEW l \in List
  PROVE  /\ Iterator(ls, l, FALSE) = FirstTwo(cts[l])
         /\ At(ls, l, FALSE, Nth(cts[l], 1)) = FirstTwo(cts[l])
         /\ FirstTwo(cts[l]).current \in Item \cup {Null}
<1>. DEFINE c == cts[l]
<1>1. c \in Seq(Item) /\ Len(c) \in Nat /\ Ring(ls, l, c)
  BY DEF Shown
<1>2. \A k \in 1..Len(c) : c[k] \in Item /\ c[k] # l /\ c[k] # Null
  BY <1>1, ListAssumption
<1>. HIDE DEF c
<1>3. ls.next[l] = Spot(l, c, 1)
  BY <1>1 DEF Ring, Spot
<1>4. First(ls, l) = Nth(c, 1)
  BY <1>1, <1>2, <1>3 DEF First, NullAt, Spot, Nth
<1>5. ASSUME 1 \in 1..Len(c) PROVE NextOf(ls, l, c[1]) = Nth(c, 2)
  <2>1. ls.next[c[1]] = Spot(l, c, 2)
    BY <1>1, <1>5 DEF Ring, Spot
  <2>. QED
    BY <1>1, <1>2, <2>1 DEF NextOf, NullAt, Spot, Nth
<1>6. At(ls, l, FALSE, Nth(c, 1)) = FirstTwo(c)
  <2>1. CASE 1 \in 1..Len(c)
    BY <1>2, <1>5, <2>1 DEF At, FirstTwo, Nth
  <2>2. CASE ~(1 \in 1..Len(c))
    <3>1. ~(2 \in 1..Len(c))
      BY <1>1, <2>2
    <3>. QED
      BY <2>2, <3>1 DEF At, FirstTwo, Nth
  <2>. QED
    BY <2>1, <2>2
<1>7. Iterator(ls, l, FALSE) = FirstTwo(c)
  BY <1>4, <1>6 DEF Iterator
<1>. QED
  BY <1>2, <1>6, <1>7 DEF FirstTwo, Nth, c

\* What a list without an item still holds, and in which order.
LEMMA WithoutHas ==
  ASSUME NEW c \in Seq(Item), NEW x \in Item,
         \A j, k \in 1..Len(c) : c[j] = c[k] => j = k
  PROVE  LET d == Without(c, x)
         IN  /\ d \in Seq(Item)
             /\ \A y : y # x => (Has(d, y) <=> Has(c, y))
             /\ ~Has(d, x)
             /\ \A j, k \in 1..Len(d) : j < k =>
                  \E m, n \in 1..Len(c) : m < n /\ d[j] = c[m] /\ d[k] = c[n]
             /\ ~Has(c, x) => d = c
<1>. DEFINE d == Without(c, x)
<1>1. CASE ~Has(c, x)
  <2>1. d = c
    BY <1>1, DroppedIs DEF Has
  <2>. QED
    BY <1>1, <2>1 DEF Has
<1>2. CASE Has(c, x)
  <2>1. PICK i \in 1..Len(c) : c[i] = x /\ Shorter(d, c, i)
    BY <1>2, DroppedIs DEF Has
  <2>. HIDE DEF d
  <2>. DEFINE at(k) == IF k < i THEN k ELSE k + 1
  <2>2. /\ d \in Seq(Item) /\ Len(d) = Len(c) - 1 /\ Len(c) \in Nat /\ Len(d) \in Nat
        /\ \A k \in 1..Len(d) : d[k] = c[at(k)]
    BY <2>1 DEF Shorter
  <2>3. \A k \in 1..Len(d) : at(k) \in 1..Len(c) /\ at(k) # i
    BY <2>2
  <2>4. \A j, k \in 1..Len(d) : j < k => at(j) < at(k)
    BY <2>2
  <2>5. ASSUME NEW m \in 1..Len(c), m # i PROVE \E k \in 1..Len(d) : at(k) = m
    <3>1. CASE m < i
      BY <2>1, <2>2, <3>1
    <3>2. CASE m > i
      <4>1. m - 1 \in 1..Len(d) /\ at(m - 1) = m
        BY <2>1, <2>2, <3>2
      <4>. QED
        BY <4>1
    <3>. QED
      BY <2>5, <3>1, <3>2
  <2>. HIDE DEF at
  <2>6. ASSUME NEW y, y # x PROVE Has(d, y) <=> Has(c, y)
    <3>1. ASSUME Has(c, y) PROVE Has(d, y)
      <4>1. PICK m \in 1..Len(c) : c[m] = y
        BY <3>1 DEF Has
      <4>2. m # i
        BY <2>1, <2>6, <4>1
      <4>. QED
        BY <2>2, <2>5, <4>1, <4>2 DEF Has
    <3>. QED
      BY <2>2, <2>3, <3>1 DEF Has
  <2>7. ~Has(d, x)
    BY <2>1, <2>2, <2>3 DEF Has
  <2>8. \A j, k \in 1..Len(d) : j < k =>
          \E m, n \in 1..Len(c) : m < n /\ d[j] = c[m] /\ d[k] = c[n]
    BY <2>2, <2>3, <2>4
  <2>. QED
    BY <1>2, <2>2, <2>6, <2>7, <2>8 DEF d
<1>. QED
  BY <1>1, <1>2

\* No actor is twice in the lists, and what each holds is an actor.
LEMMA ContentsFacts ==
  ASSUME NEW ls, Shown(ls, Contents(ls)), NEW l \in List
  PROVE  /\ Contents(ls)[l] \in Seq(Item)
         /\ \A j, k \in 1..Len(Contents(ls)[l]) : Contents(ls)[l][j] = Contents(ls)[l][k] => j = k
         /\ \A h \in List : \A x : Has(Contents(ls)[l], x) /\ Has(Contents(ls)[h], x) => l = h
BY DEF Shown, Apart, Has

LEMMA ContentsWithout ==
  ASSUME NEW ls, Shown(ls, Contents(ls)), NEW l \in List, NEW x \in Item,
         NEW d, d = Without(Contents(ls)[l], x)
  PROVE  /\ d \in Seq(Item) /\ ~Has(d, x)
         /\ \A y : y # x => (Has(d, y) <=> Has(Contents(ls)[l], y))
<1>. DEFINE c == Contents(ls)[l]
<1>1. c \in Seq(Item) /\ \A j, k \in 1..Len(c) : c[j] = c[k] => j = k
  BY ContentsFacts
<1>. HIDE DEF c
<1>2. d = Without(c, x)
  BY DEF c
<1>3. /\ d \in Seq(Item) /\ ~Has(d, x)
      /\ \A y : y # x => (Has(d, y) <=> Has(c, y))
  BY <1>1, <1>2, WithoutHas
<1>. QED
  BY <1>3 DEF c

LEMMA ListNames ==
  /\ "mActiveActors" \in List /\ "mWaitingActors" \in List
  /\ "mPassiveActors" \in List /\ "actors" \in List
BY ActorsAssumption DEF ActorList

\* Moving an actor to the end of a list, as what the lists show.
LEMMA Appended ==
  ASSUME NEW ls, Sound(ls), Shown(ls, Contents(ls)), NEW a \in Actor, NEW l \in List,
         ~Has(Contents(ls)[l], a)
  PROVE  LET r == AddTail(ls, l, a)
         IN  /\ Sound(r) /\ Shown(r, Contents(r))
             /\ Contents(r)[l] = Append(Contents(ls)[l], a)
             /\ \A h \in List : h # l => Contents(r)[h] = Without(Contents(ls)[h], a)
<1>. DEFINE cts == Contents(ls)
            r == AddTail(ls, l, a)
            new == [Dropped(cts, a) EXCEPT ![l] = Append(cts[l], a)]
<1>1. Sound(r) /\ Shown(r, new)
  BY TailShown DEF Actor, Has
<1>2. r \in Links
  BY <1>1 DEF Sound
<1>. HIDE DEF r
<1>3. Contents(r) = new
  BY <1>1, <1>2, ContentsAre
<1>4. new[l] = Append(cts[l], a) /\ \A h \in List : h # l => new[h] = Without(cts[h], a)
  BY DEF Dropped
<1>. QED
  BY <1>1, <1>3, <1>4 DEF r

LEMMA AppendHas ==
  ASSUME NEW c \in Seq(Item), NEW x \in Item
  PROVE  \A y : Has(Append(c, x), y) <=> Has(c, y) \/ y = x
<1>1. /\ Len(Append(c, x)) = Len(c) + 1 /\ Len(c) \in Nat
      /\ \A k \in 1..Len(c) : Append(c, x)[k] = c[k]
      /\ Append(c, x)[Len(c) + 1] = x
  OBVIOUS
<1>2. \A k : k \in 1..(Len(c) + 1) <=> k \in 1..Len(c) \/ k = Len(c) + 1
  BY <1>1
<1>. QED
  BY <1>1, <1>2 DEF Has

\* The first two stay when another item leaves.
LEMMA FirstTwoStay ==
  ASSUME NEW c \in Seq(Item), NEW x \in Item, x # Nth(c, 1), x # Nth(c, 2)
  PROVE  FirstTwo(Without(c, x)) = FirstTwo(c)
<1>. DEFINE d == Without(c, x)
<1>1. CASE ~Has(c, x)
  BY <1>1, DroppedIs DEF Has
<1>2. CASE Has(c, x)
  <2>1. PICK i \in 1..Len(c) : c[i] = x /\ Shorter(d, c, i)
    BY <1>2, DroppedIs DEF Has
  <2>. HIDE DEF d
  <2>2. i # 1 /\ i # 2
    BY <2>1 DEF Nth
  <2>3. /\ Len(d) = Len(c) - 1 /\ Len(c) \in Nat /\ i \in 3..Len(c)
        /\ \A k \in 1..Len(d) : d[k] = c[IF k < i THEN k ELSE k + 1]
    BY <2>1, <2>2 DEF Shorter
  <2>4. 1 \in 1..Len(d) /\ 2 \in 1..Len(d) /\ 1 \in 1..Len(c) /\ 2 \in 1..Len(c)
    BY <2>3
  <2>5. d[1] = c[1] /\ d[2] = c[2]
    BY <2>3, <2>4
  <2>. QED
    BY <2>4, <2>5 DEF FirstTwo, Nth, d
<1>. QED
  BY <1>1, <1>2

\* The second becomes the first when the first leaves.
LEMMA SecondIsFirst ==
  ASSUME NEW c \in Seq(Item), 1 \in 1..Len(c),
         \A j, k \in 1..Len(c) : c[j] = c[k] => j = k
  PROVE  Nth(Without(c, c[1]), 1) = Nth(c, 2)
<1>. DEFINE d == Without(c, c[1])
<1>1. Shorter(d, c, 1)
  BY WithoutIs
<1>. HIDE DEF d
<1>2. /\ Len(d) = Len(c) - 1 /\ Len(c) \in Nat
      /\ \A k \in 1..Len(d) : d[k] = c[k + 1]
  BY <1>1 DEF Shorter
<1>3. 1 \in 1..Len(d) <=> 2 \in 1..Len(c)
  BY <1>2
<1>. QED
  BY <1>2, <1>3 DEF Nth, d

\* Times of what waits stay in order when some item leaves.
LEMMA StillOrdered ==
  ASSUME NEW c \in Seq(Item), NEW x \in Item, NEW times \in [Actor -> Nat],
         \A j, k \in 1..Len(c) : c[j] = c[k] => j = k,
         Ordered(c, times)
  PROVE  Ordered(Without(c, x), times)
<1>1. \A j, k \in 1..Len(Without(c, x)) : j < k =>
         \E m, n \in 1..Len(c) : m < n /\ Without(c, x)[j] = c[m] /\ Without(c, x)[k] = c[n]
  BY WithoutHas
<1>2. ASSUME NEW j \in 1..Len(Without(c, x)), NEW k \in 1..Len(Without(c, x)), j < k
      PROVE  times[Without(c, x)[j]] <= times[Without(c, x)[k]]
  <2>1. PICK m, n \in 1..Len(c) : m < n /\ Without(c, x)[j] = c[m] /\ Without(c, x)[k] = c[n]
    BY <1>1, <1>2
  <2>2. times[c[m]] <= times[c[n]]
    BY <2>1 DEF Ordered
  <2>. QED
    BY <2>1, <2>2
<1>. QED
  BY <1>2 DEF Ordered

\* An actor that becomes active leaves the waiting or the passive actors.
LEMMA Activates ==
  ASSUME NEW ls, NEW active, NEW times \in [Actor -> Nat], NEW spared,
         Fit(ls, active, times, spared), NEW a \in Actor,
         NEW st, st = Activated([links |-> ls, active |-> active], a)
  PROVE  /\ Fit(st.links, st.active, times, spared)
         /\ \A b \in Actor : st.active[b] <=> active[b] \/ b = a
         /\ Contents(st.links)["actors"] = Contents(ls)["actors"]
         /\ active[a] \/ (a # Nth(Waiting(ls), 1) /\ a # Nth(Waiting(ls), 2)) =>
              FirstTwo(Waiting(st.links)) = FirstTwo(Waiting(ls))
<1>1. /\ Sound(ls) /\ Shown(ls, Contents(ls)) /\ active \in [Actor -> BOOLEAN]
      /\ \A b \in Actor : active[b] <=> ScheduledIn(ls, b)
  BY DEF Fit
<1>2. CASE active[a]
  <2>1. st = [links |-> ls, active |-> active]
    BY <1>2 DEF Activated
  <2>. QED
    BY <1>2, <2>1
<1>3. CASE ~active[a]
  <2>. DEFINE r == AddTail(ls, "mActiveActors", a)
              acted == [active EXCEPT ![a] = TRUE]
              C == Contents(ls)
              D == Contents(r)
  <2>1. st.links = r /\ st.active = acted
    BY <1>3 DEF Activated
  <2>2. ~Has(C["mActiveActors"], a) /\ ~Has(C["actors"], a)
    BY <1>1, <1>3 DEF ScheduledIn
  <2>3. /\ Sound(r) /\ Shown(r, D)
        /\ D["mActiveActors"] = Append(C["mActiveActors"], a)
        /\ D["actors"] = Without(C["actors"], a)
        /\ D["mWaitingActors"] = Without(C["mWaitingActors"], a)
    BY <1>1, <2>2, Appended, ListNames
  <2>. HIDE DEF r
  <2>4. /\ C["actors"] \in Seq(Item) /\ C["mActiveActors"] \in Seq(Item)
        /\ C["mWaitingActors"] \in Seq(Item)
        /\ \A j, k \in 1..Len(C["mWaitingActors"]) :
             C["mWaitingActors"][j] = C["mWaitingActors"][k] => j = k
    BY <1>1, ListNames, ContentsFacts
  <2>. HIDE DEF C, D
  <2>5. D["actors"] = C["actors"]
    BY <2>2, <2>3, <2>4, DroppedIs, ZenonT(60) DEF Has, Actor
  <2>6. \A b \in Actor : acted[b] <=> active[b] \/ b = a
    BY <1>1
  <2>7. \A b \in Actor : acted[b] <=> ScheduledIn(r, b)
    <3>1. \A b : Has(D["mActiveActors"], b) <=> Has(C["mActiveActors"], b) \/ b = a
      BY <2>3, <2>4, AppendHas DEF Actor
    <3>2. \A b : ScheduledIn(r, b) <=> ScheduledIn(ls, b) \/ b = a
      BY <2>5, <3>1 DEF ScheduledIn, C, D
    <3>. QED
      BY <1>1, <2>6, <3>2
  <2>. DEFINE w == C["mWaitingActors"]
              v == D["mWaitingActors"]
  <2>8. /\ \A y \in Item : y # a => (Has(v, y) <=> Has(w, y))
        /\ ~Has(v, a) /\ v \in Seq(Item) /\ Ordered(v, times)
    <3>1. Ordered(w, times)
      BY DEF Fit, Waiting, C
    <3>2. a \in Item /\ w \in Seq(Item) /\ v = Without(w, a) /\ times \in [Actor -> Nat]
          /\ \A j, k \in 1..Len(w) : w[j] = w[k] => j = k
      BY <2>3, <2>4 DEF Actor
    <3>. HIDE DEF w, v
    <3>3. Ordered(v, times)
      BY <3>1, <3>2, StillOrdered
    <3>. QED
      BY <3>2, <3>3, WithoutHas
  <2>9. \A b \in Actor : times[b] # 0 => acted[b] \/ Has(v, b)
    <3>1. \A b \in Actor : times[b] # 0 => active[b] \/ Has(w, b)
      BY DEF Fit, Waiting, C
    <3>. QED
      BY <2>6, <2>8, <3>1 DEF Actor
  <2>10. \A k \in 1..Len(v) : times[v[k]] # 0 \/ v[k] = spared
    <3>1. \A k \in 1..Len(w) : times[w[k]] # 0 \/ w[k] = spared
      BY DEF Fit, Waiting, C
    <3>2. \A k \in 1..Len(v) : v[k] \in Item /\ Has(v, v[k]) /\ v[k] # a
      BY <2>8 DEF Has
    <3>3. \A k \in 1..Len(v) : Has(w, v[k])
      BY <2>8, <3>2
    <3>. QED
      BY <3>1, <3>3 DEF Has
  <2>11. Fit(r, acted, times, spared)
    BY <1>1, <2>3, <2>7, <2>8, <2>9, <2>10 DEF Fit, Waiting, D
  <2>12. a # Nth(w, 1) /\ a # Nth(w, 2) => FirstTwo(v) = FirstTwo(w)
    BY <2>3, <2>4, FirstTwoStay DEF Actor
  <2>. QED
    BY <1>3, <2>1, <2>5, <2>6, <2>11, <2>12 DEF Waiting, C, D
<1>. QED
  BY <1>2, <1>3

\* The active actors become this cycle's.
LEMMA Takes ==
  ASSUME NEW ls, NEW active, NEW times \in [Actor -> Nat], NEW spared,
         Fit(ls, active, times, spared), Contents(ls)["actors"] = <<>>,
         NEW r, r = SpliceTail(ls, "actors", "mActiveActors")
  PROVE  /\ Fit(r, active, times, spared)
         /\ Contents(r)["mActiveActors"] = <<>>
         /\ Waiting(r) = Waiting(ls)
<1>. DEFINE C == Contents(ls)
            new == [C EXCEPT !["actors"] = C["mActiveActors"], !["mActiveActors"] = <<>>]
<1>1. Sound(ls) /\ Shown(ls, C) /\ "actors" # "mActiveActors"
  BY DEF Fit
<1>. HIDE DEF C
<1>2. Sound(r) /\ Shown(r, new)
  BY <1>1, ListNames, SplicedShown DEF C
<1>3. Contents(r) = new
  BY <1>2, ContentsAre DEF Sound
<1>4. C \in [List -> Seq(Item)]
  BY <1>1 DEF Shown
<1>5. /\ new["actors"] = C["mActiveActors"] /\ new["mActiveActors"] = <<>>
      /\ new["mWaitingActors"] = C["mWaitingActors"]
  BY <1>4, ListNames
<1>. HIDE DEF new
<1>6. \A b : ScheduledIn(r, b) <=> ScheduledIn(ls, b)
  <2>1. \A b : ~Has(<<>>, b)
    BY DEF Has
  <2>. QED
    BY <1>3, <1>5, <2>1 DEF ScheduledIn, C
<1>7. Waiting(r) = Waiting(ls)
  BY <1>3, <1>5 DEF Waiting, C
<1>. QED
  BY <1>2, <1>3, <1>5, <1>6, <1>7 DEF Fit

\* An actor of this cycle is put back among the active ones.
LEMMA Requeues ==
  ASSUME NEW ls, NEW active, NEW times \in [Actor -> Nat], NEW spared,
         Fit(ls, active, times, spared), NEW a \in Actor, Has(Contents(ls)["actors"], a),
         NEW r, r = AddTail(ls, "mActiveActors", a)
  PROVE  /\ Fit(r, active, times, spared)
         /\ Contents(r)["actors"] = Without(Contents(ls)["actors"], a)
<1>. DEFINE C == Contents(ls)
            D == Contents(r)
<1>1. /\ Sound(ls) /\ Shown(ls, C) /\ a \in Item
      /\ \A b \in Actor : active[b] <=> ScheduledIn(ls, b)
  BY DEF Fit, Actor
<1>2. ~Has(C["mActiveActors"], a) /\ ~Has(C["mWaitingActors"], a)
  BY <1>1, ListNames, ContentsFacts
<1>3. /\ Sound(r) /\ Shown(r, D)
      /\ D["mActiveActors"] = Append(C["mActiveActors"], a)
      /\ D["actors"] = Without(C["actors"], a)
      /\ D["mWaitingActors"] = Without(C["mWaitingActors"], a)
  BY <1>1, <1>2, Appended, ListNames
<1>4. /\ C["actors"] \in Seq(Item) /\ C["mActiveActors"] \in Seq(Item)
      /\ C["mWaitingActors"] \in Seq(Item)
      /\ \A j, k \in 1..Len(C["actors"]) : C["actors"][j] = C["actors"][k] => j = k
  BY <1>1, ListNames, ContentsFacts
<1>5. Waiting(r) = Waiting(ls)
  BY <1>1, <1>2, <1>3, <1>4, DroppedIs DEF Waiting, Has
<1>6. ASSUME NEW b \in Actor PROVE ScheduledIn(r, b) <=> ScheduledIn(ls, b)
  <2>1. Has(D["mActiveActors"], b) <=> Has(C["mActiveActors"], b) \/ b = a
    <3>. HIDE DEF C, D
    <3>. QED
      BY <1>1, <1>3, <1>4, AppendHas
  <2>2. b # a => (Has(D["actors"], b) <=> Has(C["actors"], b))
    BY <1>1, <1>3, ListNames, ContentsWithout
  <2>. QED
    BY <2>1, <2>2 DEF ScheduledIn
<1>. HIDE DEF C, D
<1>. QED
  BY <1>1, <1>3, <1>5, <1>6 DEF Fit, C, D

\* An actor without timeouts leaves the loop's list for the passive actors.
LEMMA Retires ==
  ASSUME NEW ls, NEW active, NEW times \in [Actor -> Nat], NEW spared,
         Fit(ls, active, times, spared), NEW a \in Actor, times[a] = 0, spared \in {a, Null},
         NEW l \in {"actors", "mWaitingActors"}, Has(Contents(ls)[l], a),
         NEW r, r = AddTail(ls, "mPassiveActors", a)
  PROVE  /\ Fit(r, [active EXCEPT ![a] = FALSE], times, Null)
         /\ Contents(r)[l] = Without(Contents(ls)[l], a)
         /\ l = "mWaitingActors" => ~active[a]
<1>. DEFINE C == Contents(ls)
            D == Contents(r)
            acted == [active EXCEPT ![a] = FALSE]
<1>1. /\ Sound(ls) /\ Shown(ls, C) /\ a \in Item /\ l \in List /\ l # "mPassiveActors"
      /\ active \in [Actor -> BOOLEAN]
      /\ \A b \in Actor : active[b] <=> ScheduledIn(ls, b)
  BY ListNames DEF Fit, Actor
<1>2. ~Has(C["mPassiveActors"], a) /\ ~Has(C["mActiveActors"], a)
  BY <1>1, ListNames, ContentsFacts
<1>3. /\ Sound(r) /\ Shown(r, D)
      /\ D["mActiveActors"] = Without(C["mActiveActors"], a)
      /\ D["actors"] = Without(C["actors"], a)
      /\ D["mWaitingActors"] = Without(C["mWaitingActors"], a)
  BY <1>1, <1>2, Appended, ListNames
<1>4. ASSUME NEW h \in List
      PROVE  C[h] \in Seq(Item) /\ \A j, k \in 1..Len(C[h]) : C[h][j] = C[h][k] => j = k
  BY <1>1, ContentsFacts
<1>5. ASSUME NEW b \in Actor PROVE acted[b] <=> ScheduledIn(r, b)
  <2>1. /\ b # a => (Has(D["actors"], b) <=> Has(C["actors"], b))
        /\ b # a => (Has(D["mActiveActors"], b) <=> Has(C["mActiveActors"], b))
        /\ ~Has(D["actors"], a) /\ ~Has(D["mActiveActors"], a)
    BY <1>1, <1>3, ListNames, ContentsWithout, ZenonT(60)
  <2>2. b # a => (ScheduledIn(r, b) <=> ScheduledIn(ls, b))
    BY <2>1 DEF ScheduledIn
  <2>3. b = a => ~ScheduledIn(r, b)
    BY <2>1 DEF ScheduledIn
  <2>. QED
    BY <1>1, <2>2, <2>3
<1>. DEFINE w == C["mWaitingActors"]
            v == D["mWaitingActors"]
<1>6. /\ \A y \in Item : y # a => (Has(v, y) <=> Has(w, y))
      /\ ~Has(v, a) /\ v \in Seq(Item)
  BY <1>1, <1>3, ListNames, ContentsWithout
<1>7. Ordered(v, times)
  <2>1. Ordered(w, times)
    BY DEF Fit, Waiting
  <2>2. w \in Seq(Item) /\ v = Without(w, a) /\ \A j, k \in 1..Len(w) : w[j] = w[k] => j = k
    BY <1>3, <1>4, ListNames
  <2>. HIDE DEF w, v
  <2>. QED
    BY <1>1, <2>1, <2>2, StillOrdered
<1>8. \A b \in Actor : times[b] # 0 => acted[b] \/ Has(v, b)
  <2>1. \A b \in Actor : times[b] # 0 => active[b] \/ Has(w, b)
    BY DEF Fit, Waiting
  <2>. HIDE DEF w, v
  <2>. QED
    BY <1>1, <1>6, <2>1 DEF Actor
<1>9. \A k \in 1..Len(v) : times[v[k]] # 0 \/ v[k] = Null
  <2>1. \A k \in 1..Len(w) : times[w[k]] # 0 \/ w[k] = spared
    BY DEF Fit, Waiting
  <2>. HIDE DEF w, v
  <2>2. \A k \in 1..Len(v) : v[k] \in Item /\ Has(v, v[k]) /\ v[k] # a
    BY <1>6 DEF Has
  <2>3. \A k \in 1..Len(v) : Has(w, v[k])
    BY <1>6, <2>2
  <2>4. \A k \in 1..Len(v) : times[v[k]] # 0 \/ v[k] = spared
    BY <2>1, <2>3 DEF Has
  <2>. QED
    BY <2>2, <2>4
<1>10. l = "mWaitingActors" => ~active[a]
  BY <1>1, ListNames, ContentsFacts DEF ScheduledIn
<1>11. Fit(r, acted, times, Null)
  BY <1>1, <1>3, <1>5, <1>7, <1>8, <1>9 DEF Fit, Waiting
<1>. QED
  BY <1>3, <1>10, <1>11

Times == [a \in Actor |-> nextTimeoutMilliseconds(a)]

\* The actor that leaves this cycle waits behind those with no later timeout.
LEMMA Waits ==
  ASSUME NEW active, Times \in [Actor -> Nat], Fit(links, active, Times, Null),
         NEW a \in Actor, Times[a] # 0, Has(Contents(links)["actors"], a),
         NEW r, r = waitTimeout(a)
  PROVE  /\ WaitingPlace(a) \in Actor \cup {"mWaitingActors"}
         /\ Fit(r, [active EXCEPT ![a] = FALSE], Times, Null)
         /\ Contents(r)["actors"] = Without(Contents(links)["actors"], a)
<1>. DEFINE C == Contents(links)
            w == C["mWaitingActors"]
            times == Times
            later == {k \in 1..Len(w) : times[a] < times[w[k]]}
            acted == [active EXCEPT ![a] = FALSE]
<1>1. /\ Sound(links) /\ Shown(links, C) /\ a \in Item /\ links \in Links
      /\ active \in [Actor -> BOOLEAN]
      /\ \A b \in Actor : active[b] <=> ScheduledIn(links, b)
  BY DEF Fit, Actor, Sound
<1>2. ~Has(w, a) /\ ~Has(C["mActiveActors"], a)
  BY <1>1, ListNames, ContentsFacts
<1>3. ASSUME NEW h \in List
      PROVE  C[h] \in Seq(Item) /\ \A j, k \in 1..Len(C[h]) : C[h][j] = C[h][k] => j = k
  BY <1>1, ContentsFacts
<1>4. w \in Seq(Item) /\ Len(w) \in Nat /\ DOMAIN w = 1..Len(w)
  BY <1>3, ListNames
<1>5. times \in [Actor -> Nat] /\ \A b \in Actor : times[b] = nextTimeoutMilliseconds(b)
  BY DEF Times
<1>6. /\ Ordered(w, times)
      /\ \A b \in Actor : times[b] # 0 => active[b] \/ Has(w, b)
      /\ \A k \in 1..Len(w) : times[w[k]] # 0 \/ w[k] = Null
  BY DEF Fit, Waiting
<1>7. Trail(links, "mWaitingActors") = [items |-> w, end |-> "mWaitingActors"]
  BY <1>1, ListNames, TrailIs
<1>8. \A k \in 1..Len(w) : w[k] \in Actor
  BY <1>4 DEF Actor
<1>. HIDE DEF w, times
<1>9. WaitingPlace(a) = IF later = {} THEN "mWaitingActors" ELSE w[F!Min(later)]
  <2>1. later = {k \in DOMAIN w : nextTimeoutMilliseconds(a) < nextTimeoutMilliseconds(w[k])}
    BY <1>4, <1>5, <1>8
  <2>. HIDE DEF later
  <2>. QED
    BY <1>7, <2>1 DEF WaitingPlace
<1>10. PICK k \in 0..Len(w) :
         /\ WaitingPlace(a) = Spot("mWaitingActors", w, k + 1)
         /\ \A j \in 1..k : times[w[j]] <= times[a]
         /\ \A j \in (k + 1)..Len(w) : times[a] < times[w[j]]
  <2>1. CASE later = {}
    <3>1. WaitingPlace(a) = Spot("mWaitingActors", w, Len(w) + 1)
      BY <1>4, <1>9, <2>1 DEF Spot
    <3>2. \A j \in 1..Len(w) : times[w[j]] <= times[a]
      BY <1>5, <1>8, <2>1
    <3>3. \A j \in (Len(w) + 1)..Len(w) : times[a] < times[w[j]]
      BY <1>4
    <3>4. Len(w) \in 0..Len(w)
      BY <1>4
    <3>. QED
      BY <3>1, <3>2, <3>3, <3>4
  <2>2. CASE later # {}
    <3>. DEFINE m == F!Min(later)
    <3>1. m \in later /\ \A y \in later : m <= y
      <4>1. \E x \in later : \A y \in later : x <= y
        <5>1. later \in SUBSET Nat
          OBVIOUS
        <5>. HIDE DEF later
        <5>. QED
          BY <2>2, <5>1, Least
      <4>. HIDE DEF later
      <4>. QED
        BY <4>1 DEF F!Min
    <3>. HIDE DEF m
    <3>2. m \in 1..Len(w) /\ times[a] < times[w[m]]
      BY <3>1
    <3>3. WaitingPlace(a) = Spot("mWaitingActors", w, (m - 1) + 1)
      <4>1. (m - 1) + 1 = m
        BY <3>2
      <4>. QED
        BY <1>9, <2>2, <3>2, <4>1 DEF Spot, m
    <3>4. ASSUME NEW j \in 1..(m - 1) PROVE times[w[j]] <= times[a]
      <4>1. j \in 1..Len(w) /\ j \notin later
        BY <1>4, <3>1, <3>2
      <4>. QED
        BY <1>5, <1>8, <4>1
    <3>5. ASSUME NEW j \in ((m - 1) + 1)..Len(w) PROVE times[a] < times[w[j]]
      <4>1. j \in 1..Len(w) /\ (m < j \/ m = j)
        BY <1>4, <3>2
      <4>2. times[w[m]] <= times[w[j]]
        BY <1>5, <1>6, <1>8, <3>2, <4>1 DEF Ordered
      <4>3. times[w[m]] \in Nat /\ times[w[j]] \in Nat /\ times[a] \in Nat
        BY <1>5, <1>8, <3>2, <4>1
      <4>. QED
        BY <3>2, <4>2, <4>3
    <3>6. m - 1 \in 0..Len(w)
      BY <1>4, <3>2
    <3>. QED
      BY <3>3, <3>4, <3>5, <3>6
  <2>. QED
    BY <2>1, <2>2
<1>. HIDE DEF later
<1>11. WaitingPlace(a) \in Actor \cup {"mWaitingActors"}
  BY <1>8, <1>10 DEF Spot
<1>. DEFINE d == S!InsertAt(w, k + 1, a)
            new == [Dropped(C, a) EXCEPT !["mWaitingActors"] = d]
<1>12. Longer(d, w, k, <<a>>)
  BY <1>1, <1>4, InsertedAt
<1>. HIDE DEF d
<1>13. Sound(r) /\ Shown(r, new)
  <2>1. /\ r = AddBefore(links, a, WaitingPlace(a))
        /\ \A j \in 1..Len(C["mWaitingActors"]) : C["mWaitingActors"][j] # a
        /\ k \in 0..Len(C["mWaitingActors"]) /\ Longer(d, C["mWaitingActors"], k, <<a>>)
        /\ WaitingPlace(a) = Spot("mWaitingActors", C["mWaitingActors"], k + 1)
    BY <1>2, <1>10, <1>12 DEF waitTimeout, Has, w
  <2>. HIDE DEF C
  <2>2. Sound(AddBefore(links, a, WaitingPlace(a)))
        /\ Shown(AddBefore(links, a, WaitingPlace(a)), [Dropped(C, a) EXCEPT !["mWaitingActors"] = d])
    <3>. DEFINE place == WaitingPlace(a)
                c == C["mWaitingActors"]
    <3>1. /\ \A j \in 1..Len(c) : c[j] # a
          /\ k \in 0..Len(c) /\ Longer(d, c, k, <<a>>) /\ place = Spot("mWaitingActors", c, k + 1)
          /\ Sound(links) /\ Shown(links, C) /\ a \in Item /\ "mWaitingActors" \in List
      BY <1>1, <2>1, ListNames
    <3>. HIDE DEF place
    <3>. QED
      BY <3>1, MovedShown DEF place
  <2>. QED
    BY <2>1, <2>2
<1>14. Contents(r) = new
  BY <1>13, ContentsAre DEF Sound
<1>15. /\ new["mWaitingActors"] = d
       /\ new["mActiveActors"] = Without(C["mActiveActors"], a)
       /\ new["actors"] = Without(C["actors"], a)
  BY ListNames DEF Dropped
<1>. HIDE DEF new, C
<1>16. ASSUME NEW b \in Actor PROVE acted[b] <=> ScheduledIn(r, b)
  <2>1. /\ b # a => (Has(new["actors"], b) <=> Has(C["actors"], b))
        /\ b # a => (Has(new["mActiveActors"], b) <=> Has(C["mActiveActors"], b))
        /\ ~Has(new["actors"], a) /\ ~Has(new["mActiveActors"], a)
    BY <1>1, <1>15, ListNames, ContentsWithout DEF C
  <2>2. b # a => (ScheduledIn(r, b) <=> ScheduledIn(links, b))
    BY <1>14, <2>1 DEF ScheduledIn, C
  <2>3. b = a => ~ScheduledIn(r, b)
    BY <1>14, <2>1 DEF ScheduledIn
  <2>. QED
    BY <1>1, <2>2, <2>3
<1>17. /\ Len(d) = Len(w) + 1
       /\ \A m \in 1..Len(d) : d[m] = IF m <= k THEN w[m] ELSE IF m = k + 1 THEN a ELSE w[m - 1]
  <2>1. Len(<<a>>) = 1 /\ <<a>>[1] = a
    OBVIOUS
  <2>2. /\ Len(d) = Len(w) + 1
        /\ \A m \in 1..Len(d) : d[m] = IF m <= k THEN w[m] ELSE IF m <= k + 1 THEN <<a>>[m - k] ELSE w[m - 1]
    BY <1>12, <2>1 DEF Longer
  <2>3. ASSUME NEW m \in 1..Len(d)
        PROVE  d[m] = IF m <= k THEN w[m] ELSE IF m = k + 1 THEN a ELSE w[m - 1]
    <3>1. m <= k + 1 /\ ~(m <= k) => m = k + 1 /\ m - k = 1
      BY <1>4
    <3>2. m = k + 1 => ~(m <= k)
      BY <1>4
    <3>. QED
      BY <2>1, <2>2, <3>1, <3>2
  <2>. QED
    BY <2>2, <2>3
<1>18. Ordered(d, times)
  <2>. SUFFICES ASSUME NEW i \in 1..Len(d), NEW j \in 1..Len(d), i < j
                PROVE  times[d[i]] <= times[d[j]]
    BY DEF Ordered
  <2>1. \A m \in 1..Len(w) : times[w[m]] \in Nat
    BY <1>5, <1>8
  <2>2. times[a] \in Nat
    BY <1>5
  <2>3. CASE i <= k /\ j <= k
    BY <1>4, <1>6, <1>17, <2>3 DEF Ordered
  <2>4. CASE i <= k /\ j = k + 1
    <3>1. d[i] = w[i] /\ d[j] = a /\ i \in 1..k
      BY <1>4, <1>17, <2>4
    <3>. QED
      BY <1>10, <3>1
  <2>5. CASE i <= k /\ j > k + 1
    <3>1. d[i] = w[i] /\ d[j] = w[j - 1] /\ i \in 1..Len(w) /\ j - 1 \in 1..Len(w) /\ i < j - 1
      BY <1>4, <1>17, <2>5
    <3>. QED
      BY <1>6, <3>1 DEF Ordered
  <2>6. CASE i = k + 1
    <3>1. d[i] = a /\ d[j] = w[j - 1] /\ j - 1 \in (k + 1)..Len(w) /\ j - 1 \in 1..Len(w)
      BY <1>4, <1>17, <2>6
    <3>. QED
      BY <1>10, <2>1, <2>2, <3>1, SMTT(60)
  <2>7. CASE i > k + 1
    <3>1. d[i] = w[i - 1] /\ d[j] = w[j - 1] /\ i - 1 \in 1..Len(w) /\ j - 1 \in 1..Len(w) /\ i - 1 < j - 1
      BY <1>4, <1>17, <2>7
    <3>. QED
      BY <1>6, <3>1 DEF Ordered
  <2>. QED
    BY <1>4, <2>3, <2>4, <2>5, <2>6, <2>7
<1>19. \A y : Has(d, y) <=> Has(w, y) \/ y = a
  <2>1. k + 1 \in 1..Len(d) /\ d[k + 1] = a
    BY <1>4, <1>17
  <2>2. ASSUME NEW m \in 1..Len(w) PROVE \E i \in 1..Len(d) : d[i] = w[m]
    <3>1. CASE m <= k
      BY <1>4, <1>17, <3>1
    <3>2. CASE ~(m <= k)
      <4>1. m + 1 \in 1..Len(d) /\ ~(m + 1 <= k) /\ m + 1 # k + 1 /\ (m + 1) - 1 = m
        BY <1>4, <1>17, <3>2
      <4>. QED
        BY <1>17, <4>1
    <3>. QED
      BY <3>1, <3>2
  <2>3. ASSUME NEW i \in 1..Len(d) PROVE d[i] = a \/ \E m \in 1..Len(w) : d[i] = w[m]
    <3>1. CASE i <= k
      BY <1>4, <1>17, <3>1
    <3>2. CASE i > k + 1
      <4>1. i - 1 \in 1..Len(w)
        BY <1>4, <1>17, <3>2
      <4>. QED
        BY <1>17, <3>2, <4>1
    <3>. QED
      BY <1>4, <1>17, <3>1, <3>2
  <2>4. ASSUME NEW y, Has(w, y) PROVE Has(d, y)
    BY <2>2, <2>4 DEF Has
  <2>5. ASSUME NEW y, Has(d, y) PROVE Has(w, y) \/ y = a
    BY <2>3, <2>5 DEF Has
  <2>6. Has(d, a)
    BY <2>1 DEF Has
  <2>. QED
    BY <2>4, <2>5, <2>6
<1>20. \A b \in Actor : times[b] # 0 => acted[b] \/ Has(d, b)
  BY <1>1, <1>6, <1>19
<1>21. \A m \in 1..Len(d) : times[d[m]] # 0 \/ d[m] = Null
  <2>1. \A m \in 1..Len(d) : Has(w, d[m]) \/ d[m] = a
    BY <1>19 DEF Has
  <2>. QED
    BY <1>6, <2>1 DEF Has, times
<1>22. Fit(r, acted, times, Null)
  BY <1>1, <1>13, <1>14, <1>15, <1>16, <1>18, <1>20, <1>21 DEF Fit, Waiting
<1>. QED
  BY <1>11, <1>14, <1>15, <1>22 DEF times, C

-----------------------------------------------------------------------------
(* The invariant *)

RulesKept == Liberties = {}

\* The loop's own actors, and where its iterator is.
Loop == Contents(links)["actors"]

Spared == IF pc = "waitTimers" THEN iterator.current ELSE Null

\* The loops over waiting and over active actors are at the first actor of
\* their list: those they have passed have left it.
Whereabouts ==
  /\ pc \in Location \ {"lost"}
  /\ running \in Actor \cup {Null}
  /\ pc \notin {"sources", "waitTimers", "activeTimers", "messages"} => running = Null
  /\ pc \in {"wait", "waitTimers"} => iterator = FirstTwo(Waiting(links))
  /\ pc \in {"active", "activeTimers", "messages"} => iterator = FirstTwo(Loop)
  /\ pc \in {"waitTimers", "activeTimers", "messages"} =>
       iterator.current \in Actor /\ running \in {iterator.current, Null}
  /\ pc \in {"setup", "deliver"} => Loop = <<>>
  /\ wake \in Nat

ListsFit == Fit(links, mActive, Times, Spared)

\* The timer handled, and what its actor has besides.
TimerAtWork ==
  InTimers =>
  LET own == mTimeouts[iterator.current]
  IN  /\ timer.subsequent = 0
      /\ running # Null =>
           /\ \E k \in 1..Len(own) : own[k] = timer.current
           /\ Len(own) = 1 \/ (pc = "activeTimers" /\ Len(own) = 2 /\ own[1] # own[2])
      /\ running = Null /\ timer.current # 0 =>
           own = <<timer.current>> /\ (pc = "waitTimers" => TimerDue)
      /\ running = Null /\ timer.current = 0 =>
           Len(own) <= 1 /\ (pc = "waitTimers" => own = <<>>)

TimeoutsFit ==
  /\ timeouts \in Seq([actor : Actor, at : 1..MaxTime])
  /\ mTimeouts \in [Actor -> Seq(1..Len(timeouts))]
  /\ now \in Nat /\ mMilliseconds \in Nat /\ mMilliseconds <= now
  /\ \A a \in Actor :
       (InTimers /\ a = iterator.current) \/ Len(mTimeouts[a]) <= 1
  /\ TimerAtWork

Live(m) == m \notin handled \/ BeingHandled(m)

\* Messages of one sort stand in the order of their numbers.
InOrder(messages) ==
  \A j, k \in 1..Len(messages) :
    j < k /\ sent[messages[j]] = sent[messages[k]] => messages[j] < messages[k]

MailFits ==
  /\ sent \in Seq([to : Actor, direct : BOOLEAN])
  /\ handled \subseteq 1..Len(sent)
  /\ mQueuedMessages = [a \in Actor |-> <<>>]
  /\ mOutgoingMessages \in Seq(1..Len(sent)) /\ InOrder(mOutgoingMessages)
  /\ \A k \in 1..Len(mOutgoingMessages) : ~sent[mOutgoingMessages[k]].direct
  /\ mIncomingMessages \in [Actor -> Seq(1..Len(sent))]
  /\ \A a \in Actor :
       LET mine == mIncomingMessages[a]
       IN  /\ InOrder(mine)
           /\ mine # <<>> => mActive[a]
           /\ \A k \in 1..Len(mine) :
                /\ sent[mine[k]].to = a
                /\ \A j \in 1..Len(mOutgoingMessages) :
                     sent[mine[k]] = sent[mOutgoingMessages[j]] => mine[k] < mOutgoingMessages[j]
  /\ \A m \in 1..Len(sent) :
       Live(m) <=> Has(mOutgoingMessages, m) \/ Has(mIncomingMessages[sent[m].to], m)

\* The loop over messages knows whether there is one, and a next one.
MailAtWork ==
  pc = "messages" =>
  LET own == mIncomingMessages[iterator.current]
  IN  /\ mail.current => Len(own) >= 1
      /\ mail.subsequent => Len(own) >= 2
      /\ running # Null => mail.current /\ Head(own) \in handled

IInv ==
  /\ Whereabouts /\ ListsFit /\ TimeoutsFit /\ MailFits /\ MailAtWork
  /\ FirstInFirstHandled
  /\ NoOversleeping

-----------------------------------------------------------------------------
(* What a step leaves alone *)

\* The time of an actor's first timeout, 0 without one.
LEMMA TimesAre ==
  ASSUME TimeoutsFit
  PROVE  /\ Times \in [Actor -> Nat]
         /\ \A a \in Actor : mTimeouts[a] = <<>> => Times[a] = 0
         /\ \A a \in Actor : mTimeouts[a] # <<>> =>
              /\ 1 \in 1..Len(mTimeouts[a]) /\ mTimeouts[a][1] \in 1..Len(timeouts)
              /\ Times[a] = TimeOf(mTimeouts[a][1]) /\ Times[a] # 0
<1>. SUFFICES ASSUME NEW a \in Actor
              PROVE  /\ nextTimeoutMilliseconds(a) \in Nat
                     /\ mTimeouts[a] = <<>> => nextTimeoutMilliseconds(a) = 0
                     /\ mTimeouts[a] # <<>> =>
                          /\ 1 \in 1..Len(mTimeouts[a]) /\ mTimeouts[a][1] \in 1..Len(timeouts)
                          /\ nextTimeoutMilliseconds(a) = TimeOf(mTimeouts[a][1])
                          /\ nextTimeoutMilliseconds(a) # 0
  BY DEF Times
<1>1. mTimeouts[a] \in Seq(1..Len(timeouts)) /\ timeouts \in Seq([actor : Actor, at : 1..MaxTime])
  BY DEF TimeoutsFit
<1>2. CASE mTimeouts[a] = <<>>
  BY <1>2 DEF nextTimeoutMilliseconds
<1>3. CASE mTimeouts[a] # <<>>
  <2>1. 1 \in 1..Len(mTimeouts[a]) /\ Head(mTimeouts[a]) = mTimeouts[a][1]
    BY <1>1, <1>3
  <2>2. mTimeouts[a][1] \in 1..Len(timeouts)
    BY <1>1, <2>1
  <2>3. timeouts[mTimeouts[a][1]].at \in 1..MaxTime
    <3>. DEFINE t == mTimeouts[a][1]
    <3>1. t \in 1..Len(timeouts)
      BY <2>2
    <3>. HIDE DEF t
    <3>2. timeouts[t] \in [actor : Actor, at : 1..MaxTime]
      <4>. DEFINE T == [actor : Actor, at : 1..MaxTime]
      <4>1. timeouts \in Seq(T)
        BY <1>1
      <4>. HIDE DEF T
      <4>2. timeouts[t] \in T
        BY <3>1, <4>1
      <4>. QED
        BY <4>2 DEF T
    <3>3. timeouts[t].at \in 1..MaxTime
      BY <3>2
    <3>. QED
      BY <3>3 DEF t
  <2>4. MaxTime \in Nat
    BY DispatchLoopAssumption
  <2>. QED
    BY <1>3, <2>1, <2>2, <2>3, <2>4 DEF nextTimeoutMilliseconds, TimeOf
<1>. QED
  BY <1>2, <1>3

LEMMA TimesTypedNext ==
  ASSUME TimeoutsFit'
  PROVE  Times' \in [Actor -> Nat]
<1>. DEFINE T == [actor : Actor, at : 1..MaxTime]
<1>1. timeouts' \in Seq(T) /\ mTimeouts' \in [Actor -> Seq(1..Len(timeouts'))]
  BY DEF TimeoutsFit
<1>2. \A x \in T : x.at \in Nat
  BY DispatchLoopAssumption
<1>. HIDE DEF T
<1>3. ASSUME NEW a \in Actor PROVE nextTimeoutMilliseconds(a)' \in Nat
  <2>. DEFINE own == mTimeouts'[a]
              t == Head(own)
  <2>1. own \in Seq(1..Len(timeouts'))
    BY <1>1
  <2>. HIDE DEF own
  <2>2. CASE own = <<>>
    BY <2>2 DEF nextTimeoutMilliseconds, own
  <2>3. CASE own # <<>>
    <3>1. t \in 1..Len(timeouts')
      BY <2>1, <2>3
    <3>. HIDE DEF t
    <3>2. timeouts'[t] \in T
      BY <1>1, <3>1
    <3>3. timeouts'[t].at \in Nat
      BY <1>2, <3>2
    <3>. QED
      BY <2>3, <3>3 DEF nextTimeoutMilliseconds, TimeOf, own, t
  <2>. QED
    BY <2>2, <2>3
<1>. QED
  BY <1>3 DEF Times

LEMMA FitWidens ==
  ASSUME NEW ls, NEW active, NEW times, NEW spared, Fit(ls, active, times, spared),
         NEW other, spared \in {Null, other}
  PROVE  Fit(ls, active, times, other)
<1>1. \A k \in 1..Len(Waiting(ls)) : Waiting(ls)[k] # Null
  BY ListNames, ListAssumption DEF Fit, Shown, Waiting
<1>. QED
  BY <1>1 DEF Fit

LEMMA ListsSame ==
  ASSUME ListsFit, UNCHANGED <<links, mActive, mTimeouts, timeouts>>, Spared \in {Null, Spared'}
  PROVE  ListsFit'
<1>1. Times' = Times
  BY DEF Times, nextTimeoutMilliseconds, TimeOf
<1>2. Fit(links, mActive, Times, Spared')
  BY FitWidens DEF ListsFit
<1>. QED
  BY <1>1, <1>2 DEF ListsFit, Fit, Contents, Waiting, ScheduledIn

\* A message is being handled.
Handling == pc = "messages" /\ running # Null

LEMMA MailSame ==
  ASSUME MailFits, FirstInFirstHandled, UNCHANGED queues,
         \A a \in Actor : mIncomingMessages[a] # <<>> => mActive'[a],
         \/ ~Handling /\ ~Handling'
         \/ UNCHANGED <<pc, running>>
  PROVE  MailFits' /\ FirstInFirstHandled'
<1>1. \A m : Live(m)' <=> Live(m)
  BY DEF Live, BeingHandled, Handling, queues
<1>2. FirstInFirstHandled'
  BY DEF FirstInFirstHandled, queues
<1>3. UNCHANGED <<sent, handled, mQueuedMessages, mOutgoingMessages, mIncomingMessages>>
  BY DEF queues
<1>. QED
  BY <1>1, <1>2, <1>3 DEF MailFits, InOrder, Has

LEMMA TimeoutsSame ==
  ASSUME TimeoutsFit, UNCHANGED <<timing, mMilliseconds>>, now' \in Nat, now <= now',
         \/ ~InTimers' /\ (InTimers => Len(mTimeouts[iterator.current]) <= 1)
         \/ UNCHANGED <<pc, running, iterator, timer>>
  PROVE  TimeoutsFit'
<1>1. UNCHANGED <<mTimeouts, timeouts>> /\ mMilliseconds <= now'
  BY DEF timing, TimeoutsFit
<1>2. CASE ~InTimers' /\ (InTimers => Len(mTimeouts[iterator.current]) <= 1)
  BY <1>1, <1>2 DEF TimeoutsFit, TimerAtWork, InTimers
<1>3. CASE UNCHANGED <<pc, running, iterator, timer>>
  BY <1>1, <1>3 DEF TimeoutsFit, TimerAtWork, InTimers, TimerDue, TimeOf
<1>. QED
  BY <1>2, <1>3

-----------------------------------------------------------------------------
(* The steps that only move the thread *)

\* The lists and the messages, when the thread only moves on.
LEMMA OnlyMoves ==
  ASSUME IInv, UNCHANGED <<links, mActive, queues, mTimeouts, timeouts>>,
         Spared \in {Null, Spared'},
         \/ ~Handling /\ ~Handling'
         \/ UNCHANGED <<pc, running>>
  PROVE  ListsFit' /\ MailFits' /\ FirstInFirstHandled'
<1>1. ListsFit'
  BY ListsSame DEF IInv
<1>2. \A a \in Actor : mIncomingMessages[a] # <<>> => mActive'[a]
  BY DEF IInv, MailFits
<1>. QED
  BY <1>1, <1>2, MailSame DEF IInv

LEMMA StartRunKeeps ==
  ASSUME IInv, StartRun
  PROVE  IInv'
<1>1. /\ pc = "setup" /\ pc' = "deliver" /\ running = Null
      /\ UNCHANGED <<links, mActive, queues, timing, running, iterator, timer, mail,
                     wake, events, mMilliseconds, now>>
      /\ UNCHANGED <<mTimeouts, timeouts>>
  BY DEF StartRun, IInv, Whereabouts, timing
<1>2. ListsFit' /\ MailFits' /\ FirstInFirstHandled'
  BY <1>1, OnlyMoves DEF Spared, Handling
<1>3. TimeoutsFit'
  <2>1. ~InTimers /\ ~InTimers' /\ now' \in Nat /\ now <= now'
    BY <1>1 DEF InTimers, IInv, TimeoutsFit
  <2>. QED
    BY <1>1, <2>1, TimeoutsSame DEF IInv
<1>4. Whereabouts'
  BY <1>1 DEF IInv, Whereabouts, Location, Loop, Contents
<1>5. MailAtWork' /\ NoOversleeping'
  BY <1>1 DEF MailAtWork, NoOversleeping
<1>. QED
  BY <1>2, <1>3, <1>4, <1>5 DEF IInv

\* Waiting(links) and Loop do not change with the thread's position.
LEMMA SameLists ==
  ASSUME UNCHANGED links
  PROVE  UNCHANGED <<Waiting(links), Loop>>
BY DEF Waiting, Loop, Contents

\* What both loops find when they begin.
LEMMA Begins ==
  ASSUME IInv
  PROVE  /\ Iterator(links, "mWaitingActors", FALSE) = FirstTwo(Waiting(links))
         /\ Iterator(links, "actors", FALSE) = FirstTwo(Loop)
         /\ FirstTwo(Waiting(links)).current \in Actor \cup {Null}
         /\ FirstTwo(Loop).current \in Actor \cup {Null}
<1>1. links \in Links /\ Shown(links, Contents(links))
  BY DEF IInv, ListsFit, Fit, Sound
<1>. QED
  BY <1>1, ListNames, AtFirst DEF Waiting, Loop, Actor

LEMMA NotASentinel ==
  /\ \A a \in Actor \cup {Null} : a \notin ActorList
  /\ Null \notin Actor
BY ActorsAssumption, ListAssumption DEF Actor

\* The loop over the waiting actors begins, after a timeout, a signal or events.
LEMMA WaitLoopKeeps ==
  ASSUME IInv, pc \in {"poll", "sources"}, running = Null, WaitLoop
  PROVE  IInv'
<1>1. /\ UNCHANGED <<links, mActive, queues, timing, running, timer, mail, wake,
                     events, mMilliseconds, now>>
      /\ UNCHANGED <<mTimeouts, timeouts>>
  BY DEF WaitLoop, timing
<1>2. /\ iterator' = FirstTwo(Waiting(links)) /\ pc' = "wait"
  BY Begins, NotASentinel DEF WaitLoop, Iterate
<1>3. ListsFit' /\ MailFits' /\ FirstInFirstHandled'
  BY <1>1, <1>2, OnlyMoves DEF Spared, Handling
<1>4. TimeoutsFit'
  <2>1. ~InTimers /\ ~InTimers' /\ now' \in Nat /\ now <= now'
    BY <1>1, <1>2 DEF InTimers, IInv, TimeoutsFit
  <2>. QED
    BY <1>1, <2>1, TimeoutsSame DEF IInv
<1>5. Whereabouts'
  BY <1>1, <1>2, SameLists DEF IInv, Whereabouts, Location
<1>6. MailAtWork' /\ NoOversleeping'
  BY <1>2 DEF MailAtWork, NoOversleeping
<1>. QED
  BY <1>3, <1>4, <1>5, <1>6 DEF IInv

LEMMA SourcesKeep ==
  ASSUME IInv, (\E a \in Actor : SourceReady(a)) \/ SourceReturns
  PROVE  IInv'
<1>1. /\ pc \in {"poll", "sources"} /\ pc' = "sources" /\ running' \in Actor \cup {Null}
      /\ UNCHANGED <<links, mActive, queues, timing, timer, iterator, mail, wake,
                     mMilliseconds, now>>
      /\ UNCHANGED <<mTimeouts, timeouts>>
  BY DEF SourceReady, SourceReturns, timing
<1>2. ListsFit' /\ MailFits' /\ FirstInFirstHandled'
  BY <1>1, OnlyMoves DEF Spared, Handling
<1>3. TimeoutsFit'
  <2>1. ~InTimers /\ ~InTimers' /\ now' \in Nat /\ now <= now'
    BY <1>1 DEF InTimers, IInv, TimeoutsFit
  <2>. QED
    BY <1>1, <2>1, TimeoutsSame DEF IInv
<1>4. Whereabouts'
  BY <1>1 DEF IInv, Whereabouts, Location
<1>5. MailAtWork' /\ NoOversleeping'
  BY <1>1 DEF MailAtWork, NoOversleeping
<1>. QED
  BY <1>2, <1>3, <1>4, <1>5 DEF IInv

LEMMA WaitStopsKeeps ==
  ASSUME IInv, WaitStops
  PROVE  IInv'
<1>1. /\ UNCHANGED <<links, mActive, queues, timing, running, timer, mail, wake,
                     events, mMilliseconds, now>>
      /\ UNCHANGED <<mTimeouts, timeouts>> /\ running = Null /\ pc = "wait"
  BY DEF WaitStops, timing, IInv, Whereabouts
<1>2. /\ iterator' = FirstTwo(Loop) /\ pc' = "active"
  BY Begins, NotASentinel DEF WaitStops, Iterate
<1>3. ListsFit' /\ MailFits' /\ FirstInFirstHandled'
  BY <1>1, <1>2, OnlyMoves DEF Spared, Handling
<1>4. TimeoutsFit'
  <2>1. ~InTimers /\ ~InTimers' /\ now' \in Nat /\ now <= now'
    BY <1>1, <1>2 DEF InTimers, IInv, TimeoutsFit
  <2>. QED
    BY <1>1, <2>1, TimeoutsSame DEF IInv
<1>5. Whereabouts'
  BY <1>1, <1>2, SameLists DEF IInv, Whereabouts, Location
<1>6. MailAtWork' /\ NoOversleeping'
  BY <1>2 DEF MailAtWork, NoOversleeping
<1>. QED
  BY <1>3, <1>4, <1>5, <1>6 DEF IInv

LEMMA ActiveDoneKeeps ==
  ASSUME IInv, ActiveDone
  PROVE  IInv'
<1>1. /\ UNCHANGED <<links, mActive, queues, timing, running, iterator, timer, mail,
                     wake, events, mMilliseconds, now>>
      /\ UNCHANGED <<mTimeouts, timeouts>> /\ running = Null
      /\ pc = "active" /\ pc' = "deliver" /\ iterator.current = Null
  BY DEF ActiveDone, timing, IInv, Whereabouts
<1>2. ListsFit' /\ MailFits' /\ FirstInFirstHandled'
  BY <1>1, OnlyMoves DEF Spared, Handling
<1>3. TimeoutsFit'
  <2>1. ~InTimers /\ ~InTimers' /\ now' \in Nat /\ now <= now'
    BY <1>1 DEF InTimers, IInv, TimeoutsFit
  <2>. QED
    BY <1>1, <2>1, TimeoutsSame DEF IInv
<1>4. Loop = <<>>
  <2>1. Loop \in Seq(Item)
    BY ListNames DEF IInv, ListsFit, Fit, Shown, Loop
  <2>2. Nth(Loop, 1) = Null
    BY <1>1 DEF IInv, Whereabouts, FirstTwo
  <2>3. ~(1 \in 1..Len(Loop))
    BY <2>1, <2>2, ListAssumption DEF Nth
  <2>. QED
    BY <2>1, <2>3
<1>5. Whereabouts'
  BY <1>1, <1>4, SameLists DEF IInv, Whereabouts, Location
<1>6. MailAtWork' /\ NoOversleeping'
  BY <1>1 DEF MailAtWork, NoOversleeping
<1>. QED
  BY <1>2, <1>3, <1>5, <1>6 DEF IInv

LEMMA TickKeeps ==
  ASSUME IInv, Tick
  PROVE  IInv'
<1>1. /\ UNCHANGED <<links, mActive, queues, timing, position, mTimeouts, timeouts>>
      /\ UNCHANGED <<pc, running, iterator, timer, mail, wake, events, mMilliseconds>>
      /\ now' = now + 1 /\ now \in Nat /\ mMilliseconds \in Nat
  BY DEF Tick, timing, position, IInv, TimeoutsFit
<1>2. ListsFit' /\ MailFits' /\ FirstInFirstHandled'
  BY <1>1, OnlyMoves DEF Spared, Handling
<1>3. TimeoutsFit'
  BY <1>1, TimeoutsSame DEF IInv
<1>4. Whereabouts' /\ MailAtWork'
  BY <1>1, SameLists DEF IInv, Whereabouts, MailAtWork, queues
<1>5. NoOversleeping'
  <2>1. UNCHANGED <<mTimeouts, timeouts, sent, handled>> /\ wake \in Nat
    BY <1>1 DEF queues, IInv, Whereabouts
  <2>2. wake <= now => wake <= now'
    BY <1>1, <2>1
  <2>. QED
    BY <1>1, <2>1, <2>2 DEF IInv, NoOversleeping, TimeOf, Numbers
<1>. QED
  BY <1>2, <1>3, <1>4, <1>5 DEF IInv

-----------------------------------------------------------------------------
(* Timeouts *)

LEMMA AtMostOne == \A n \in Nat : n <= 1 => n = 0 \/ n = 1
OBVIOUS

\* Sequences of at most two elements, spelled out.
LEMMA ShortSequences ==
  ASSUME NEW T, NEW c \in Seq(T)
  PROVE  /\ Len(c) \in Nat
         /\ Len(c) = 0 <=> c = <<>>
         /\ Len(c) = 1 => c[1] \in T /\ c = <<c[1]>> /\ Head(c) = c[1]
         /\ Len(c) = 2 => c[1] \in T /\ c[2] \in T /\ c = <<c[1], c[2]>>
<1>1. Len(c) \in Nat /\ (Len(c) = 0 <=> c = <<>>) /\ \A k \in 1..Len(c) : c[k] \in T
  OBVIOUS
<1>2. ASSUME Len(c) = 1 PROVE c[1] \in T /\ c = <<c[1]>> /\ Head(c) = c[1]
  <2>1. 1 \in 1..Len(c)
    BY <1>2
  <2>. QED
    BY <1>1, <1>2, <2>1
<1>3. ASSUME Len(c) = 2 PROVE c[1] \in T /\ c[2] \in T /\ c = <<c[1], c[2]>>
  <2>1. 1 \in 1..Len(c) /\ 2 \in 1..Len(c)
    BY <1>3
  <2>. QED
    BY <1>1, <1>3, <2>1
<1>. QED
  BY <1>1, <1>2, <1>3

LEMMA JoinedShort ==
  ASSUME NEW x, NEW y
  PROVE  /\ <<>> \o <<x>> = <<x>> /\ <<x>> \o <<>> = <<x>> /\ <<x>> \o <<y>> = <<x, y>>
         /\ <<x, y>> \o <<>> = <<x, y>>
<1>. DEFINE T == {x, y}
            p == <<x>>
            q == <<y>>
            pq == <<x, y>>
<1>1. /\ p \in Seq(T) /\ q \in Seq(T) /\ pq \in Seq(T)
      /\ Len(p) = 1 /\ Len(q) = 1 /\ p[1] = x /\ q[1] = y
  OBVIOUS
<1>. HIDE DEF T, p, q, pq
<1>2. <<>> \o p = p /\ p \o <<>> = p /\ pq \o <<>> = pq
  BY <1>1, ConcatEmptySeq
<1>3. /\ p \o q \in Seq(T) /\ Len(p \o q) = 2
      /\ \A i \in 1..2 : (p \o q)[i] = IF i <= 1 THEN p[i] ELSE q[i - 1]
  BY <1>1, ConcatProperties, SMTT(60)
<1>4. (p \o q)[1] = x /\ (p \o q)[2] = y
  BY <1>1, <1>3
<1>5. p \o q = <<x, y>>
  <2>. DEFINE c == p \o q
  <2>. HIDE DEF c
  <2>1. c \in Seq(T) /\ Len(c) = 2 /\ c[1] = x /\ c[2] = y
    BY <1>3, <1>4 DEF c
  <2>2. c = <<c[1], c[2]>>
    BY <2>1, ShortSequences
  <2>. QED
    BY <2>1, <2>2 DEF c
<1>. QED
  BY <1>2, <1>5 DEF p, q, pq

LEMMA PairIs ==
  ASSUME NEW T, NEW x \in T, NEW y \in T
  PROVE  /\ <<x, y>> \in Seq(T) /\ Len(<<x, y>>) = 2 /\ <<x, y>>[1] = x /\ <<x, y>>[2] = y
         /\ <<x>> \in Seq(T) /\ Len(<<x>>) = 1 /\ <<x>>[1] = x
  OBVIOUS

\* Their parts.
LEMMA ShortParts ==
  ASSUME NEW x, NEW y
  PROVE  /\ SubSeq(<<>>, 1, 0) = <<>>
         /\ SubSeq(<<x>>, 1, 0) = <<>> /\ SubSeq(<<x>>, 2, 1) = <<>> /\ SubSeq(<<x>>, 1, 1) = <<x>>
         /\ SubSeq(<<x, y>>, 1, 0) = <<>> /\ SubSeq(<<x, y>>, 2, 2) = <<y>>
         /\ SubSeq(<<x, y>>, 1, 1) = <<x>> /\ SubSeq(<<x, y>>, 3, 2) = <<>>
<1>1. ASSUME NEW c, NEW T, NEW m \in Nat, c[m] \in T PROVE SubSeq(c, m, m) = <<c[m]>>
  <2>. DEFINE d == SubSeq(c, m, m)
  <2>1. /\ d \in Seq(T) /\ Len(d) = 1 /\ d[1] = c[m]
    <3>1. m \in Int /\ m <= m /\ m - m + 1 = 1 /\ m + 1 - 1 = m /\ \A i \in m..m : c[i] \in T
      BY <1>1
    <3>2. /\ d \in Seq(T) /\ Len(d) = IF m <= m THEN m - m + 1 ELSE 0
          /\ \A i \in 1..(m - m + 1) : d[i] = c[m + i - 1]
      BY <3>1, SubSeqProperties
    <3>. HIDE DEF d
    <3>3. 1 \in 1..(m - m + 1)
      BY <3>1
    <3>4. d[1] = c[m + 1 - 1]
      BY <3>2, <3>3
    <3>. QED
      BY <3>1, <3>2, <3>4
  <2>. HIDE DEF d
  <2>2. d = <<d[1]>>
    BY <2>1, ShortSequences
  <2>. QED
    BY <2>1, <2>2 DEF d
<1>2. \A c : SubSeq(c, 1, 0) = <<>> /\ SubSeq(c, 2, 1) = <<>> /\ SubSeq(c, 3, 2) = <<>>
  <2>1. 0 \in Int /\ 1 \in Int /\ 2 \in Int /\ 3 \in Int /\ 0 < 1 /\ 1 < 2 /\ 2 < 3
    OBVIOUS
  <2>. QED
    BY <2>1, SubSeqEmpty
<1>3. SubSeq(<<x>>, 1, 1) = <<x>>
  <2>1. <<x>>[1] \in {x} /\ <<x>>[1] = x /\ 1 \in Nat
    OBVIOUS
  <2>2. SubSeq(<<x>>, 1, 1) = <<(<<x>>[1])>>
    BY <1>1, <2>1
  <2>. QED
    BY <2>1, <2>2
<1>4. SubSeq(<<x, y>>, 1, 1) = <<x>> /\ SubSeq(<<x, y>>, 2, 2) = <<y>>
  <2>. DEFINE c == <<x, y>>
              T == {x, y}
  <2>1. c[1] \in T /\ c[1] = x /\ c[2] \in T /\ c[2] = y /\ 1 \in Nat /\ 2 \in Nat
    OBVIOUS
  <2>. HIDE DEF c, T
  <2>2. SubSeq(c, 1, 1) = <<c[1]>> /\ SubSeq(c, 2, 2) = <<c[2]>>
    BY <1>1, <2>1
  <2>. QED
    BY <2>1, <2>2 DEF c
<1>. QED
  BY <1>2, <1>3, <1>4

LEMMA FirstTimerIs ==
  ASSUME TimeoutsFit, NEW a \in Actor, Len(mTimeouts[a]) <= 1
  PROVE  /\ FirstTimer(a).subsequent = 0
         /\ mTimeouts[a] = <<>> => FirstTimer(a).current = 0
         /\ mTimeouts[a] # <<>> =>
              mTimeouts[a] = <<FirstTimer(a).current>> /\ FirstTimer(a).current \in 1..Len(timeouts)
<1>. DEFINE own == mTimeouts[a]
<1>1. own \in Seq(1..Len(timeouts)) /\ Len(own) \in Nat
  BY DEF TimeoutsFit
<1>. HIDE DEF own
<1>0. Len(own) <= 1
  BY DEF own
<1>2. CASE own = <<>>
  <2>1. FirstTimer(a) = TimerAt(<<>>, 0)
    BY <1>2 DEF FirstTimer, own
  <2>2. {k \in DOMAIN <<>> : k > 1 /\ <<>>[k - 1] = 0} = {}
    OBVIOUS
  <2>. QED
    BY <1>2, <2>1, <2>2 DEF TimerAt, Following, own
<1>3. CASE own # <<>>
  <2>. DEFINE t == own[1]
  <2>1. Len(own) = 1 /\ t \in 1..Len(timeouts) /\ own = <<t>> /\ Head(own) = t
    <3>1. Len(own) = 1
      <4>1. Len(own) # 0
        BY <1>1, <1>3, ShortSequences
      <4>. QED
        BY <1>0, <1>1, <4>1, AtMostOne
    <3>. QED
      BY <1>1, <3>1, ShortSequences
  <2>2. DOMAIN own = 1..1
    BY <1>1, <2>1
  <2>3. {k \in DOMAIN own : k > 1 /\ own[k - 1] = t} = {}
    BY <2>2
  <2>4. FirstTimer(a) = TimerAt(own, t)
    BY <1>3, <2>1 DEF FirstTimer, own
  <2>. HIDE DEF t
  <2>5. FirstTimer(a).current = t /\ FirstTimer(a).subsequent = 0
    BY <2>3, <2>4 DEF TimerAt, Following
  <2>. QED
    BY <1>3, <2>1, <2>5 DEF own
<1>. QED
  BY <1>2, <1>3

\* The loop over the timeouts of a due waiting actor begins.
LEMMA WaitTimersKeeps ==
  ASSUME IInv, WaitTimers
  PROVE  IInv'
<1>. DEFINE a == iterator.current
<1>1. /\ UNCHANGED <<links, mActive, queues, timing, running, iterator, mail, wake,
                     events, mMilliseconds, now>>
      /\ UNCHANGED <<mTimeouts, timeouts>> /\ running = Null
      /\ pc = "wait" /\ pc' = "waitTimers" /\ a # Null /\ timer' = FirstTimer(a)
      /\ Due(a)
  BY DEF WaitTimers, EnterTimers, timing, IInv, Whereabouts
<1>2. iterator = FirstTwo(Waiting(links)) /\ a \in Actor /\ Waiting(links)[1] = a
      /\ 1 \in 1..Len(Waiting(links))
  <2>1. iterator = FirstTwo(Waiting(links))
    BY <1>1 DEF IInv, Whereabouts
  <2>. QED
    BY <1>1, <2>1, Begins DEF FirstTwo, Nth
<1>3. mTimeouts[a] # <<>> /\ Len(mTimeouts[a]) <= 1
  <2>1. Times[a] # 0
    BY <1>1, <1>2 DEF IInv, ListsFit, Fit, Spared
  <2>2. Len(mTimeouts[a]) <= 1
    BY <1>1, <1>2 DEF IInv, TimeoutsFit, InTimers
  <2>. QED
    BY <1>2, <2>1, <2>2, TimesAre DEF IInv
<1>4. /\ timer'.subsequent = 0 /\ timer'.current \in 1..Len(timeouts)
      /\ mTimeouts[a] = <<timer'.current>>
  BY <1>1, <1>2, <1>3, FirstTimerIs DEF IInv
<1>5. ListsFit' /\ MailFits' /\ FirstInFirstHandled'
  BY <1>1, OnlyMoves DEF Spared, Handling
<1>6. TimeoutsFit'
  <2>1. TimerDue'
    <3>1. Head(mTimeouts[a]) = timer'.current
      BY <1>4
    <3>2. TimeOf(timer'.current) <= mMilliseconds
      BY <1>1, <1>3, <3>1 DEF Due, nextTimeoutMilliseconds
    <3>. QED
      BY <1>1, <1>4, <3>2 DEF TimerDue, TimeOf
  <2>2. timer'.current # 0
    BY <1>4
  <2>3. TimerAtWork'
    BY <1>1, <1>4, <2>1, <2>2 DEF TimerAtWork
  <2>. HIDE DEF a
  <2>4. \A b \in Actor : Len(mTimeouts[b]) <= 1
    BY <1>1 DEF IInv, TimeoutsFit, InTimers
  <2>. QED
    BY <1>1, <2>3, <2>4 DEF IInv, TimeoutsFit
<1>7. Whereabouts'
  BY <1>1, <1>2, SameLists DEF IInv, Whereabouts, Location
<1>8. MailAtWork' /\ NoOversleeping'
  BY <1>1 DEF MailAtWork, NoOversleeping
<1>. QED
  BY <1>5, <1>6, <1>7, <1>8 DEF IInv

\* The loop over the timeouts of an active actor begins.
LEMMA ActiveTimersKeeps ==
  ASSUME IInv, ActiveTimers
  PROVE  IInv'
<1>. DEFINE a == iterator.current
<1>1. /\ UNCHANGED <<links, mActive, queues, timing, running, iterator, mail, wake,
                     events, mMilliseconds, now>>
      /\ UNCHANGED <<mTimeouts, timeouts>> /\ running = Null
      /\ pc = "active" /\ pc' = "activeTimers" /\ a # Null /\ timer' = FirstTimer(a)
  BY DEF ActiveTimers, EnterTimers, timing, IInv, Whereabouts
<1>2. iterator = FirstTwo(Loop) /\ a \in Actor
  <2>1. iterator = FirstTwo(Loop)
    BY <1>1 DEF IInv, Whereabouts
  <2>. QED
    BY <1>1, <2>1, Begins
<1>3. \A b \in Actor : Len(mTimeouts[b]) <= 1
  BY <1>1 DEF IInv, TimeoutsFit, InTimers
<1>4. /\ timer'.subsequent = 0
      /\ mTimeouts[a] = <<>> => timer'.current = 0
      /\ mTimeouts[a] # <<>> => mTimeouts[a] = <<timer'.current>> /\ timer'.current \in 1..Len(timeouts)
  BY <1>1, <1>2, <1>3, FirstTimerIs DEF IInv
<1>5. ListsFit' /\ MailFits' /\ FirstInFirstHandled'
  BY <1>1, OnlyMoves DEF Spared, Handling
<1>6. TimeoutsFit'
  <2>1. timer'.current # 0 => mTimeouts[a] = <<timer'.current>>
    BY <1>4
  <2>2. TimerAtWork'
    BY <1>1, <1>2, <1>3, <1>4, <2>1 DEF TimerAtWork
  <2>. HIDE DEF a
  <2>. QED
    BY <1>1, <1>3, <2>2 DEF IInv, TimeoutsFit
<1>7. Whereabouts'
  BY <1>1, <1>2, SameLists DEF IInv, Whereabouts, Location
<1>8. MailAtWork' /\ NoOversleeping'
  BY <1>1 DEF MailAtWork, NoOversleeping
<1>. QED
  BY <1>5, <1>6, <1>7, <1>8 DEF IInv

LEMMA FireTimerKeeps ==
  ASSUME IInv, FireTimer
  PROVE  IInv'
<1>1. /\ UNCHANGED <<links, mActive, queues, mTimeouts, timeouts, pc, iterator, timer,
                     mail, wake, events, mMilliseconds, now>>
      /\ InTimers /\ running = Null /\ TimerDue /\ running' = iterator.current
  BY DEF FireTimer
<1>2. iterator.current \in Actor /\ running' # Null /\ InTimers'
  BY <1>1, NotASentinel DEF IInv, Whereabouts, InTimers
<1>3. ListsFit' /\ MailFits' /\ FirstInFirstHandled'
  BY <1>1, OnlyMoves DEF Spared, Handling, InTimers
<1>4. TimeoutsFit'
  <2>. DEFINE own == mTimeouts[iterator.current]
  <2>1. own = <<timer.current>> /\ timer.subsequent = 0
    BY <1>1 DEF IInv, TimeoutsFit, TimerAtWork, TimerDue
  <2>2. Len(own) = 1 /\ own[1] = timer.current /\ 1 \in 1..Len(own)
    BY <2>1
  <2>. HIDE DEF own
  <2>3. TimerAtWork'
    BY <1>1, <1>2, <2>1, <2>2 DEF TimerAtWork, own
  <2>. QED
    BY <1>1, <2>3 DEF IInv, TimeoutsFit, InTimers
<1>5. Whereabouts'
  BY <1>1, <1>2, SameLists DEF IInv, Whereabouts, Location, InTimers
<1>6. MailAtWork' /\ NoOversleeping'
  BY <1>1 DEF MailAtWork, NoOversleeping, InTimers
<1>. QED
  BY <1>3, <1>4, <1>5, <1>6 DEF IInv

\* A timeout leaves the one or two of its actor.
LEMMA TimeoutLeaves ==
  ASSUME NEW T, NEW c \in Seq(T), Len(c) \in {1, 2}, Len(c) = 2 => c[1] # c[2],
         NEW j \in 1..Len(c), NEW d, d = S!RemoveFirst(c, c[j])
  PROVE  /\ Len(c) = 1 => d = <<>>
         /\ Len(c) = 2 => d = <<c[3 - j]>> /\ c[3 - j] \in T
<1>. DEFINE places == {i \in 1..Len(c) : c[i] = c[j]}
<1>1. places = {j}
  OBVIOUS
<1>2. S!SelectInSeq(c, LAMBDA v : v = c[j]) = IF places # {} THEN S!Min(places) ELSE 0
  BY DEF S!SelectInSeq
<1>3. S!Min({j}) = j
  BY DEF S!Min
<1>4. d = S!RemoveAt(c, S!SelectInSeq(c, LAMBDA v : v = c[j]))
  BY SMTT(60) DEF S!RemoveFirst
<1>. HIDE DEF places
<1>5. d = SubSeq(c, 1, j - 1) \o SubSeq(c, j + 1, Len(c))
  BY <1>1, <1>2, <1>3, <1>4 DEF S!RemoveAt
<1>6. CASE Len(c) = 1
  <2>1. c = <<c[1]>> /\ j = 1
    BY <1>6, ShortSequences
  <2>2. SubSeq(c, 1, 0) = <<>> /\ SubSeq(c, 2, 1) = <<>>
    BY <2>1, ShortParts
  <2>. QED
    BY <1>5, <1>6, <2>1, <2>2, JoinedShort
<1>7. CASE Len(c) = 2
  <2>1. c = <<c[1], c[2]>> /\ c[1] \in T /\ c[2] \in T /\ j \in {1, 2}
    BY <1>7, ShortSequences
  <2>. DEFINE x == c[1]
              y == c[2]
  <2>2. c = <<x, y>>
    BY <2>1
  <2>. HIDE DEF x, y
  <2>3. /\ SubSeq(c, 1, 0) = <<>> /\ SubSeq(c, 2, 2) = <<y>>
        /\ SubSeq(c, 1, 1) = <<x>> /\ SubSeq(c, 3, 2) = <<>>
    BY <2>2, ShortParts
  <2>4. CASE j = 1
    <3>0. j - 1 = 0 /\ j + 1 = 2 /\ 3 - j = 2
      BY <2>4
    <3>1. d = <<>> \o <<y>>
      BY <1>5, <1>7, <2>3, <3>0
    <3>. QED
      BY <1>7, <2>1, <3>0, <3>1, JoinedShort DEF y
  <2>5. CASE j = 2
    <3>0. j - 1 = 1 /\ j + 1 = 3 /\ 3 - j = 1
      BY <2>5
    <3>1. d = <<x>> \o <<>>
      BY <1>5, <1>7, <2>3, <3>0
    <3>. QED
      BY <1>7, <2>1, <3>0, <3>1, JoinedShort DEF x
  <2>. QED
    BY <2>1, <2>4, <2>5
<1>. QED
  BY <1>6, <1>7

\* Only the time of actor a may differ.
Retimed(new, times, a) == \A b \in Actor : b # a => new[b] = times[b]

\* The lists still fit when the times of one actor change: one that is active,
\* or the first waiting one, which has no timeouts left.
LEMMA FitRetimed ==
  ASSUME NEW ls, NEW active, NEW times, NEW spared, Fit(ls, active, times, spared),
         NEW a \in Actor, NEW new \in [Actor -> Nat],
         Retimed(new, times, a),
         active[a] \/ (new[a] = 0 /\ a = spared /\ a = Nth(Waiting(ls), 1))
  PROVE  Fit(ls, active, new, spared)
<1>. DEFINE w == Waiting(ls)
<1>1. /\ Sound(ls) /\ Shown(ls, Contents(ls))
      /\ active \in [Actor -> BOOLEAN]
      /\ \A b \in Actor : active[b] <=> ScheduledIn(ls, b)
      /\ \A b \in Actor : times[b] # 0 => active[b] \/ Has(w, b)
      /\ \A k \in 1..Len(w) : times[w[k]] # 0 \/ w[k] = spared
      /\ Ordered(w, times)
      /\ \A b \in Actor : b # a => new[b] = times[b]
  BY DEF Fit, Retimed
<1>2. /\ w \in Seq(Actor) /\ Len(w) \in Nat
      /\ \A j, k \in 1..Len(w) : w[j] = w[k] => j = k
  <2>1. w = Contents(ls)["mWaitingActors"] /\ Shown(ls, Contents(ls)) /\ "mWaitingActors" \in List
    BY <1>1, ListNames DEF Waiting
  <2>2. w \in Seq(Item) /\ \A j, k \in 1..Len(w) : w[j] = w[k] => j = k
    BY <2>1, ContentsFacts
  <2>. QED
    BY <2>2 DEF Actor
<1>3. ASSUME active[a] PROVE \A k \in 1..Len(w) : w[k] # a
  <2>1. ScheduledIn(ls, a)
    BY <1>1, <1>3
  <2>2. ~Has(w, a)
    BY <1>1, <2>1, ListNames, ContentsFacts DEF ScheduledIn, Waiting
  <2>. QED
    BY <2>2 DEF Has
<1>. HIDE DEF w
<1>4. \A k \in 1..Len(w) : w[k] \in Actor
  BY <1>2, ElementOfSeq
<1>5. CASE active[a]
  <2>1. \A k \in 1..Len(w) : new[w[k]] = times[w[k]]
    <3>1. \A k \in 1..Len(w) : w[k] # a
      BY <1>3, <1>5 DEF w
    <3>. QED
      BY <1>1, <1>4, <3>1
  <2>2. Ordered(w, new)
    BY <1>1, <2>1 DEF Ordered
  <2>3. \A b \in Actor : new[b] # 0 => active[b] \/ Has(w, b)
    BY <1>1, <1>5
  <2>. QED
    BY <1>1, <2>1, <2>2, <2>3 DEF Fit, w
<1>6. CASE ~active[a]
  <2>1. new[a] = 0 /\ a = spared /\ a = Nth(w, 1)
    BY <1>6 DEF w
  <2>2. \A k \in 1..Len(w) : w[k] = a => k = 1
    <3>1. 1 \in 1..Len(w) /\ w[1] = a
      BY <2>1, NotASentinel DEF Nth
    <3>. QED
      BY <1>2, <3>1
  <2>3. ASSUME NEW j \in 1..Len(w), NEW k \in 1..Len(w), j < k PROVE new[w[j]] <= new[w[k]]
    <3>0. w[k] # a /\ w[k] \in Actor /\ w[j] \in Actor
      BY <1>2, <1>4, <2>2, <2>3
    <3>1. new[w[k]] = times[w[k]] /\ new[w[k]] \in Nat
      BY <1>1, <3>0
    <3>2. CASE w[j] = a
      BY <2>1, <3>1, <3>2
    <3>3. CASE w[j] # a
      BY <1>1, <1>4, <2>3, <3>1, <3>3 DEF Ordered
    <3>. QED
      BY <3>2, <3>3
  <2>4. \A b \in Actor : new[b] # 0 => active[b] \/ Has(w, b)
    BY <1>1, <2>1
  <2>5. \A k \in 1..Len(w) : new[w[k]] # 0 \/ w[k] = spared
    BY <1>1, <1>4, <2>1
  <2>6. Ordered(w, new)
    BY <2>3 DEF Ordered
  <2>. QED
    BY <1>1, <2>4, <2>5, <2>6 DEF Fit, w
<1>. QED
  BY <1>5, <1>6

\* The times of actors whose timeouts stay.
LEMMA TimesOthers ==
  ASSUME TimeoutsFit, NEW a \in Actor,
         Len(timeouts') >= Len(timeouts), Len(timeouts') \in Nat,
         \A t \in 1..Len(timeouts) : timeouts'[t] = timeouts[t],
         NEW own \in Seq(1..Len(timeouts')), mTimeouts' = [mTimeouts EXCEPT ![a] = own]
  PROVE  /\ \A b \in Actor : b # a => mTimeouts'[b] = mTimeouts[b] /\ Times'[b] = Times[b]
         /\ mTimeouts'[a] = own
         /\ mTimeouts' \in [Actor -> Seq(1..Len(timeouts'))]
<1>1. mTimeouts \in [Actor -> Seq(1..Len(timeouts))] /\ Len(timeouts) \in Nat
  BY DEF TimeoutsFit
<1>2. mTimeouts'[a] = own /\ \A b \in Actor : b # a => mTimeouts'[b] = mTimeouts[b]
  BY <1>1
<1>3. ASSUME NEW b \in Actor PROVE mTimeouts'[b] \in Seq(1..Len(timeouts'))
  <2>. DEFINE old == mTimeouts[b]
  <2>1. old \in Seq(1..Len(timeouts))
    BY <1>1
  <2>2. \A k \in 1..Len(old) : old[k] \in 1..Len(timeouts')
    <3>1. \A k \in 1..Len(old) : old[k] \in 1..Len(timeouts)
      BY <2>1
    <3>. QED
      BY <1>1, <3>1
  <2>. HIDE DEF old
  <2>3. old \in Seq(1..Len(timeouts'))
    BY <2>1, <2>2, SeqDef
  <2>. QED
    BY <1>2, <2>3 DEF old
<1>4. mTimeouts' \in [Actor -> Seq(1..Len(timeouts'))]
  <2>1. DOMAIN mTimeouts' = Actor /\ mTimeouts' = [b \in Actor |-> mTimeouts'[b]]
    BY <1>1
  <2>. QED
    BY <1>3, <2>1
<1>5. ASSUME NEW b \in Actor, b # a PROVE Times'[b] = Times[b]
  <2>1. Times'[b] = nextTimeoutMilliseconds(b)' /\ Times[b] = nextTimeoutMilliseconds(b)
    BY DEF Times
  <2>2. CASE mTimeouts[b] = <<>>
    BY <1>2, <1>5, <2>1, <2>2 DEF nextTimeoutMilliseconds
  <2>3. CASE mTimeouts[b] # <<>>
    <3>1. Head(mTimeouts[b]) \in 1..Len(timeouts)
      BY <1>1, <2>3
    <3>. QED
      BY <1>2, <1>5, <2>1, <2>3, <3>1 DEF nextTimeoutMilliseconds, TimeOf
  <2>. QED
    BY <2>2, <2>3
<1>. QED
  BY <1>2, <1>4, <1>5

\* A handler adds or deletes a timeout of an active actor.
LEMMA TimeoutsChange ==
  ASSUME IInv, NEW a \in Actor, mActive[a], pc \notin {"waitTimers", "poll"},
         UNCHANGED <<links, mActive, queues, position, now>>,
         timeouts' \in Seq([actor : Actor, at : 1..MaxTime]),
         Len(timeouts') >= Len(timeouts),
         \A t \in 1..Len(timeouts) : timeouts'[t] = timeouts[t],
         NEW own \in Seq(1..Len(timeouts')), mTimeouts' = [mTimeouts EXCEPT ![a] = own],
         InTimers => a = iterator.current /\ running # Null
                     /\ (\E k \in 1..Len(own) : own[k] = timer.current)
                     /\ Len(own) \in {1, 2} /\ (Len(own) = 2 => own[1] # own[2]),
         ~InTimers => Len(own) <= 1
  PROVE  IInv'
<1>1. UNCHANGED <<pc, running, iterator, timer, mail, wake, events, mMilliseconds>>
      /\ Spared = Null /\ Spared' = Null
  BY DEF position, Spared
<1>. DEFINE T == [actor : Actor, at : 1..MaxTime]
<1>2. timeouts' \in Seq(T)
  OBVIOUS
<1>. HIDE DEF T
<1>3. Len(timeouts') \in Nat
  BY <1>2
<1>4. /\ \A b \in Actor : b # a => mTimeouts'[b] = mTimeouts[b] /\ Times'[b] = Times[b]
      /\ mTimeouts'[a] = own
      /\ mTimeouts' \in [Actor -> Seq(1..Len(timeouts'))]
  BY <1>3, TimesOthers DEF IInv
<1>5. TimeoutsFit'
  <2>1. \A b \in Actor : (InTimers /\ b = iterator.current) \/ Len(mTimeouts'[b]) <= 1
    BY <1>4 DEF IInv, TimeoutsFit
  <2>2. TimerAtWork'
    <3>1. InTimers' = InTimers /\ pc' # "waitTimers"
      BY <1>1 DEF InTimers
    <3>2. CASE ~InTimers
      BY <3>1, <3>2 DEF TimerAtWork
    <3>3. CASE InTimers
      <4>1. pc' = "activeTimers" /\ a = iterator'.current /\ running' # Null /\ timer'.subsequent = 0
        BY <1>1, <3>3 DEF InTimers, IInv, TimeoutsFit, TimerAtWork
      <4>. QED
        BY <1>1, <1>4, <3>1, <3>3, <4>1 DEF TimerAtWork
    <3>. QED
      BY <3>2, <3>3
  <2>3. now \in Nat /\ mMilliseconds \in Nat /\ mMilliseconds <= now
    BY DEF IInv, TimeoutsFit
  <2>. QED
    BY <1>1, <1>2, <1>4, <2>1, <2>2, <2>3 DEF TimeoutsFit, T, InTimers
<1>6. ListsFit'
  <2>1. Times' \in [Actor -> Nat]
    BY <1>5, TimesTypedNext
  <2>. DEFINE old == Times
              new == Times'
  <2>2. /\ Fit(links, mActive, old, Null) /\ new \in [Actor -> Nat]
        /\ Retimed(new, old, a)
    BY <1>1, <1>4, <2>1 DEF IInv, ListsFit, Retimed
  <2>. HIDE DEF old, new
  <2>3. Fit(links, mActive, new, Null)
    BY <2>2, FitRetimed
  <2>. QED
    BY <1>1, <2>3, ZenonT(60) DEF ListsFit, Fit, Contents, Waiting, ScheduledIn, new
<1>7. MailFits' /\ FirstInFirstHandled'
  <2>1. \A b \in Actor : mIncomingMessages[b] # <<>> => mActive'[b]
    BY DEF IInv, MailFits
  <2>. QED
    BY <1>1, <2>1, MailSame DEF IInv
<1>8. Whereabouts' /\ MailAtWork' /\ NoOversleeping'
  BY <1>1, SameLists DEF IInv, Whereabouts, MailAtWork, queues, NoOversleeping
<1>. QED
  BY <1>5, <1>6, <1>7, <1>8 DEF IInv

\* What a handler finds of its actor's timeouts.
LEMMA OwnTimeouts ==
  ASSUME IInv, NEW a \in Actor
  PROVE  /\ mTimeouts[a] \in Seq(1..Len(timeouts)) /\ Len(mTimeouts[a]) \in Nat
         /\ Len(timeouts) \in Nat
         /\ running = a => pc # "poll" /\ (InTimers => a = iterator.current)
         /\ InTimers /\ running = a =>
              /\ \E k \in 1..Len(mTimeouts[a]) : mTimeouts[a][k] = timer.current
              /\ \/ Len(mTimeouts[a]) = 1
                 \/ pc = "activeTimers" /\ Len(mTimeouts[a]) = 2 /\ mTimeouts[a][1] # mTimeouts[a][2]
         /\ ~InTimers => Len(mTimeouts[a]) <= 1
<1>1. mTimeouts[a] \in Seq(1..Len(timeouts)) /\ Len(mTimeouts[a]) \in Nat
  BY DEF IInv, TimeoutsFit
<1>2. Len(timeouts) \in Nat
  <2>. DEFINE T == [actor : Actor, at : 1..MaxTime]
  <2>1. timeouts \in Seq(T)
    BY DEF IInv, TimeoutsFit
  <2>. HIDE DEF T
  <2>. QED
    BY <2>1
<1>3. running = a => pc # "poll" /\ (InTimers => a = iterator.current)
  BY NotASentinel DEF IInv, Whereabouts, InTimers
<1>4. ~InTimers => Len(mTimeouts[a]) <= 1
  BY DEF IInv, TimeoutsFit
<1>5. ASSUME InTimers, running = a
      PROVE  /\ \E k \in 1..Len(mTimeouts[a]) : mTimeouts[a][k] = timer.current
             /\ \/ Len(mTimeouts[a]) = 1
                \/ pc = "activeTimers" /\ Len(mTimeouts[a]) = 2 /\ mTimeouts[a][1] # mTimeouts[a][2]
  <2>1. running # Null /\ a = iterator.current /\ TimerAtWork
    BY <1>3, <1>5, NotASentinel DEF IInv, TimeoutsFit
  <2>. QED
    BY <1>5, <2>1 DEF TimerAtWork
<1>. QED
  BY <1>1, <1>2, <1>3, <1>4, <1>5

\* A sequence of one, with another put in before or behind it.
LEMMA TimeoutComes ==
  ASSUME NEW T, NEW c \in Seq(T), Len(c) <= 1, NEW u \in T, NEW at,
         NEW d, d = Inserted(c, u, at)
  PROVE  /\ d \in Seq(T) /\ Len(d) = Len(c) + 1
         /\ \E k \in 1..Len(d) : d[k] = u
         /\ Len(c) = 1 => \E k \in 1..Len(d) : d[k] = c[1] /\ d[3 - k] = u
<1>. DEFINE later == {k \in DOMAIN c : at < TimeOf(c[k])}
            place == IF later = {} THEN Len(c) + 1 ELSE F!Min(later)
<1>1. d = SubSeq(c, 1, place - 1) \o <<u>> \o SubSeq(c, place, Len(c))
  BY DEF Inserted, S!InsertAt
<1>2. Len(c) \in Nat /\ DOMAIN c = 1..Len(c)
  OBVIOUS
<1>3. CASE Len(c) = 0
  <2>1. later = {} /\ place = 1
    BY <1>2, <1>3
  <2>2. c = <<>>
    BY <1>3, ShortSequences
  <2>3. SubSeq(c, 1, 0) = <<>>
    BY <2>2, ShortParts
  <2>. HIDE DEF later, place
  <2>0. place - 1 = 0
    BY <2>1
  <2>4. d = (<<>> \o <<u>>) \o <<>>
    BY <1>1, <1>3, <2>0, <2>1, <2>3
  <2>5. d = <<u>>
    BY <2>4, JoinedShort
  <2>6. d \in Seq(T) /\ Len(d) = 1 /\ d[1] = u /\ 1 \in 1..Len(d)
    BY <2>5
  <2>. QED
    BY <1>3, <2>6
<1>4. CASE Len(c) = 1
  <2>1. later \subseteq {1}
    BY <1>2, <1>4
  <2>2. F!Min({1}) = 1
    BY DEF F!Min
  <2>3. place \in {1, 2}
    <3>. HIDE DEF later
    <3>1. later = {} \/ later = {1}
      BY <2>1
    <3>2. later = {1} => F!Min(later) = 1
      BY <2>2
    <3>3. later = {} => place = 2
      BY <1>4
    <3>4. later = {1} => place = 1
      <4>1. {1} # {}
        OBVIOUS
      <4>. QED
        BY <3>2, <4>1
    <3>. QED
      BY <3>1, <3>3, <3>4
  <2>. DEFINE x == c[1]
  <2>4. c = <<x>> /\ x \in T
    BY <1>4, ShortSequences
  <2>. HIDE DEF later, place, x
  <2>5. /\ SubSeq(c, 1, 0) = <<>> /\ SubSeq(c, 2, 1) = <<>> /\ SubSeq(c, 1, 1) = <<x>>
    BY <2>4, ShortParts
  <2>6. CASE place = 1
    <3>0. place - 1 = 0
      BY <2>6
    <3>01. SubSeq(c, place, Len(c)) = <<x>>
      BY <1>4, <2>5, <2>6
    <3>1. d = (<<>> \o <<u>>) \o <<x>>
      BY <1>1, <2>5, <3>0, <3>01
    <3>2. d = <<u, x>>
      BY <3>1, JoinedShort
    <3>3. d \in Seq(T) /\ Len(d) = 2 /\ d[1] = u /\ d[2] = x /\ 1 \in 1..Len(d) /\ 2 \in 1..Len(d)
      <4>1. d \in Seq(T) /\ Len(d) = 2 /\ d[1] = u /\ d[2] = x
        <5>1. /\ <<u, x>> \in Seq(T) /\ Len(<<u, x>>) = 2 /\ <<u, x>>[1] = u /\ <<u, x>>[2] = x
          BY <2>4, PairIs
        <5>. QED
          BY <3>2, <5>1, Zenon
      <4>. QED
        BY <4>1
    <3>4. d[2] = x /\ d[3 - 2] = u
      BY <3>3
    <3>. QED
      BY <1>4, <3>3, <3>4 DEF x
  <2>7. CASE place = 2
    <3>0. place - 1 = 1
      BY <2>7
    <3>01. SubSeq(c, place, Len(c)) = <<>>
      BY <1>4, <2>5, <2>7
    <3>1. d = (<<x>> \o <<u>>) \o <<>>
      BY <1>1, <2>5, <3>0, <3>01
    <3>2. d = <<x, u>>
      BY <3>1, JoinedShort
    <3>3. d \in Seq(T) /\ Len(d) = 2 /\ d[2] = u /\ d[1] = x /\ 1 \in 1..Len(d) /\ 2 \in 1..Len(d)
      <4>1. d \in Seq(T) /\ Len(d) = 2 /\ d[2] = u /\ d[1] = x
        <5>1. /\ <<x, u>> \in Seq(T) /\ Len(<<x, u>>) = 2 /\ <<x, u>>[1] = x /\ <<x, u>>[2] = u
          BY <2>4, PairIs
        <5>. QED
          BY <3>2, <5>1, Zenon
      <4>. QED
        BY <4>1
    <3>4. d[1] = x /\ d[3 - 1] = u
      BY <3>3
    <3>. QED
      BY <1>4, <3>3, <3>4 DEF x
  <2>. QED
    BY <2>3, <2>6, <2>7
<1>. QED
  BY <1>2, <1>3, <1>4

LEMMA AddTimeoutKeeps ==
  ASSUME IInv, RulesKept, NEW a \in Actor, NEW at \in 1..MaxTime, addTimeout(a, at)
  PROVE  IInv'
<1>. DEFINE own == mTimeouts[a]
            u == Len(timeouts) + 1
            more == Inserted(own, u, at)
            T == [actor : Actor, at : 1..MaxTime]
<1>1. /\ timeouts' = Append(timeouts, [actor |-> a, at |-> at])
      /\ mTimeouts' = [mTimeouts EXCEPT ![a] = Inserted(@, Len(timeouts'), at)]
      /\ UNCHANGED <<links, mActive, queues, over, position, now>>
      /\ running = a \/ pc = "setup"
      /\ Pending(a) = {} /\ pc # "waitTimers" /\ mActive[a]
  BY DEF addTimeout, CodeOf, MayAdd, RulesKept
<1>2. timeouts \in Seq(T) /\ [actor |-> a, at |-> at] \in T
  BY DEF IInv, TimeoutsFit
<1>3. /\ timeouts' \in Seq(T) /\ Len(timeouts') = u /\ Len(timeouts) \in Nat
      /\ \A t \in 1..Len(timeouts) : timeouts'[t] = timeouts[t]
  <2>. HIDE DEF T
  <2>. QED
    BY <1>1, <1>2
<1>4. mTimeouts' = [mTimeouts EXCEPT ![a] = more]
  <2>1. mTimeouts \in [Actor -> Seq(1..Len(timeouts))]
    BY DEF IInv, TimeoutsFit
  <2>. QED
    BY <1>1, <1>3, <2>1
<1>5. own \in Seq(1..Len(timeouts)) /\ Len(own) \in Nat
  BY OwnTimeouts
<1>6. ASSUME NEW k \in 1..Len(own) PROVE InTimers /\ own[k] = timer.current
  <2>1. own[k] \in S!ToSet(own)
    BY <1>5 DEF S!ToSet
  <2>. QED
    BY <1>1, <2>1 DEF Pending
<1>7. pc # "poll" /\ (InTimers => running = a /\ a = iterator.current /\ running # Null)
  BY <1>1, OwnTimeouts, NotASentinel DEF InTimers
<1>8. Len(own) <= 1 /\ (~InTimers => own = <<>>)
      /\ (InTimers => Len(own) = 1 /\ own[1] = timer.current)
  <2>1. CASE InTimers
    <3>1. running = a
      BY <1>7, <2>1
    <3>2. Len(own) = 1 \/ (Len(own) = 2 /\ own[1] # own[2])
      BY <2>1, <3>1, OwnTimeouts
    <3>3. Len(own) = 1 \/ (Len(own) = 2 /\ own[1] # own[2] /\ 1 \in 1..Len(own) /\ 2 \in 1..Len(own))
      BY <3>2
    <3>4. Len(own) = 1
      BY <1>6, <3>3
    <3>5. 1 \in 1..Len(own)
      BY <3>4
    <3>. QED
      BY <1>6, <2>1, <3>4, <3>5
  <2>2. CASE ~InTimers
    <3>1. ~(1 \in 1..Len(own))
      BY <1>6, <2>2
    <3>2. own = <<>>
      BY <1>5, <3>1
    <3>. QED
      BY <2>2, <3>2
  <2>. QED
    BY <2>1, <2>2
<1>9. own \in Seq(1..u) /\ u \in 1..u
  <2>1. u \in 1..u /\ 1..Len(timeouts) \subseteq 1..u
    BY <1>3
  <2>. HIDE DEF own, u
  <2>. QED
    BY <1>5, <2>1, SeqMonotonic
<1>. HIDE DEF own
<1>10. /\ more \in Seq(1..u) /\ Len(more) = Len(own) + 1
       /\ \E k \in 1..Len(more) : more[k] = u
       /\ Len(own) = 1 => \E k \in 1..Len(more) : more[k] = own[1] /\ more[3 - k] = u
  <2>. DEFINE N == 1..u
  <2>. HIDE DEF more, u
  <2>1. more = Inserted(own, u, at) /\ own \in Seq(N) /\ Len(own) <= 1 /\ u \in N
    BY <1>8, <1>9 DEF more
  <2>. HIDE DEF N
  <2>2. /\ more \in Seq(N) /\ Len(more) = Len(own) + 1
        /\ \E k \in 1..Len(more) : more[k] = u
        /\ Len(own) = 1 => \E k \in 1..Len(more) : more[k] = own[1] /\ more[3 - k] = u
    BY <2>1, TimeoutComes, SMTT(60)
  <2>. QED
    BY <2>2 DEF N
<1>. HIDE DEF more
<1>11. ASSUME InTimers
       PROVE  /\ \E k \in 1..Len(more) : more[k] = timer.current
              /\ Len(more) = 2 /\ more[1] # more[2]
  <2>1. Len(own) = 1 /\ own[1] = timer.current /\ Len(more) = Len(own) + 1
    BY <1>8, <1>10, <1>11
  <2>0. Len(more) = 2
    BY <2>1
  <2>2. PICK k \in 1..Len(more) : more[k] = timer.current /\ more[3 - k] = u
    BY <1>8, <1>10, <1>11
  <2>3. own[1] \in 1..Len(timeouts)
    BY <1>5, <2>1, ShortSequences
  <2>4. timer.current # u
    BY <1>3, <2>1, <2>3
  <2>5. k \in {1, 2} /\ (k = 1 => 3 - k = 2) /\ (k = 2 => 3 - k = 1)
    BY <2>0
  <2>. QED
    BY <2>0, <2>2, <2>4, <2>5
<1>12. ~InTimers => Len(more) <= 1
  BY <1>5, <1>8, <1>10
<1>13. Len(timeouts') >= Len(timeouts) /\ more \in Seq(1..Len(timeouts'))
  BY <1>3, <1>10
<1>14. InTimers => a = iterator.current /\ running # Null
                   /\ (\E k \in 1..Len(more) : more[k] = timer.current)
                   /\ Len(more) \in {1, 2} /\ (Len(more) = 2 => more[1] # more[2])
  BY <1>7, <1>11
<1>15. pc \notin {"waitTimers", "poll"}
  BY <1>1, <1>7
<1>16. /\ mActive[a]
       /\ UNCHANGED <<links, mActive, queues, position, now>>
       /\ timeouts' \in Seq([actor : Actor, at : 1..MaxTime])
       /\ \A t \in 1..Len(timeouts) : timeouts'[t] = timeouts[t]
  BY <1>1, <1>3
<1>. HIDE DEF u, T
<1>. QED
  BY <1>4, <1>12, <1>13, <1>14, <1>15, <1>16, TimeoutsChange

LEMMA DeleteTimeoutKeeps ==
  ASSUME IInv, RulesKept, NEW a \in Actor, NEW t, deleteTimeout(a, t)
  PROVE  IInv'
<1>. DEFINE own == mTimeouts[a]
            rest == S!RemoveFirst(own, t)
<1>1. /\ running = a \/ pc = "setup"
      /\ mActive[a]
      /\ t \in S!ToSet(own)
      /\ InTimers => t # timer.current
      /\ mTimeouts' = [mTimeouts EXCEPT ![a] = S!RemoveFirst(@, t)]
      /\ UNCHANGED <<links, mActive, queues, timeouts, position, now>>
  BY DEF deleteTimeout, CodeOf, MayDelete, RulesKept
<1>2. mTimeouts' = [mTimeouts EXCEPT ![a] = rest]
  BY <1>1 DEF IInv, TimeoutsFit
<1>3. /\ own \in Seq(1..Len(timeouts)) /\ Len(own) \in Nat /\ Len(timeouts) \in Nat
      /\ pc # "poll" /\ (InTimers => a = iterator.current /\ running # Null)
      /\ InTimers => 
           /\ \E k \in 1..Len(own) : own[k] = timer.current
           /\ \/ Len(own) = 1
              \/ pc = "activeTimers" /\ Len(own) = 2 /\ own[1] # own[2]
      /\ ~InTimers => Len(own) <= 1
  <2>1. pc = "setup" => ~InTimers /\ pc # "poll"
    BY DEF InTimers
  <2>. QED
    BY <1>1, <2>1, OwnTimeouts, NotASentinel
<1>. HIDE DEF own
<1>4. PICK j \in 1..Len(own) : own[j] = t
  BY <1>1, <1>3 DEF S!ToSet
<1>5. CASE InTimers
  <2>1. PICK k \in 1..Len(own) : own[k] = timer.current
    BY <1>3, <1>5
  <2>2. k # j
    BY <1>1, <1>4, <1>5, <2>1
  <2>3. Len(own) = 2 /\ own[1] # own[2] /\ pc = "activeTimers" /\ k = 3 - j
    <3>1. Len(own) # 1
      <4>1. j \in 1..Len(own) /\ k \in 1..Len(own)
        OBVIOUS
      <4>2. Len(own) = 1 => j = 1 /\ k = 1
        BY <4>1, SMT
      <4>. QED
        BY <2>2, <4>2
    <3>2. Len(own) = 2 /\ own[1] # own[2] /\ pc = "activeTimers"
      BY <1>3, <1>5, <3>1
    <3>3. j \in 1..2 /\ k \in 1..2
      BY <3>2
    <3>4. k = 3 - j
      BY <2>2, <3>3
    <3>. QED
      BY <3>2, <3>4
  <2>4. rest = <<own[3 - j]>>
    <3>1. rest = S!RemoveFirst(own, own[j]) /\ Len(own) \in {1, 2}
      BY <1>4, <2>3
    <3>. QED
      BY <1>3, <2>3, <3>1, TimeoutLeaves
  <2>. HIDE DEF rest
  <2>5. rest = <<timer.current>> /\ timer.current \in 1..Len(timeouts)
    <3>1. own[k] \in 1..Len(timeouts)
      BY <1>3, ElementOfSeq
    <3>. QED
      BY <2>1, <2>3, <2>4, <3>1
  <2>6. Len(rest) = 1 /\ rest[1] = timer.current /\ rest \in Seq(1..Len(timeouts))
    BY <2>5, PairIs
  <2>7. \E m \in 1..Len(rest) : rest[m] = timer.current
    BY <2>6
  <2>8. timeouts' \in Seq([actor : Actor, at : 1..MaxTime])
    BY <1>1 DEF IInv, TimeoutsFit
  <2>9. InTimers => a = iterator.current /\ running # Null
                    /\ (\E m \in 1..Len(rest) : rest[m] = timer.current)
                    /\ Len(rest) \in {1, 2} /\ (Len(rest) = 2 => rest[1] # rest[2])
    BY <1>3, <2>6, <2>7
  <2>10. /\ pc \notin {"waitTimers", "poll"} /\ (~InTimers => Len(rest) <= 1)
         /\ Len(timeouts') >= Len(timeouts) /\ rest \in Seq(1..Len(timeouts'))
         /\ \A m \in 1..Len(timeouts) : timeouts'[m] = timeouts[m]
    BY <1>1, <1>3, <2>3, <2>6
  <2>. QED
    BY <1>1, <1>2, <2>8, <2>9, <2>10, TimeoutsChange, ZenonT(60)
<1>6. CASE ~InTimers
  <2>1. Len(own) = 1
    <3>1. Len(own) <= 1 /\ Len(own) \in Nat /\ Len(own) # 0
      BY <1>3, <1>6
    <3>. QED
      BY <3>1, AtMostOne
  <2>2. rest = <<>>
    <3>. DEFINE N == 1..Len(timeouts)
    <3>1. rest = S!RemoveFirst(own, own[j]) /\ Len(own) \in {1, 2} /\ (Len(own) = 2 => own[1] # own[2])
      BY <1>4, <2>1
    <3>2. own \in Seq(N)
      BY <1>3
    <3>. HIDE DEF rest, N
    <3>. QED
      BY <2>1, <3>1, <3>2, TimeoutLeaves
  <2>. HIDE DEF rest
  <2>3. Len(rest) = 0 /\ rest \in Seq(1..Len(timeouts))
    BY <2>2
  <2>4. timeouts' \in Seq([actor : Actor, at : 1..MaxTime])
    BY <1>1 DEF IInv, TimeoutsFit
  <2>5. pc # "waitTimers"
    BY <1>6 DEF InTimers
  <2>6. /\ pc \notin {"waitTimers", "poll"} /\ Len(rest) <= 1
        /\ Len(timeouts') >= Len(timeouts) /\ rest \in Seq(1..Len(timeouts'))
        /\ \A m \in 1..Len(timeouts) : timeouts'[m] = timeouts[m]
    BY <1>1, <1>3, <2>3, <2>5
  <2>. QED
    BY <1>1, <1>2, <1>6, <2>4, <2>6, TimeoutsChange
<1>. QED
  BY <1>5, <1>6

LEMMA TimerReturnsKeeps ==
  ASSUME IInv, TimerReturns
  PROVE  IInv'
<1>. DEFINE a == iterator.current
            own == mTimeouts[a]
            rest == S!RemoveFirst(own, timer.current)
<1>1. /\ InTimers /\ running = a /\ a \in Actor /\ running # Null /\ timer.subsequent = 0
  BY NotASentinel DEF TimerReturns, IInv, Whereabouts, InTimers, TimeoutsFit, TimerAtWork
<1>2. /\ mTimeouts' = [mTimeouts EXCEPT ![a] = rest]
      /\ timer' = TimerAt(rest, 0)
      /\ running' = Null
      /\ UNCHANGED <<links, mActive, queues, timeouts, over, pc, iterator, mail, wake,
                     events, mMilliseconds, now>>
  BY <1>1 DEF TimerReturns
<1>3. /\ own \in Seq(1..Len(timeouts)) /\ Len(own) \in Nat /\ Len(timeouts) \in Nat
      /\ \E k \in 1..Len(own) : own[k] = timer.current
      /\ \/ Len(own) = 1
         \/ pc = "activeTimers" /\ Len(own) = 2 /\ own[1] # own[2]
  BY <1>1, OwnTimeouts
<1>. HIDE DEF own
<1>4. PICK j \in 1..Len(own) : own[j] = timer.current
  BY <1>3
<1>5. /\ rest \in Seq(1..Len(timeouts)) /\ Len(rest) <= 1
      /\ pc = "waitTimers" => rest = <<>>
  <2>1. rest = S!RemoveFirst(own, own[j]) /\ Len(own) \in {1, 2} /\ (Len(own) = 2 => own[1] # own[2])
    BY <1>3, <1>4
  <2>. HIDE DEF rest
  <2>2. /\ Len(own) = 1 => rest = <<>>
        /\ Len(own) = 2 => rest = <<own[3 - j]>> /\ own[3 - j] \in 1..Len(timeouts)
    <3>. DEFINE N == 1..Len(timeouts)
    <3>1. own \in Seq(N)
      BY <1>3
    <3>. HIDE DEF N
    <3>2. /\ Len(own) = 1 => rest = <<>>
          /\ Len(own) = 2 => rest = <<own[3 - j]>> /\ own[3 - j] \in N
      BY <2>1, <3>1, TimeoutLeaves
    <3>. QED
      BY <3>2 DEF N
  <2>3. CASE Len(own) = 1
    BY <1>3, <2>2, <2>3
  <2>4. CASE Len(own) = 2
    <3>1. pc # "waitTimers"
      BY <1>3, <2>4
    <3>. DEFINE x == own[3 - j]
                N == 1..Len(timeouts)
    <3>2. rest = <<x>> /\ x \in N
      BY <2>2, <2>4
    <3>. HIDE DEF x, N
    <3>3. rest \in Seq(N) /\ Len(rest) = 1
      BY <3>2, PairIs
    <3>. QED
      BY <3>1, <3>3 DEF N
  <2>. QED
    BY <2>1, <2>3, <2>4
<1>6. timer'.current = 0 /\ timer'.subsequent = 0
  <2>1. {k \in DOMAIN rest : k > 1 /\ rest[k - 1] = 0} = {}
    <3>1. DOMAIN rest = 1..Len(rest) /\ Len(rest) \in Nat
      BY <1>5
    <3>. HIDE DEF rest
    <3>. QED
      BY <1>5, <3>1
  <2>. HIDE DEF rest
  <2>. QED
    BY <1>2, <2>1 DEF TimerAt, Following
<1>. HIDE DEF rest
<1>7. /\ \A b \in Actor : b # a => mTimeouts'[b] = mTimeouts[b] /\ Times'[b] = Times[b]
      /\ mTimeouts'[a] = rest
      /\ mTimeouts' \in [Actor -> Seq(1..Len(timeouts'))]
  <2>1. /\ TimeoutsFit /\ Len(timeouts') >= Len(timeouts) /\ Len(timeouts') \in Nat
        /\ \A t \in 1..Len(timeouts) : timeouts'[t] = timeouts[t]
        /\ rest \in Seq(1..Len(timeouts')) /\ mTimeouts' = [mTimeouts EXCEPT ![a] = rest]
    BY <1>2, <1>3, <1>5 DEF IInv
  <2>. HIDE DEF a
  <2>. QED
    BY <1>1, <2>1, TimesOthers
<1>8. TimeoutsFit'
  <2>1. TimerAtWork'
    BY <1>1, <1>2, <1>5, <1>6, <1>7 DEF TimerAtWork
  <2>. HIDE DEF a
  <2>2. /\ timeouts \in Seq([actor : Actor, at : 1..MaxTime])
        /\ now \in Nat /\ mMilliseconds \in Nat /\ mMilliseconds <= now
        /\ \A b \in Actor : b # a => Len(mTimeouts[b]) <= 1
    BY DEF IInv, TimeoutsFit, a
  <2>3. \A b \in Actor : Len(mTimeouts'[b]) <= 1
    BY <1>5, <1>7, <2>2
  <2>. HIDE DEF TimerAtWork
  <2>. QED
    BY <1>2, <1>7, <2>1, <2>2, <2>3 DEF TimeoutsFit
<1>9. ListsFit'
  <2>1. Times' \in [Actor -> Nat]
    BY <1>8, TimesTypedNext
  <2>2. Spared' = Spared
    BY <1>2 DEF Spared
  <2>3. mActive[a] \/ (Times'[a] = 0 /\ a = Spared /\ a = Nth(Waiting(links), 1))
    <3>1. CASE pc = "waitTimers"
      <4>1. Times'[a] = 0
        BY <1>1, <1>5, <1>7, <3>1 DEF Times, nextTimeoutMilliseconds
      <4>. QED
        BY <3>1, <4>1 DEF Spared, IInv, Whereabouts, FirstTwo
    <3>2. CASE pc = "activeTimers"
      <4>1. iterator = FirstTwo(Loop)
        BY <3>2 DEF IInv, Whereabouts
      <4>2. a = Nth(Loop, 1)
        BY <4>1 DEF FirstTwo
      <4>3. 1 \in 1..Len(Loop) /\ Loop[1] = a
        BY <1>1, <4>2 DEF Nth
      <4>4. ScheduledIn(links, a)
        BY <4>3 DEF ScheduledIn, Has, Loop
      <4>. QED
        BY <1>1, <4>4 DEF IInv, ListsFit, Fit
    <3>. QED
      BY <1>1, <3>1, <3>2 DEF InTimers
  <2>. DEFINE old == Times
              new == Times'
  <2>4. /\ Fit(links, mActive, old, Spared) /\ new \in [Actor -> Nat]
        /\ Retimed(new, old, a)
        /\ mActive[a] \/ (new[a] = 0 /\ a = Spared /\ a = Nth(Waiting(links), 1))
    BY <1>1, <1>7, <2>1, <2>3 DEF IInv, ListsFit, Retimed
  <2>. HIDE DEF old, new, a
  <2>5. Fit(links, mActive, new, Spared)
    BY <1>1, <2>4, FitRetimed
  <2>. QED
    BY <1>2, <2>2, <2>5 DEF ListsFit, Fit, Contents, Waiting, ScheduledIn, new
<1>10. MailFits' /\ FirstInFirstHandled'
  <2>1. \A b \in Actor : mIncomingMessages[b] # <<>> => mActive'[b]
    BY <1>2 DEF IInv, MailFits
  <2>. QED
    BY <1>1, <1>2, <2>1, MailSame DEF IInv, Handling, InTimers
<1>11. Whereabouts' /\ MailAtWork' /\ NoOversleeping'
  BY <1>1, <1>2, SameLists DEF IInv, Whereabouts, MailAtWork, queues, NoOversleeping, InTimers
<1>. QED
  BY <1>8, <1>9, <1>10, <1>11 DEF IInv

-----------------------------------------------------------------------------
(* Messages *)

LEMMA ActiveTimersDoneKeeps ==
  ASSUME IInv, ActiveTimersDone
  PROVE  IInv'
<1>. DEFINE a == iterator.current
<1>1. /\ UNCHANGED <<links, mActive, queues, timing, running, iterator, timer, wake,
                     events, mMilliseconds, now>>
      /\ UNCHANGED <<mTimeouts, timeouts>> /\ running = Null
      /\ pc = "activeTimers" /\ pc' = "messages" /\ mail' = MailOf(mIncomingMessages[a])
  BY DEF ActiveTimersDone, timing
<1>2. ListsFit' /\ MailFits' /\ FirstInFirstHandled'
  BY <1>1, OnlyMoves DEF Spared, Handling
<1>3. TimeoutsFit'
  <2>1. Len(mTimeouts[a]) <= 1
    <3>1. TimerAtWork /\ InTimers
      BY <1>1 DEF IInv, TimeoutsFit, InTimers
    <3>2. timer.current # 0 => mTimeouts[a] = <<timer.current>>
      BY <1>1, <3>1 DEF TimerAtWork
    <3>3. timer.current = 0 => Len(mTimeouts[a]) <= 1
      BY <1>1, <3>1 DEF TimerAtWork
    <3>4. Len(<<timer.current>>) <= 1
      OBVIOUS
    <3>5. CASE timer.current # 0
      BY <3>2, <3>4, <3>5, Zenon
    <3>. QED
      BY <3>3, <3>5
  <2>2. ~InTimers' /\ now' \in Nat /\ now <= now' /\ UNCHANGED <<timing, mMilliseconds>>
    BY <1>1 DEF InTimers, IInv, TimeoutsFit
  <2>. QED
    BY <2>1, <2>2, TimeoutsSame DEF IInv
<1>4. Whereabouts'
  BY <1>1, SameLists DEF IInv, Whereabouts, Location
<1>5. MailAtWork' /\ NoOversleeping'
  <2>1. mIncomingMessages' = mIncomingMessages /\ iterator' = iterator
    BY <1>1 DEF queues
  <2>2. Len(mIncomingMessages[a]) \in Nat
    BY <1>1 DEF IInv, MailFits, Whereabouts
  <2>. HIDE DEF a
  <2>. DEFINE n == Len(mIncomingMessages[a])
  <2>3. (mail'.current <=> n > 0) /\ (mail'.subsequent <=> n > 1) /\ n \in Nat
    BY <1>1, <2>2 DEF MailOf
  <2>. HIDE DEF n
  <2>4. (mail'.current => n >= 1) /\ (mail'.subsequent => n >= 2)
    BY <2>3
  <2>. QED
    BY <1>1, <2>1, <2>4 DEF MailAtWork, NoOversleeping, a, n
<1>. QED
  BY <1>2, <1>3, <1>4, <1>5 DEF IInv

\* The messages of an actor: their numbers are distinct, and none is outgoing.
LEMMA Incoming ==
  ASSUME MailFits, NEW a \in Actor, NEW mine, mine = mIncomingMessages[a]
  PROVE  /\ mine \in Seq(1..Len(sent)) /\ Len(mine) \in Nat
         /\ \A k \in 1..Len(mine) : mine[k] \in 1..Len(sent) /\ sent[mine[k]].to = a
         /\ \A j, k \in 1..Len(mine) : j < k => mine[j] # mine[k]
         /\ \A k \in 1..Len(mine) : ~Has(mOutgoingMessages, mine[k])
         /\ \A k \in 1..Len(mine) : Live(mine[k])
         /\ Len(sent) \in Nat
<1>1. mine \in Seq(1..Len(sent)) /\ Len(mine) \in Nat
  BY DEF MailFits
<1>2. Len(sent) \in Nat
  <2>. DEFINE T == [to : Actor, direct : BOOLEAN]
  <2>1. sent \in Seq(T)
    BY DEF MailFits
  <2>. HIDE DEF T
  <2>. QED
    BY <2>1
<1>3. \A k \in 1..Len(mine) : mine[k] \in 1..Len(sent)
  BY <1>1, ElementOfSeq
<1>4. /\ InOrder(mine)
      /\ \A k \in 1..Len(mine) : sent[mine[k]].to = a
      /\ \A k \in 1..Len(mine) : \A j \in 1..Len(mOutgoingMessages) :
           sent[mine[k]] = sent[mOutgoingMessages[j]] => mine[k] < mOutgoingMessages[j]
      /\ \A m \in 1..Len(sent) :
           Live(m) <=> Has(mOutgoingMessages, m) \/ Has(mIncomingMessages[sent[m].to], m)
  BY DEF MailFits
<1>5. \A j, k \in 1..Len(mine) : j < k => mine[j] # mine[k]
  <2>1. \A j, k \in 1..Len(mine) : j < k /\ sent[mine[j]] = sent[mine[k]] => mine[j] < mine[k]
    BY <1>4 DEF InOrder
  <2>. QED
    BY <1>2, <1>3, <2>1
<1>6. \A k \in 1..Len(mine) : ~Has(mOutgoingMessages, mine[k])
  BY <1>2, <1>3, <1>4, SMTT(60) DEF Has
<1>7. ASSUME NEW k \in 1..Len(mine) PROVE Live(mine[k])
  <2>1. Has(mine, mine[k])
    BY DEF Has
  <2>. QED
    BY <1>3, <1>4, <2>1
<1>. QED
  BY <1>1, <1>2, <1>3, <1>4, <1>5, <1>6, <1>7

\* The handler of the first message is entered: all before it have been handled.
LEMMA HandleMessageKeeps ==
  ASSUME IInv, HandleMessage
  PROVE  IInv'
<1>. DEFINE a == iterator.current
            mine == mIncomingMessages[a]
            h == Head(mine)
<1>1. /\ UNCHANGED <<links, mActive, mQueuedMessages, mIncomingMessages, mOutgoingMessages,
                     sent, timing, pc, iterator, timer, mail, wake, events, mMilliseconds, now>>
      /\ UNCHANGED <<mTimeouts, timeouts>> /\ running = Null
      /\ pc = "messages" /\ mail.current
      /\ running' = a /\ handled' = handled \cup {h}
  BY DEF HandleMessage, timing
<1>2. a \in Actor /\ a # Null
  BY <1>1, NotASentinel DEF IInv, Whereabouts
<1>3. Len(mine) >= 1
  BY <1>1 DEF IInv, MailAtWork
<1>4. /\ mine \in Seq(1..Len(sent)) /\ Len(mine) \in Nat
      /\ \A k \in 1..Len(mine) : mine[k] \in 1..Len(sent) /\ sent[mine[k]].to = a
      /\ \A k \in 1..Len(mine) : Live(mine[k])
      /\ Len(sent) \in Nat
  BY <1>2, Incoming DEF IInv
<1>5. 1 \in 1..Len(mine) /\ h = mine[1]
  <2>. HIDE DEF mine
  <2>. QED
    BY <1>3, <1>4
<1>6. h \in 1..Len(sent) /\ Live(h) /\ sent[h].to = a
  BY <1>4, <1>5
<1>7. \A m : Live(m)' <=> Live(m)
  <2>1. \A m : ~BeingHandled(m)
    BY <1>1 DEF BeingHandled
  <2>2. \A m : BeingHandled(m)' <=> m = h
    BY <1>1, <1>2 DEF BeingHandled
  <2>3. h \notin handled
    BY <1>6, <2>1 DEF Live
  <2>. HIDE DEF h
  <2>4. \A m : m \in handled' <=> m \in handled \/ m = h
    BY <1>1
  <2>. QED
    BY <2>1, <2>2, <2>3, <2>4 DEF Live
<1>. HIDE DEF h, mine, a
<1>8. MailFits'
  <2>1. handled' \subseteq 1..Len(sent)
    BY <1>1, <1>6 DEF IInv, MailFits
  <2>. QED
    BY <1>1, <1>7, <2>1, ZenonT(60) DEF IInv, MailFits, InOrder, Has
<1>9. FirstInFirstHandled'
  <2>1. ASSUME NEW k \in 1..(h - 1), sent[k] = sent[h] PROVE k \in handled
    <3>1. k \in 1..Len(sent) /\ k < h /\ k \in Nat /\ h \in Nat
      BY <1>4, <1>6
    <3>2. SUFFICES ASSUME k \notin handled PROVE FALSE
      OBVIOUS
    <3>3. Live(k) /\ sent[k].to = a
      BY <1>6, <2>1, <3>2 DEF Live
    <3>4. Has(mOutgoingMessages, k) \/ Has(mine, k)
      BY <3>1, <3>3 DEF IInv, MailFits, mine
    <3>5. CASE Has(mine, k)
      <4>1. PICK i \in 1..Len(mine) : mine[i] = k
        BY <3>5 DEF Has
      <4>2. i # 1
        BY <1>5, <3>1, <4>1
      <4>3. 1 < i
        BY <4>1, <4>2
      <4>4. InOrder(mine)
        BY <1>2 DEF IInv, MailFits, mine
      <4>5. h < k
        BY <1>5, <2>1, <4>1, <4>3, <4>4 DEF InOrder
      <4>. QED
        BY <3>1, <4>5
    <3>6. CASE Has(mOutgoingMessages, k)
      <4>1. PICK i \in 1..Len(mOutgoingMessages) : mOutgoingMessages[i] = k
        BY <3>6 DEF Has
      <4>2. \A p \in 1..Len(mine) : \A j \in 1..Len(mOutgoingMessages) :
              sent[mine[p]] = sent[mOutgoingMessages[j]] => mine[p] < mOutgoingMessages[j]
        BY <1>2 DEF IInv, MailFits, mine
      <4>3. h < k
        BY <1>5, <2>1, <4>1, <4>2
      <4>. QED
        BY <3>1, <4>3
    <3>. QED
      BY <3>4, <3>5, <3>6
  <2>2. \A m \in handled : \A k \in 1..(m - 1) : sent[k] = sent[m] => k \in handled
    BY DEF IInv, FirstInFirstHandled
  <2>. QED
    BY <1>1, <2>1, <2>2 DEF FirstInFirstHandled
<1>10. ListsFit'
  <2>1. UNCHANGED <<links, mActive, mTimeouts, timeouts>> /\ Spared' = Spared
    BY <1>1 DEF Spared
  <2>. QED
    BY <2>1, ListsSame DEF IInv
<1>11. TimeoutsFit'
  <2>1. ~InTimers /\ ~InTimers' /\ now' \in Nat /\ now <= now' /\ UNCHANGED <<timing, mMilliseconds>>
    BY <1>1 DEF InTimers, IInv, TimeoutsFit
  <2>. QED
    BY <2>1, TimeoutsSame DEF IInv
<1>12. Whereabouts'
  BY <1>1, <1>2, SameLists DEF IInv, Whereabouts, a
<1>13. MailAtWork'
  <2>1. Head(mIncomingMessages[iterator.current]) \in handled'
    BY <1>1 DEF h, mine, a
  <2>. QED
    BY <1>1, <2>1 DEF IInv, MailAtWork
<1>14. NoOversleeping'
  BY <1>1 DEF NoOversleeping
<1>. QED
  BY <1>8, <1>9, <1>10, <1>11, <1>12, <1>13, <1>14 DEF IInv

\* The handled message leaves, and has been in no other place.
LEMMA MessageReturnsKeeps ==
  ASSUME IInv, MessageReturns
  PROVE  IInv'
<1>. DEFINE a == iterator.current
            mine == mIncomingMessages[a]
            rest == Tail(mine)
            h == Head(mine)
<1>1. /\ UNCHANGED <<links, mActive, mQueuedMessages, mOutgoingMessages, sent, handled,
                     timing, pc, iterator, timer, wake, events, mMilliseconds, now>>
      /\ UNCHANGED <<mTimeouts, timeouts>> /\ running # Null
      /\ pc = "messages" /\ running' = Null
  BY DEF MessageReturns, timing
<1>2. a \in Actor /\ running = a
  BY <1>1 DEF IInv, Whereabouts
<1>3. /\ mIncomingMessages' = [mIncomingMessages EXCEPT ![a] = rest]
      /\ mail' = [current |-> mail.subsequent,
                  subsequent |-> mail.subsequent /\ Len(rest) > 1]
  BY <1>2 DEF MessageReturns
<1>4. Len(mine) >= 1 /\ (mail.subsequent => Len(mine) >= 2) /\ h \in handled
  BY <1>1 DEF IInv, MailAtWork
<1>5. /\ mine \in Seq(1..Len(sent)) /\ Len(mine) \in Nat
      /\ \A k \in 1..Len(mine) : mine[k] \in 1..Len(sent) /\ sent[mine[k]].to = a
      /\ \A j, k \in 1..Len(mine) : j < k => mine[j] # mine[k]
      /\ \A k \in 1..Len(mine) : ~Has(mOutgoingMessages, mine[k])
      /\ Len(sent) \in Nat
  BY <1>2, Incoming, ZenonT(60) DEF IInv
<1>6. /\ rest \in Seq(1..Len(sent)) /\ Len(rest) = Len(mine) - 1
      /\ \A k \in 1..Len(rest) : rest[k] = mine[k + 1] /\ k + 1 \in 1..Len(mine)
      /\ h = mine[1] /\ 1 \in 1..Len(mine)
  <2>. HIDE DEF mine
  <2>1. mine # <<>>
    BY <1>4
  <2>2. /\ rest \in Seq(1..Len(sent)) /\ Len(rest) = Len(mine) - 1
        /\ \A k \in 1..Len(rest) : rest[k] = mine[k + 1]
    BY <1>5, <2>1, HeadTailProperties
  <2>3. 1 \in 1..Len(mine) /\ h = mine[1]
    BY <1>4, <1>5
  <2>. HIDE DEF rest
  <2>4. \A k \in 1..Len(rest) : k + 1 \in 1..Len(mine)
    BY <1>5, <2>2
  <2>. QED
    BY <2>2, <2>3, <2>4
<1>7. /\ mIncomingMessages'[a] = rest
      /\ \A b \in Actor : b # a => mIncomingMessages'[b] = mIncomingMessages[b]
      /\ mIncomingMessages' \in [Actor -> Seq(1..Len(sent))]
  <2>1. mIncomingMessages \in [Actor -> Seq(1..Len(sent))]
    BY DEF IInv, MailFits
  <2>. HIDE DEF mine, rest
  <2>. QED
    BY <1>2, <1>3, <1>6, <2>1
<1>8. \A m : Has(rest, m) <=> Has(mine, m) /\ m # h
  <2>. HIDE DEF mine, rest, h
  <2>1. ASSUME NEW m, Has(rest, m) PROVE Has(mine, m) /\ m # h
    <3>1. PICK k \in 1..Len(rest) : rest[k] = m
      BY <2>1 DEF Has
    <3>2. mine[k + 1] = m /\ k + 1 \in 1..Len(mine) /\ 1 < k + 1
      BY <1>6, <3>1
    <3>. QED
      BY <1>5, <1>6, <3>2 DEF Has
  <2>2. ASSUME NEW m, Has(mine, m), m # h PROVE Has(rest, m)
    <3>1. PICK k \in 1..Len(mine) : mine[k] = m
      BY <2>2 DEF Has
    <3>2. k # 1
      BY <1>6, <2>2, <3>1
    <3>3. k - 1 \in 1..Len(rest) /\ (k - 1) + 1 = k
      BY <1>5, <1>6, <3>2
    <3>. QED
      BY <1>6, <3>1, <3>3 DEF Has
  <2>. QED
    BY <2>1, <2>2
<1>9. \A m : Live(m)' <=> Live(m) /\ m # h
  <2>1. \A m : ~BeingHandled(m)'
    BY <1>1 DEF BeingHandled
  <2>2. \A m : BeingHandled(m) <=> m = h
    BY <1>1, <1>2 DEF BeingHandled
  <2>. HIDE DEF h
  <2>. QED
    BY <1>1, <1>4, <2>1, <2>2 DEF Live
<1>. HIDE DEF h, mine, rest, a
<1>10. MailFits'
  <2>0. /\ sent \in Seq([to : Actor, direct : BOOLEAN])
        /\ handled \subseteq 1..Len(sent)
        /\ mQueuedMessages = [b \in Actor |-> <<>>]
        /\ mOutgoingMessages \in Seq(1..Len(sent)) /\ InOrder(mOutgoingMessages)
        /\ \A k \in 1..Len(mOutgoingMessages) : ~sent[mOutgoingMessages[k]].direct
    BY DEF IInv, MailFits
  <2>1. ASSUME NEW b \in Actor
        PROVE  LET own == mIncomingMessages'[b]
               IN  /\ InOrder(own)
                   /\ own # <<>> => mActive[b]
                   /\ \A k \in 1..Len(own) :
                        /\ sent[own[k]].to = b
                        /\ \A j \in 1..Len(mOutgoingMessages) :
                             sent[own[k]] = sent[mOutgoingMessages[j]] => own[k] < mOutgoingMessages[j]
    <3>1. CASE b # a
      BY <1>7, <3>1, ZenonT(60) DEF IInv, MailFits
    <3>2. CASE b = a
      <4>1. /\ InOrder(mine) /\ mActive[a]
            /\ \A k \in 1..Len(mine) :
                 /\ sent[mine[k]].to = a
                 /\ \A j \in 1..Len(mOutgoingMessages) :
                      sent[mine[k]] = sent[mOutgoingMessages[j]] => mine[k] < mOutgoingMessages[j]
        <5>1. mine # <<>>
          BY <1>4
        <5>. QED
          BY <1>2, <5>1 DEF IInv, MailFits, mine
      <4>2. InOrder(rest)
        <5>1. ASSUME NEW j \in 1..Len(rest), NEW k \in 1..Len(rest), j < k, sent[rest[j]] = sent[rest[k]]
              PROVE  rest[j] < rest[k]
          <6>0. Len(rest) \in Int /\ Len(mine) \in Int /\ j < k
            BY <1>6, <5>1
          <6>1. /\ rest[j] = mine[j + 1] /\ rest[k] = mine[k + 1] /\ j + 1 < k + 1
                /\ j + 1 \in 1..Len(mine) /\ k + 1 \in 1..Len(mine)
            <7>1. rest[j] = mine[j + 1] /\ rest[k] = mine[k + 1]
              BY <1>6
            <7>2. j \in Int /\ k \in Int /\ 1 <= j /\ j <= Len(rest) /\ 1 <= k /\ k <= Len(rest)
              BY <6>0
            <7>3. Len(mine) = Len(rest) + 1
              BY <1>6
            <7>. QED
              BY <6>0, <7>1, <7>2, <7>3
          <6>2. sent[mine[j + 1]] = sent[mine[k + 1]]
            BY <5>1, <6>1
          <6>. QED
            BY <4>1, <6>1, <6>2 DEF InOrder
        <5>. QED
          BY <5>1 DEF InOrder
      <4>3. \A k \in 1..Len(rest) :
              /\ sent[rest[k]].to = a
              /\ \A j \in 1..Len(mOutgoingMessages) :
                   sent[rest[k]] = sent[mOutgoingMessages[j]] => rest[k] < mOutgoingMessages[j]
        BY <1>6, <4>1
      <4>. QED
        BY <1>7, <3>2, <4>1, <4>2, <4>3
    <3>. QED
      BY <3>1, <3>2
  <2>2. ASSUME NEW m \in 1..Len(sent)
        PROVE  Live(m)' <=> Has(mOutgoingMessages, m) \/ Has(mIncomingMessages'[sent[m].to], m)
    <3>1. Live(m) <=> Has(mOutgoingMessages, m) \/ Has(mIncomingMessages[sent[m].to], m)
      BY DEF IInv, MailFits
    <3>2. sent[m].to \in Actor
      <4>. DEFINE T == [to : Actor, direct : BOOLEAN]
      <4>1. sent[m] \in T
        BY <2>0, ElementOfSeq
      <4>. QED
        BY <4>1
    <3>3. sent[h].to = a /\ ~Has(mOutgoingMessages, h)
      BY <1>5, <1>6
    <3>4. CASE sent[m].to # a
      BY <1>7, <1>9, <3>1, <3>2, <3>3, <3>4
    <3>5. CASE sent[m].to = a
      <4>1. mIncomingMessages'[a] = rest /\ mIncomingMessages[a] = mine
        BY <1>7 DEF mine
      <4>. QED
        BY <1>8, <1>9, <3>1, <3>3, <3>5, <4>1
    <3>. QED
      BY <3>4, <3>5
  <2>3. \A b \in Actor : mIncomingMessages'[b] \in Seq(1..Len(sent))
    BY <1>7
  <2>. QED
    BY <1>1, <1>7, <2>0, <2>1, <2>2 DEF MailFits, InOrder, Has
<1>11. FirstInFirstHandled'
  BY <1>1 DEF IInv, FirstInFirstHandled
<1>12. ListsFit'
  <2>1. UNCHANGED <<links, mActive, mTimeouts, timeouts>> /\ Spared' = Spared
    BY <1>1 DEF Spared
  <2>. QED
    BY <2>1, ListsSame DEF IInv
<1>13. TimeoutsFit'
  <2>1. ~InTimers /\ ~InTimers' /\ now' \in Nat /\ now <= now' /\ UNCHANGED <<timing, mMilliseconds>>
    BY <1>1 DEF InTimers, IInv, TimeoutsFit
  <2>. QED
    BY <2>1, TimeoutsSame DEF IInv
<1>14. Whereabouts'
  BY <1>1, <1>2, SameLists DEF IInv, Whereabouts, a
<1>15. MailAtWork'
  <2>1. mIncomingMessages'[iterator'.current] = rest
    BY <1>1, <1>7 DEF a
  <2>2. mail'.current => Len(rest) >= 1
    BY <1>3, <1>4, <1>5, <1>6
  <2>3. mail'.subsequent => Len(rest) >= 2
    <3>. DEFINE n == Len(rest)
    <3>1. n \in Nat /\ (mail'.subsequent => n > 1)
      <4>1. mail'.subsequent = (mail.subsequent /\ n > 1)
        BY <1>3
      <4>2. n \in Nat
        BY <1>6
      <4>. QED
        BY <4>1, <4>2
    <3>. HIDE DEF n
    <3>2. mail'.subsequent => n >= 2
      BY <3>1
    <3>. QED
      BY <3>2 DEF n
  <2>. QED
    BY <1>1, <2>1, <2>2, <2>3 DEF MailAtWork
<1>16. NoOversleeping'
  BY <1>1 DEF NoOversleeping
<1>. QED
  BY <1>10, <1>11, <1>12, <1>13, <1>14, <1>15, <1>16 DEF IInv

-----------------------------------------------------------------------------
(* The ends of the two loops' turns *)

\* The actor a loop is at is the first of its list.
LEMMA CurrentIs ==
  ASSUME NEW c \in Seq(Item), FirstTwo(c).current \in Actor
  PROVE  1 \in 1..Len(c) /\ c[1] = FirstTwo(c).current /\ Has(c, c[1])
<1>1. Nth(c, 1) # Null
  BY NotASentinel DEF FirstTwo
<1>2. 1 \in 1..Len(c)
  BY <1>1 DEF Nth
<1>. QED
  BY <1>2 DEF Nth, FirstTwo, Has

\* The iterator goes on to the first of those that are left.
LEMMA NextIs ==
  ASSUME NEW c \in Seq(Item), \A j, k \in 1..Len(c) : c[j] = c[k] => j = k,
         FirstTwo(c).current \in Actor,
         NEW r, Sound(r), Shown(r, Contents(r)), NEW l \in List,
         Contents(r)[l] = Without(c, FirstTwo(c).current)
  PROVE  /\ Subsequent(r, l, FALSE, FirstTwo(c)) = FirstTwo(Contents(r)[l])
         /\ Subsequent(r, l, FALSE, FirstTwo(c)).current \notin ActorList
<1>. DEFINE d == Contents(r)[l]
            i == FirstTwo(c)
<1>1. 1 \in 1..Len(c) /\ c[1] = i.current /\ i.subsequent = Nth(c, 2)
  BY CurrentIs DEF FirstTwo
<1>2. Nth(d, 1) = i.subsequent
  BY <1>1, SecondIsFirst
<1>3. /\ At(r, l, FALSE, Nth(d, 1)) = FirstTwo(d)
      /\ FirstTwo(d).current \in Item \cup {Null}
  BY AtFirst DEF Sound
<1>. HIDE DEF d, i
<1>4. Subsequent(r, l, FALSE, i) = FirstTwo(d)
  BY <1>2, <1>3 DEF Subsequent
<1>. QED
  BY <1>3, <1>4, NotASentinel DEF d, i, Actor

\* The waiting actor whose timeout was handled has none left.
LEMMA WaitTimersDoneKeeps ==
  ASSUME IInv, WaitTimersDone
  PROVE  IInv'
<1>. DEFINE a == iterator.current
            r == AddTail(links, "mPassiveActors", a)
            w == Waiting(links)
<1>1. /\ UNCHANGED <<mActive, queues, timing, running, timer, mail, wake, events,
                     mMilliseconds, now>>
      /\ UNCHANGED <<mTimeouts, timeouts>> /\ running = Null /\ pc = "waitTimers" /\ ~TimerDue
      /\ PutAway(a, "mWaitingActors", "wait")
  BY DEF WaitTimersDone, timing
<1>2. a \in Actor /\ a # Null /\ iterator = FirstTwo(w)
  BY <1>1, NotASentinel DEF IInv, Whereabouts
<1>3. mTimeouts[a] = <<>>
  <2>1. TimerAtWork /\ InTimers
    BY <1>1 DEF IInv, TimeoutsFit, InTimers
  <2>2. timer.current = 0
    BY <1>1, <2>1 DEF TimerAtWork
  <2>. QED
    BY <1>1, <2>1, <2>2 DEF TimerAtWork
<1>4. Times \in [Actor -> Nat] /\ Times[a] = 0
  BY <1>2, <1>3, TimesAre DEF IInv
<1>5. Fit(links, mActive, Times, a) /\ Sound(links) /\ Shown(links, Contents(links))
  BY <1>1 DEF IInv, ListsFit, Fit, Spared
<1>6. w \in Seq(Item) /\ \A j, k \in 1..Len(w) : w[j] = w[k] => j = k
  BY <1>5, ListNames, ContentsFacts DEF Waiting
<1>7. Has(w, a)
  BY <1>2, <1>6, CurrentIs
<1>8. /\ links' = r /\ Iterate("wait", Subsequent(r, "mWaitingActors", FALSE, iterator))
  BY <1>1, <1>3 DEF PutAway
<1>9. /\ Fit(r, [mActive EXCEPT ![a] = FALSE], Times, Null)
      /\ Waiting(r) = Without(w, a)
      /\ ~mActive[a]
  <2>. DEFINE l == "mWaitingActors"
  <2>1. l \in {"actors", "mWaitingActors"} /\ Has(Contents(links)[l], a) /\ a \in {a, Null}
    BY <1>7 DEF Waiting
  <2>. HIDE DEF l, a
  <2>2. /\ Fit(r, [mActive EXCEPT ![a] = FALSE], Times, Null)
        /\ Contents(r)[l] = Without(Contents(links)[l], a)
        /\ l = "mWaitingActors" => ~mActive[a]
    BY <1>2, <1>4, <1>5, <2>1, Retires
  <2>. QED
    BY <2>2 DEF Waiting, l
<1>. HIDE DEF r
<1>10. Fit(r, mActive, Times, Null)
  <2>1. mActive \in [Actor -> BOOLEAN]
    BY <1>5 DEF Fit
  <2>. QED
    BY <1>9, <2>1
<1>11. /\ Subsequent(r, "mWaitingActors", FALSE, iterator) = FirstTwo(Waiting(r))
       /\ Subsequent(r, "mWaitingActors", FALSE, iterator).current \notin ActorList
  <2>1. Sound(r) /\ Shown(r, Contents(r)) /\ Contents(r)["mWaitingActors"] = Without(w, a)
    BY <1>9, <1>10 DEF Fit, Waiting
  <2>. HIDE DEF w
  <2>2. /\ Subsequent(r, "mWaitingActors", FALSE, iterator) = FirstTwo(Contents(r)["mWaitingActors"])
        /\ Subsequent(r, "mWaitingActors", FALSE, iterator).current \notin ActorList
    <3>. DEFINE l == "mWaitingActors"
    <3>1. /\ iterator = FirstTwo(w) /\ FirstTwo(w).current \in Actor /\ l \in List
          /\ Contents(r)[l] = Without(w, FirstTwo(w).current)
      BY <1>2, <2>1, ListNames
    <3>. HIDE DEF l
    <3>2. /\ Subsequent(r, l, FALSE, FirstTwo(w)) = FirstTwo(Contents(r)[l])
          /\ Subsequent(r, l, FALSE, FirstTwo(w)).current \notin ActorList
      BY <1>6, <2>1, <3>1, NextIs
    <3>. QED
      BY <3>1, <3>2 DEF l
  <2>. QED
    BY <2>2 DEF Waiting
<1>12. iterator' = FirstTwo(Waiting(r)) /\ pc' = "wait"
  BY <1>8, <1>11 DEF Iterate
<1>13. ListsFit'
  <2>1. Times' = Times /\ Spared' = Null
    BY <1>1, <1>12 DEF Times, nextTimeoutMilliseconds, TimeOf, Spared
  <2>. QED
    BY <1>1, <1>8, <1>10, <2>1 DEF ListsFit, Fit, Contents, Waiting, ScheduledIn
<1>14. MailFits' /\ FirstInFirstHandled'
  <2>1. \A b \in Actor : mIncomingMessages[b] # <<>> => mActive'[b]
    BY <1>1 DEF IInv, MailFits
  <2>2. ~Handling /\ ~Handling'
    BY <1>1 DEF Handling
  <2>. QED
    BY <1>1, <2>1, <2>2, MailSame DEF IInv
<1>15. TimeoutsFit'
  <2>1. ~InTimers' /\ now' \in Nat /\ now <= now' /\ UNCHANGED <<timing, mMilliseconds>>
    BY <1>1, <1>12 DEF InTimers, IInv, TimeoutsFit
  <2>2. Len(mTimeouts[a]) <= 1
    BY <1>3
  <2>. QED
    BY <2>1, <2>2, TimeoutsSame DEF IInv
<1>16. Whereabouts'
  <2>1. Waiting(links)' = Waiting(r)
    BY <1>8 DEF Waiting, Contents
  <2>. QED
    BY <1>1, <1>12, <2>1 DEF IInv, Whereabouts, Location
<1>17. MailAtWork' /\ NoOversleeping'
  BY <1>12 DEF MailAtWork, NoOversleeping
<1>. QED
  BY <1>13, <1>14, <1>15, <1>16, <1>17 DEF IInv

\* An actor goes back for the messages that came meanwhile, to the waiting
\* actors for its timeout, or to the passive ones.
LEMMA MessagesDoneKeeps ==
  ASSUME IInv, MessagesDone
  PROVE  IInv'
<1>. DEFINE a == iterator.current
            again == AddTail(links, "mActiveActors", a)
            passive == AddTail(links, "mPassiveActors", a)
            waits == waitTimeout(a)
            off == [mActive EXCEPT ![a] = FALSE]
<1>1. /\ UNCHANGED <<queues, timing, running, timer, mail, wake, events, mMilliseconds, now>>
      /\ UNCHANGED <<mTimeouts, timeouts>> /\ running = Null /\ pc = "messages"
  BY DEF MessagesDone, timing
<1>2. a \in Actor /\ iterator = FirstTwo(Loop)
  BY <1>1 DEF IInv, Whereabouts
<1>3. Times \in [Actor -> Nat]
  BY TimesAre DEF IInv
<1>4. Fit(links, mActive, Times, Null) /\ Sound(links) /\ Shown(links, Contents(links))
  BY <1>1 DEF IInv, ListsFit, Fit, Spared
<1>5. Loop \in Seq(Item) /\ \A j, k \in 1..Len(Loop) : Loop[j] = Loop[k] => j = k
  BY <1>4, ListNames, ContentsFacts DEF Loop
<1>6. Has(Loop, a)
  BY <1>2, <1>5, CurrentIs
<1>7. ASSUME NEW r, Sound(r), Shown(r, Contents(r)), Contents(r)["actors"] = Without(Loop, a),
             Iterate("active", Subsequent(r, "actors", FALSE, iterator))
      PROVE  iterator' = FirstTwo(Contents(r)["actors"]) /\ pc' = "active"
  <2>1. /\ Subsequent(r, "actors", FALSE, iterator) = FirstTwo(Contents(r)["actors"])
        /\ Subsequent(r, "actors", FALSE, iterator).current \notin ActorList
    <3>. DEFINE c == Loop
                l == "actors"
    <3>1. /\ c \in Seq(Item) /\ \A j, k \in 1..Len(c) : c[j] = c[k] => j = k
          /\ iterator = FirstTwo(c) /\ FirstTwo(c).current \in Actor /\ l \in List
          /\ Contents(r)[l] = Without(c, FirstTwo(c).current)
      BY <1>2, <1>5, <1>7, ListNames
    <3>. HIDE DEF c, l
    <3>2. /\ Subsequent(r, l, FALSE, FirstTwo(c)) = FirstTwo(Contents(r)[l])
          /\ Subsequent(r, l, FALSE, FirstTwo(c)).current \notin ActorList
      BY <1>7, <3>1, NextIs
    <3>. QED
      BY <3>1, <3>2 DEF l
  <2>. QED
    BY <1>7, <2>1 DEF Iterate
<1>8. /\ Fit(links', mActive', Times, Null)
      /\ iterator' = FirstTwo(Contents(links')["actors"]) /\ pc' = "active"
      /\ \A b \in Actor : mIncomingMessages[b] # <<>> => mActive'[b]
  <2>1. CASE mIncomingMessages[a] # <<>>
    <3>1. /\ links' = again /\ mActive' = mActive
          /\ Iterate("active", Subsequent(again, "actors", FALSE, iterator))
      BY <2>1 DEF MessagesDone
    <3>2. /\ Fit(again, mActive, Times, Null)
          /\ Contents(again)["actors"] = Without(Loop, a)
      BY <1>2, <1>3, <1>4, <1>6, Requeues DEF Loop
    <3>3. Sound(again) /\ Shown(again, Contents(again))
      BY <3>2 DEF Fit
    <3>. HIDE DEF again
    <3>4. iterator' = FirstTwo(Contents(again)["actors"]) /\ pc' = "active"
      BY <1>7, <3>1, <3>2, <3>3
    <3>5. \A b \in Actor : mIncomingMessages[b] # <<>> => mActive[b]
      BY DEF IInv, MailFits
    <3>. QED
      BY <3>1, <3>2, <3>4, <3>5
  <2>2. CASE mIncomingMessages[a] = <<>>
    <3>1. mActive' = off /\ PutAway(a, "actors", "active")
      BY <2>2 DEF MessagesDone
    <3>2. \A b \in Actor : mIncomingMessages[b] # <<>> => mActive'[b]
      <4>1. \A b \in Actor : mIncomingMessages[b] # <<>> => mActive[b]
        BY DEF IInv, MailFits
      <4>2. mActive \in [Actor -> BOOLEAN]
        BY <1>4 DEF Fit
      <4>. QED
        BY <2>2, <3>1, <4>1, <4>2
    <3>3. CASE mTimeouts[a] = <<>>
      <4>1. links' = passive /\ Iterate("active", Subsequent(passive, "actors", FALSE, iterator))
        BY <3>1, <3>3 DEF PutAway
      <4>2. Times[a] = 0
        BY <1>2, <3>3, TimesAre DEF IInv
      <4>3. /\ Fit(passive, off, Times, Null)
            /\ Contents(passive)["actors"] = Without(Loop, a)
        <5>. DEFINE l == "actors"
        <5>1. l \in {"actors", "mWaitingActors"} /\ Has(Contents(links)[l], a) /\ Null \in {a, Null}
          BY <1>6 DEF Loop
        <5>. HIDE DEF l, a
        <5>2. /\ Fit(passive, off, Times, Null)
              /\ Contents(passive)[l] = Without(Contents(links)[l], a)
          BY <1>2, <1>3, <1>4, <4>2, <5>1, Retires
        <5>. QED
          BY <5>2 DEF Loop, l
      <4>4. Sound(passive) /\ Shown(passive, Contents(passive))
        BY <4>3 DEF Fit
      <4>. HIDE DEF passive
      <4>5. iterator' = FirstTwo(Contents(passive)["actors"]) /\ pc' = "active"
        BY <1>7, <4>1, <4>3, <4>4
      <4>. QED
        BY <3>1, <3>2, <4>1, <4>3, <4>5
    <3>4. CASE mTimeouts[a] # <<>>
      <4>1. Times[a] # 0
        BY <1>2, <3>4, TimesAre DEF IInv
      <4>2. /\ WaitingPlace(a) \in Actor \cup {"mWaitingActors"}
            /\ Fit(waits, off, Times, Null)
            /\ Contents(waits)["actors"] = Without(Loop, a)
        BY <1>2, <1>3, <1>4, <1>6, <4>1, Waits DEF Loop
      <4>3. links' = waits /\ Iterate("active", Subsequent(waits, "actors", FALSE, iterator))
        BY <3>1, <3>4, <4>2 DEF PutAway
      <4>4. Sound(waits) /\ Shown(waits, Contents(waits))
        BY <4>2 DEF Fit
      <4>. HIDE DEF waits
      <4>5. iterator' = FirstTwo(Contents(waits)["actors"]) /\ pc' = "active"
        BY <1>7, <4>2, <4>3, <4>4
      <4>. QED
        BY <3>1, <3>2, <4>2, <4>3, <4>5
    <3>. QED
      BY <3>3, <3>4
  <2>. QED
    BY <2>1, <2>2
<1>9. ListsFit'
  <2>1. Times' = Times /\ Spared' = Null
    BY <1>1, <1>8 DEF Times, nextTimeoutMilliseconds, TimeOf, Spared
  <2>. QED
    BY <1>8, <2>1 DEF ListsFit, Fit, Contents, Waiting, ScheduledIn
<1>10. MailFits' /\ FirstInFirstHandled'
  <2>1. ~Handling /\ ~Handling'
    BY <1>1, <1>8 DEF Handling
  <2>. QED
    BY <1>1, <1>8, <2>1, MailSame DEF IInv
<1>11. TimeoutsFit'
  <2>1. ~InTimers /\ ~InTimers' /\ now' \in Nat /\ now <= now' /\ UNCHANGED <<timing, mMilliseconds>>
    BY <1>1, <1>8 DEF InTimers, IInv, TimeoutsFit
  <2>. QED
    BY <2>1, TimeoutsSame DEF IInv
<1>12. Whereabouts'
  <2>1. Loop' = Contents(links')["actors"]
    BY DEF Loop, Contents
  <2>. QED
    BY <1>1, <1>8, <2>1 DEF IInv, Whereabouts, Location
<1>13. MailAtWork' /\ NoOversleeping'
  BY <1>8 DEF MailAtWork, NoOversleeping
<1>. QED
  BY <1>9, <1>10, <1>11, <1>12, <1>13 DEF IInv

-----------------------------------------------------------------------------
(* A message is queued *)

LEMMA AppendFacts ==
  ASSUME NEW T, NEW c \in Seq(T), NEW x \in T
  PROVE  /\ Append(c, x) \in Seq(T) /\ Append(c, x) # <<>>
         /\ Len(c) \in Nat /\ Len(Append(c, x)) = Len(c) + 1
         /\ \A k \in 1..Len(c) : Append(c, x)[k] = c[k]
         /\ Append(c, x)[Len(c) + 1] = x
         /\ \A k \in 1..(Len(c) + 1) : k \in 1..Len(c) \/ k = Len(c) + 1
         /\ \A y : Has(Append(c, x), y) <=> Has(c, y) \/ y = x
         /\ c # <<>> => Head(Append(c, x)) = Head(c)
<1>1. /\ Append(c, x) \in Seq(T)
      /\ Len(c) \in Nat /\ Len(Append(c, x)) = Len(c) + 1
      /\ \A k \in 1..Len(c) : Append(c, x)[k] = c[k]
      /\ Append(c, x)[Len(c) + 1] = x
  BY AppendProperties
<1>2. /\ \A k \in 1..(Len(c) + 1) : k \in 1..Len(c) \/ k = Len(c) + 1
      /\ \A k \in 1..Len(c) : k \in 1..(Len(c) + 1)
      /\ Len(c) + 1 \in 1..(Len(c) + 1)
  BY <1>1
<1>3. \A y : Has(Append(c, x), y) <=> Has(c, y) \/ y = x
  BY <1>1, <1>2 DEF Has
<1>4. c # <<>> => Head(Append(c, x)) = Head(c)
  <2>1. SUFFICES ASSUME c # <<>> PROVE Head(Append(c, x)) = Head(c)
    OBVIOUS
  <2>2. 1 \in 1..Len(c) /\ Head(c) = c[1] /\ Head(Append(c, x)) = Append(c, x)[1]
    BY <2>1
  <2>. QED
    BY <1>1, <2>2
<1>5. Append(c, x) # <<>>
  OBVIOUS
<1>. QED
  BY <1>1, <1>2, <1>3, <1>4, <1>5

LEMMA Grown ==
  ASSUME MailFits, NEW b \in Actor, NEW direct \in BOOLEAN,
         sent' = Append(sent, [to |-> b, direct |-> direct]), NEW m, m = Len(sent) + 1
  PROVE  /\ m \in Nat /\ Len(sent) \in Nat /\ Len(sent') = m /\ m \in 1..m
         /\ sent' \in Seq([to : Actor, direct : BOOLEAN])
         /\ sent'[m].to = b /\ sent'[m].direct = direct
         /\ \A k \in 1..Len(sent) : sent'[k] = sent[k] /\ k # m /\ k < m /\ k \in 1..m
         /\ \A k \in 1..m : k \in 1..Len(sent) \/ k = m
         /\ \A c : c \in Seq(1..Len(sent)) =>
              c \in Seq(1..m) /\ \A k \in 1..Len(c) : c[k] \in 1..Len(sent)
<1>. DEFINE T == [to : Actor, direct : BOOLEAN]
            x == [to |-> b, direct |-> direct]
<1>1. sent \in Seq(T) /\ x \in T
  BY DEF MailFits
<1>2. x.to = b /\ x.direct = direct
  OBVIOUS
<1>. HIDE DEF T, x
<1>3. /\ Append(sent, x) \in Seq(T) /\ Len(sent) \in Nat /\ Len(Append(sent, x)) = Len(sent) + 1
      /\ \A k \in 1..Len(sent) : Append(sent, x)[k] = sent[k]
      /\ Append(sent, x)[Len(sent) + 1] = x
  BY <1>1, AppendFacts
<1>4. sent' = Append(sent, x)
  BY DEF x
<1>5. /\ m \in Nat /\ m \in 1..m
      /\ \A k \in 1..Len(sent) : k # m /\ k < m /\ k \in 1..m
      /\ \A k \in 1..m : k \in 1..Len(sent) \/ k = m
  BY <1>3
<1>6. 1..Len(sent) \subseteq 1..m
  BY <1>5
<1>7. \A c : c \in Seq(1..Len(sent)) =>
        c \in Seq(1..m) /\ \A k \in 1..Len(c) : c[k] \in 1..Len(sent)
  <2>. DEFINE N == 1..Len(sent)
              M == 1..m
  <2>1. N \subseteq M
    BY <1>6
  <2>. HIDE DEF N, M
  <2>2. Seq(N) \subseteq Seq(M)
    BY <2>1, SeqMonotonic
  <2>3. \A c \in Seq(N) : \A k \in 1..Len(c) : c[k] \in N
    BY ElementOfSeq
  <2>. QED
    BY <2>2, <2>3 DEF N, M
<1>. QED
  BY <1>2, <1>3, <1>4, <1>5, <1>7 DEF T

\* What the messages after a step that leaves the outgoing ones must be like.
LEMMA MailNext ==
  ASSUME sent' \in Seq([to : Actor, direct : BOOLEAN]),
         handled' \subseteq 1..Len(sent'),
         mQueuedMessages' = [a \in Actor |-> <<>>],
         UNCHANGED mOutgoingMessages, mOutgoingMessages' \in Seq(1..Len(sent')),
         \A j \in 1..Len(mOutgoingMessages) : ~sent'[mOutgoingMessages[j]].direct,
         \A j, k \in 1..Len(mOutgoingMessages) :
           j < k /\ sent'[mOutgoingMessages[j]] = sent'[mOutgoingMessages[k]]
             => mOutgoingMessages[j] < mOutgoingMessages[k],
         mIncomingMessages' \in [Actor -> Seq(1..Len(sent'))],
         \A a \in Actor :
           LET box == mIncomingMessages'[a]
           IN  /\ \A j, k \in 1..Len(box) :
                    j < k /\ sent'[box[j]] = sent'[box[k]] => box[j] < box[k]
               /\ box # <<>> => mActive'[a]
               /\ \A k \in 1..Len(box) :
                    /\ sent'[box[k]].to = a
                    /\ \A j \in 1..Len(mOutgoingMessages) :
                         sent'[box[k]] = sent'[mOutgoingMessages[j]] => box[k] < mOutgoingMessages[j],
         \A k \in 1..Len(sent') :
           Live(k)' <=> Has(mOutgoingMessages', k) \/ Has(mIncomingMessages'[sent'[k].to], k)
  PROVE  MailFits'
BY DEF MailFits, InOrder

\* A message more does not change which one is being handled.
LEMMA LiveGrows ==
  ASSUME IInv, UNCHANGED <<pc, running, handled>>,
         \A a \in Actor : mIncomingMessages[a] # <<>> =>
           Head(mIncomingMessages'[a]) = Head(mIncomingMessages[a])
  PROVE  \A m : Live(m)' <=> Live(m)
<1>1. CASE Handling
  <2>1. running \in Actor /\ running = iterator.current
    BY <1>1, NotASentinel DEF Handling, IInv, Whereabouts
  <2>2. mIncomingMessages[running] # <<>>
    <3>1. mail.current /\ Len(mIncomingMessages[running]) >= 1
      BY <1>1, <2>1 DEF Handling, IInv, MailAtWork
    <3>2. Len(<<>>) = 0
      OBVIOUS
    <3>. QED
      BY <3>1, <3>2
  <2>3. Head(mIncomingMessages'[running]) = Head(mIncomingMessages[running])
    BY <2>1, <2>2
  <2>. QED
    BY <2>3 DEF Live, BeingHandled
<1>2. CASE ~Handling
  BY <1>2 DEF Live, BeingHandled, Handling
<1>. QED
  BY <1>1, <1>2

\* The messages when one is queued at its receiver.
LEMMA DirectMail ==
  ASSUME IInv, NEW b \in Actor,
         sent' = Append(sent, [to |-> b, direct |-> TRUE]),
         mIncomingMessages' = [mIncomingMessages EXCEPT ![b] = Append(@, Len(sent) + 1)],
         UNCHANGED <<pc, running, mQueuedMessages, mOutgoingMessages, handled>>,
         \A a \in Actor : (mActive'[a] <=> mActive[a] \/ a = b)
  PROVE  /\ MailFits'
         /\ \A a \in Actor : Len(mIncomingMessages[a]) <= Len(mIncomingMessages'[a])
         /\ \A a \in Actor : mIncomingMessages[a] # <<>> =>
              Head(mIncomingMessages'[a]) = Head(mIncomingMessages[a])
<1>. DEFINE m == Len(sent) + 1
            own == mIncomingMessages[b]
            mine == Append(own, m)
<1>0. /\ MailFits
      /\ mIncomingMessages \in [Actor -> Seq(1..Len(sent))]
      /\ mOutgoingMessages \in Seq(1..Len(sent)) /\ handled \subseteq 1..Len(sent)
  BY DEF IInv, MailFits
<1>1. /\ m \in Nat /\ Len(sent) \in Nat /\ Len(sent') = m /\ m \in 1..m
      /\ sent' \in Seq([to : Actor, direct : BOOLEAN])
      /\ sent'[m].to = b /\ sent'[m].direct = TRUE
      /\ \A k \in 1..Len(sent) : sent'[k] = sent[k] /\ k # m /\ k < m /\ k \in 1..m
      /\ \A k \in 1..m : k \in 1..Len(sent) \/ k = m
      /\ \A c : c \in Seq(1..Len(sent)) =>
           c \in Seq(1..m) /\ \A k \in 1..Len(c) : c[k] \in 1..Len(sent)
  BY <1>0, Grown
<1>2. own \in Seq(1..m) /\ Len(own) \in Nat
  BY <1>0, <1>1
<1>. HIDE DEF m, own
<1>3. /\ mine \in Seq(1..m) /\ mine # <<>> /\ Len(mine) = Len(own) + 1
      /\ \A k \in 1..Len(own) : mine[k] = own[k]
      /\ mine[Len(own) + 1] = m
      /\ \A k \in 1..(Len(own) + 1) : k \in 1..Len(own) \/ k = Len(own) + 1
      /\ \A y : Has(mine, y) <=> Has(own, y) \/ y = m
      /\ own # <<>> => Head(mine) = Head(own)
  <2>. DEFINE M == 1..m
  <2>1. own \in Seq(M) /\ m \in M
    BY <1>1, <1>2
  <2>. HIDE DEF M
  <2>2. mine \in Seq(M)
    BY <2>1, AppendFacts
  <2>. QED
    BY <2>1, <2>2, AppendFacts DEF M
<1>. HIDE DEF mine
<1>4. /\ mIncomingMessages'[b] = mine
      /\ \A a \in Actor : a # b => mIncomingMessages'[a] = mIncomingMessages[a]
      /\ mIncomingMessages' \in [Actor -> Seq(1..m)]
  <2>1. mIncomingMessages' = [mIncomingMessages EXCEPT ![b] = mine]
    BY DEF mine, own, m
  <2>2. \A a \in Actor : mIncomingMessages[a] \in Seq(1..m)
    BY <1>0, <1>1
  <2>. QED
    BY <1>0, <1>3, <2>1, <2>2
<1>5. \A a \in Actor : mIncomingMessages[a] # <<>> =>
        Head(mIncomingMessages'[a]) = Head(mIncomingMessages[a])
  BY <1>3, <1>4 DEF own
<1>6. \A k : Live(k)' <=> Live(k)
  BY <1>5, LiveGrows
<1>7. \A a \in Actor : Len(mIncomingMessages[a]) <= Len(mIncomingMessages'[a])
  <2>1. ASSUME NEW a \in Actor, a # b PROVE Len(mIncomingMessages[a]) <= Len(mIncomingMessages'[a])
    <3>. DEFINE n == Len(mIncomingMessages[a])
    <3>1. n \in Nat /\ mIncomingMessages'[a] = mIncomingMessages[a]
      BY <1>0, <1>4, <2>1
    <3>. HIDE DEF n
    <3>. QED
      BY <3>1 DEF n
  <2>2. Len(own) <= Len(mine)
    BY <1>2, <1>3
  <2>. QED
    BY <1>4, <2>1, <2>2 DEF own
<1>8. ASSUME NEW a \in Actor
      PROVE  LET box == mIncomingMessages'[a]
             IN  /\ \A j, k \in 1..Len(box) :
                      j < k /\ sent'[box[j]] = sent'[box[k]] => box[j] < box[k]
                 /\ box # <<>> => mActive'[a]
                 /\ \A k \in 1..Len(box) :
                      /\ sent'[box[k]].to = a
                      /\ \A j \in 1..Len(mOutgoingMessages) :
                           sent'[box[k]] = sent'[mOutgoingMessages[j]] => box[k] < mOutgoingMessages[j]
  <2>. DEFINE old == mIncomingMessages[a]
  <2>1. /\ InOrder(old)
        /\ old # <<>> => mActive[a]
        /\ \A k \in 1..Len(old) :
             /\ sent[old[k]].to = a
             /\ \A j \in 1..Len(mOutgoingMessages) :
                  sent[old[k]] = sent[mOutgoingMessages[j]] => old[k] < mOutgoingMessages[j]
        /\ \A j \in 1..Len(mOutgoingMessages) : ~sent[mOutgoingMessages[j]].direct
    BY <1>0 DEF MailFits
  <2>2. /\ \A k \in 1..Len(old) : old[k] \in 1..Len(sent) /\ sent'[old[k]] = sent[old[k]] /\ old[k] < m
        /\ \A j \in 1..Len(mOutgoingMessages) :
             sent'[mOutgoingMessages[j]] = sent[mOutgoingMessages[j]]
    <3>1. old \in Seq(1..Len(sent))
      BY <1>0
    <3>. HIDE DEF old
    <3>. QED
      BY <1>0, <1>1, <3>1
  <2>3. /\ \A j, k \in 1..Len(old) :
             j < k /\ sent'[old[j]] = sent'[old[k]] => old[j] < old[k]
        /\ \A k \in 1..Len(old) :
             /\ sent'[old[k]].to = a
             /\ \A j \in 1..Len(mOutgoingMessages) :
                  sent'[old[k]] = sent'[mOutgoingMessages[j]] => old[k] < mOutgoingMessages[j]
    <3>. HIDE DEF old
    <3>. QED
      BY <2>1, <2>2, ZenonT(60) DEF InOrder
  <2>4. CASE a # b
    <3>1. mIncomingMessages'[a] = old /\ (mActive[a] => mActive'[a])
      BY <1>4, <2>4
    <3>. HIDE DEF old
    <3>2. old # <<>> => mActive'[a]
      BY <2>1, <3>1
    <3>. DEFINE box == mIncomingMessages'[a]
    <3>3. box = old
      BY <3>1
    <3>. HIDE DEF box
    <3>4. /\ \A j, k \in 1..Len(box) :
               j < k /\ sent'[box[j]] = sent'[box[k]] => box[j] < box[k]
          /\ \A k \in 1..Len(box) :
               /\ sent'[box[k]].to = a
               /\ \A j \in 1..Len(mOutgoingMessages) :
                    sent'[box[k]] = sent'[mOutgoingMessages[j]] => box[k] < mOutgoingMessages[j]
      BY <2>3, <3>3
    <3>. QED
      BY <3>2, <3>3, <3>4 DEF box
  <2>5. CASE a = b
    <3>1. old = own
      BY <2>5 DEF own
    <3>. HIDE DEF old
    <3>2. ASSUME NEW j \in 1..Len(mine), NEW k \in 1..Len(mine), j < k,
                 sent'[mine[j]] = sent'[mine[k]]
          PROVE  mine[j] < mine[k]
      <4>1. j \in 1..Len(own) /\ mine[j] = own[j] /\ mine[j] < m
        BY <1>2, <1>3, <2>2, <3>1, <3>2
      <4>2. CASE k \in 1..Len(own)
        BY <1>3, <2>3, <3>1, <3>2, <4>1, <4>2
      <4>3. CASE k = Len(own) + 1
        BY <1>3, <4>1, <4>3
      <4>. QED
        BY <1>3, <4>2, <4>3
    <3>3. ASSUME NEW k \in 1..Len(mine)
          PROVE  /\ sent'[mine[k]].to = a
                 /\ \A j \in 1..Len(mOutgoingMessages) :
                      sent'[mine[k]] = sent'[mOutgoingMessages[j]] => mine[k] < mOutgoingMessages[j]
      <4>1. CASE k \in 1..Len(own)
        BY <1>3, <2>3, <3>1, <4>1
      <4>2. CASE k = Len(own) + 1
        <5>1. mine[k] = m
          BY <1>3, <4>2
        <5>2. \A j \in 1..Len(mOutgoingMessages) : ~sent'[mOutgoingMessages[j]].direct
          BY <2>1, <2>2
        <5>3. sent'[m].direct /\ sent'[m].to = b
          BY <1>1
        <5>4. \A j \in 1..Len(mOutgoingMessages) : sent'[m] # sent'[mOutgoingMessages[j]]
          BY <5>2, <5>3
        <5>. QED
          BY <2>5, <5>1, <5>3, <5>4
      <4>. QED
        BY <1>3, <4>1, <4>2
    <3>. DEFINE box == mIncomingMessages'[a]
    <3>4. box = mine /\ mActive'[a]
      BY <1>4, <2>5
    <3>. HIDE DEF box
    <3>5. \A j, k \in 1..Len(box) :
            j < k /\ sent'[box[j]] = sent'[box[k]] => box[j] < box[k]
      BY <3>2, <3>4
    <3>6. \A k \in 1..Len(box) :
            /\ sent'[box[k]].to = a
            /\ \A j \in 1..Len(mOutgoingMessages) :
                 sent'[box[k]] = sent'[mOutgoingMessages[j]] => box[k] < mOutgoingMessages[j]
      BY <3>3, <3>4
    <3>. QED
      BY <3>4, <3>5, <3>6 DEF box
  <2>. QED
    BY <2>4, <2>5
<1>9. ASSUME NEW k \in 1..m
      PROVE  Live(k)' <=> Has(mOutgoingMessages, k) \/ Has(mIncomingMessages'[sent'[k].to], k)
  <2>1. CASE k \in 1..Len(sent)
    <3>1. Live(k) <=> Has(mOutgoingMessages, k) \/ Has(mIncomingMessages[sent[k].to], k)
      BY <1>0, <2>1 DEF MailFits
    <3>2. sent'[k] = sent[k] /\ k # m
      BY <1>1, <2>1
    <3>3. sent[k].to \in Actor
      <4>. DEFINE T == [to : Actor, direct : BOOLEAN]
      <4>1. sent'[k] \in T
        BY <1>1, ElementOfSeq
      <4>. QED
        BY <3>2, <4>1
    <3>4. \A a \in Actor : Has(mIncomingMessages'[a], k) <=> Has(mIncomingMessages[a], k)
      BY <1>3, <1>4, <3>2 DEF own
    <3>. QED
      BY <1>6, <3>1, <3>2, <3>3, <3>4
  <2>2. CASE k = m
    <3>1. k \notin handled
      BY <1>0, <1>1, <2>2
    <3>2. Live(k)'
      BY <3>1 DEF Live
    <3>3. Has(mIncomingMessages'[sent'[k].to], k)
      <4>1. Has(mine, m) /\ mIncomingMessages'[b] = mine /\ sent'[m].to = b
        BY <1>1, <1>3, <1>4
      <4>. QED
        BY <2>2, <4>1
    <3>. QED
      BY <3>2, <3>3
  <2>. QED
    BY <1>1, <2>1, <2>2
<1>10. MailFits'
  <2>1. /\ mQueuedMessages' = [a \in Actor |-> <<>>]
        /\ handled' \subseteq 1..m
        /\ mOutgoingMessages' \in Seq(1..m)
        /\ mOutgoingMessages' = mOutgoingMessages
    BY <1>0, <1>1 DEF MailFits
  <2>2. /\ \A j \in 1..Len(mOutgoingMessages) : ~sent'[mOutgoingMessages[j]].direct
        /\ \A j, k \in 1..Len(mOutgoingMessages) :
             j < k /\ sent'[mOutgoingMessages[j]] = sent'[mOutgoingMessages[k]]
               => mOutgoingMessages[j] < mOutgoingMessages[k]
    <3>1. \A j \in 1..Len(mOutgoingMessages) :
             sent'[mOutgoingMessages[j]] = sent[mOutgoingMessages[j]]
      BY <1>0, <1>1
    <3>. QED
      BY <1>0, <3>1 DEF MailFits, InOrder
  <2>4. \A k \in 1..m :
          Live(k)' <=> Has(mOutgoingMessages', k) \/ Has(mIncomingMessages'[sent'[k].to], k)
    BY <1>9, <2>1
  <2>5. Len(sent') = m /\ sent' \in Seq([to : Actor, direct : BOOLEAN])
    BY <1>1
  <2>6. mIncomingMessages' \in [Actor -> Seq(1..Len(sent'))]
    BY <1>4, <2>5
  <2>. HIDE DEF m
  <2>7. handled' \subseteq 1..Len(sent') /\ mOutgoingMessages' \in Seq(1..Len(sent'))
    BY <2>1, <2>5
  <2>8. \A k \in 1..Len(sent') :
          Live(k)' <=> Has(mOutgoingMessages', k) \/ Has(mIncomingMessages'[sent'[k].to], k)
    BY <2>4, <2>5
  <2>. QED
    BY <1>8, <2>1, <2>2, <2>5, <2>6, <2>7, <2>8, MailNext
<1>. QED
  BY <1>5, <1>7, <1>10

\* What the messages after a step that leaves the incoming ones must be like.
LEMMA OutgoingNext ==
  ASSUME sent' \in Seq([to : Actor, direct : BOOLEAN]),
         handled' \subseteq 1..Len(sent'),
         mQueuedMessages' = [a \in Actor |-> <<>>],
         UNCHANGED <<mIncomingMessages, mActive>>,
         NEW out, mOutgoingMessages' = out, out \in Seq(1..Len(sent')),
         \A j \in 1..Len(out) : ~sent'[out[j]].direct,
         \A j, k \in 1..Len(out) : j < k /\ sent'[out[j]] = sent'[out[k]] => out[j] < out[k],
         mIncomingMessages \in [Actor -> Seq(1..Len(sent'))],
         \A a \in Actor :
           LET box == mIncomingMessages[a]
           IN  /\ \A j, k \in 1..Len(box) :
                    j < k /\ sent'[box[j]] = sent'[box[k]] => box[j] < box[k]
               /\ box # <<>> => mActive[a]
               /\ \A k \in 1..Len(box) :
                    /\ sent'[box[k]].to = a
                    /\ \A j \in 1..Len(out) : sent'[box[k]] = sent'[out[j]] => box[k] < out[j],
         \A k \in 1..Len(sent') :
           Live(k)' <=> Has(out, k) \/ Has(mIncomingMessages[sent'[k].to], k)
  PROVE  MailFits'
BY DEF MailFits, InOrder

\* The messages when one is queued for the next cycle.
LEMMA OutgoingMail ==
  ASSUME IInv, NEW b \in Actor,
         sent' = Append(sent, [to |-> b, direct |-> FALSE]),
         mOutgoingMessages' = Append(mOutgoingMessages, Len(sent) + 1),
         UNCHANGED <<pc, running, mQueuedMessages, mIncomingMessages, mActive, handled>>
  PROVE  MailFits'
<1>. DEFINE m == Len(sent) + 1
            old == mOutgoingMessages
            out == Append(old, m)
<1>0. /\ MailFits
      /\ mIncomingMessages \in [Actor -> Seq(1..Len(sent))]
      /\ old \in Seq(1..Len(sent)) /\ handled \subseteq 1..Len(sent)
      /\ mQueuedMessages' = [a \in Actor |-> <<>>]
  BY DEF IInv, MailFits
<1>1. /\ m \in Nat /\ Len(sent) \in Nat /\ Len(sent') = m /\ m \in 1..m
      /\ sent' \in Seq([to : Actor, direct : BOOLEAN])
      /\ sent'[m].to = b /\ ~sent'[m].direct
      /\ \A k \in 1..Len(sent) : sent'[k] = sent[k] /\ k # m /\ k < m /\ k \in 1..m
      /\ \A k \in 1..m : k \in 1..Len(sent) \/ k = m
      /\ \A c : c \in Seq(1..Len(sent)) =>
           c \in Seq(1..m) /\ \A k \in 1..Len(c) : c[k] \in 1..Len(sent)
  <2>1. /\ m \in Nat /\ Len(sent) \in Nat /\ Len(sent') = m /\ m \in 1..m
        /\ sent' \in Seq([to : Actor, direct : BOOLEAN])
        /\ sent'[m].to = b /\ sent'[m].direct = FALSE
        /\ \A k \in 1..Len(sent) : sent'[k] = sent[k] /\ k # m /\ k < m /\ k \in 1..m
        /\ \A k \in 1..m : k \in 1..Len(sent) \/ k = m
        /\ \A c : c \in Seq(1..Len(sent)) =>
             c \in Seq(1..m) /\ \A k \in 1..Len(c) : c[k] \in 1..Len(sent)
    BY <1>0, Grown
  <2>. QED
    BY <2>1
<1>2. old \in Seq(1..m) /\ Len(old) \in Nat
  BY <1>0, <1>1
<1>. HIDE DEF m, old
<1>3. /\ out \in Seq(1..m) /\ Len(out) = Len(old) + 1
      /\ \A k \in 1..Len(old) : out[k] = old[k]
      /\ out[Len(old) + 1] = m
      /\ \A k \in 1..(Len(old) + 1) : k \in 1..Len(old) \/ k = Len(old) + 1
      /\ \A y : Has(out, y) <=> Has(old, y) \/ y = m
  <2>. DEFINE M == 1..m
  <2>1. old \in Seq(M) /\ m \in M
    BY <1>1, <1>2
  <2>. HIDE DEF M, out
  <2>2. /\ Append(old, m) \in Seq(M) /\ Len(Append(old, m)) = Len(old) + 1
        /\ \A k \in 1..Len(old) : Append(old, m)[k] = old[k]
        /\ Append(old, m)[Len(old) + 1] = m
        /\ \A k \in 1..(Len(old) + 1) : k \in 1..Len(old) \/ k = Len(old) + 1
        /\ \A y : Has(Append(old, m), y) <=> Has(old, y) \/ y = m
    BY <2>1, AppendFacts
  <2>3. out = Append(old, m)
    BY DEF out
  <2>. HIDE DEF out
  <2>. QED
    BY <2>2, <2>3 DEF M
<1>4. mOutgoingMessages' = out
  BY DEF out, old, m
<1>. HIDE DEF out
<1>5. \A k : Live(k)' <=> Live(k)
  BY DEF Live, BeingHandled
<1>6. /\ \A k \in 1..Len(old) : old[k] \in 1..Len(sent) /\ old[k] < m /\ sent'[old[k]] = sent[old[k]]
      /\ InOrder(old)
      /\ \A k \in 1..Len(old) : ~sent[old[k]].direct
  <2>1. InOrder(old) /\ \A k \in 1..Len(old) : ~sent[old[k]].direct
    BY <1>0 DEF MailFits, old
  <2>. QED
    BY <1>0, <1>1, <2>1
<1>7. \A j \in 1..Len(out) : ~sent'[out[j]].direct
  BY <1>1, <1>3, <1>6
<1>8. ASSUME NEW j \in 1..Len(out), NEW k \in 1..Len(out), j < k, sent'[out[j]] = sent'[out[k]]
      PROVE  out[j] < out[k]
  <2>1. j \in 1..Len(old) /\ out[j] = old[j] /\ old[j] < m
    BY <1>2, <1>3, <1>6, <1>8
  <2>2. CASE k \in 1..Len(old)
    BY <1>3, <1>6, <1>8, <2>1, <2>2, SMTT(60) DEF InOrder
  <2>3. CASE k = Len(old) + 1
    BY <1>3, <2>1, <2>3
  <2>. QED
    BY <1>3, <2>2, <2>3
<1>9. ASSUME NEW a \in Actor
      PROVE  LET box == mIncomingMessages[a]
             IN  /\ \A j, k \in 1..Len(box) :
                      j < k /\ sent'[box[j]] = sent'[box[k]] => box[j] < box[k]
                 /\ box # <<>> => mActive[a]
                 /\ \A k \in 1..Len(box) :
                      /\ sent'[box[k]].to = a
                      /\ \A j \in 1..Len(out) : sent'[box[k]] = sent'[out[j]] => box[k] < out[j]
  <2>. DEFINE box == mIncomingMessages[a]
  <2>1. /\ InOrder(box)
        /\ box # <<>> => mActive[a]
        /\ \A k \in 1..Len(box) :
             /\ sent[box[k]].to = a
             /\ \A j \in 1..Len(old) : sent[box[k]] = sent[old[j]] => box[k] < old[j]
    BY <1>0 DEF MailFits, old
  <2>2. box \in Seq(1..Len(sent))
    BY <1>0
  <2>. HIDE DEF box
  <2>3. \A k \in 1..Len(box) : box[k] \in 1..Len(sent) /\ box[k] < m /\ sent'[box[k]] = sent[box[k]]
    BY <1>1, <2>2
  <2>4. ASSUME NEW k \in 1..Len(box), NEW j \in 1..Len(out), sent'[box[k]] = sent'[out[j]]
        PROVE  box[k] < out[j]
    <3>1. CASE j \in 1..Len(old)
      <4>1. out[j] = old[j] /\ sent'[old[j]] = sent[old[j]]
        BY <1>3, <1>6, <3>1
      <4>2. sent[box[k]] = sent[old[j]]
        BY <2>3, <2>4, <4>1
      <4>. QED
        BY <2>1, <3>1, <4>1, <4>2
    <3>2. CASE j = Len(old) + 1
      BY <1>3, <2>3, <3>2
    <3>. QED
      BY <1>3, <3>1, <3>2
  <2>5. /\ \A j, k \in 1..Len(box) : j < k /\ sent'[box[j]] = sent'[box[k]] => box[j] < box[k]
        /\ \A k \in 1..Len(box) : sent'[box[k]].to = a
    BY <2>1, <2>3 DEF InOrder
  <2>. QED
    BY <2>1, <2>4, <2>5 DEF box
<1>10. ASSUME NEW k \in 1..m
       PROVE  Live(k)' <=> Has(out, k) \/ Has(mIncomingMessages[sent'[k].to], k)
  <2>1. CASE k \in 1..Len(sent)
    <3>1. Live(k) <=> Has(old, k) \/ Has(mIncomingMessages[sent[k].to], k)
      BY <1>0, <2>1 DEF MailFits, old
    <3>2. sent'[k] = sent[k] /\ k # m
      BY <1>1, <2>1
    <3>. QED
      BY <1>3, <1>5, <3>1, <3>2
  <2>2. CASE k = m
    <3>1. k \notin handled
      BY <1>0, <1>1, <2>2
    <3>. QED
      BY <1>3, <2>2, <3>1 DEF Live
  <2>. QED
    BY <1>1, <2>1, <2>2
<1>11. /\ mIncomingMessages \in [Actor -> Seq(1..m)]
       /\ handled' \subseteq 1..m
  <2>1. \A a \in Actor : mIncomingMessages[a] \in Seq(1..m)
    BY <1>0, <1>1
  <2>. QED
    BY <1>0, <1>1, <2>1
<1>12. UNCHANGED <<mIncomingMessages, mActive>> /\ Len(sent') = m
  BY <1>1
<1>13. /\ sent' \in Seq([to : Actor, direct : BOOLEAN]) /\ handled' \subseteq 1..Len(sent')
       /\ mIncomingMessages \in [Actor -> Seq(1..Len(sent'))]
       /\ out \in Seq(1..Len(sent'))
       /\ \A k \in 1..Len(sent') : Live(k)' <=> Has(out, k) \/ Has(mIncomingMessages[sent'[k].to], k)
  BY <1>1, <1>3, <1>10, <1>11
<1>. QED
  BY <1>0, <1>4, <1>7, <1>8, <1>9, <1>12, <1>13, OutgoingNext

\* The receiver of a direct message becomes active; other messages wait for
\* the next cycle.
LEMMA QueueMessageKeeps ==
  ASSUME IInv, RulesKept, NEW b \in Actor, NEW direct \in BOOLEAN, queueMessage(b, direct)
  PROVE  IInv'
<1>1. /\ UNCHANGED <<mQueuedMessages, handled, timing, position, now>>
      /\ UNCHANGED <<mTimeouts, timeouts>>
      /\ UNCHANGED <<pc, running, iterator, timer, mail, wake, events, mMilliseconds>>
      /\ sent' = Append(sent, [to |-> b, direct |-> direct])
  BY DEF queueMessage, timing, position
<1>2. pc = "setup" \/ running # Null
  BY NotASentinel DEF queueMessage, CodeOf
<1>3. pc # "poll" /\ pc # "wait" /\ pc # "deliver"
  BY <1>2 DEF IInv, Whereabouts
<1>4. /\ MailFits'
      /\ \A a \in Actor : Len(mIncomingMessages[a]) <= Len(mIncomingMessages'[a])
      /\ \A a \in Actor : mIncomingMessages[a] # <<>> =>
           Head(mIncomingMessages'[a]) = Head(mIncomingMessages[a])
      /\ Fit(links', mActive', Times, Spared)
      /\ Contents(links')["actors"] = Loop
      /\ pc = "waitTimers" => FirstTwo(Waiting(links')) = FirstTwo(Waiting(links))
  <2>1. CASE direct
    <3>. DEFINE st == Activated([links |-> links, active |-> mActive], b)
    <3>1. /\ mIncomingMessages' = [mIncomingMessages EXCEPT ![b] = Append(@, Len(sent) + 1)]
          /\ links' = st.links /\ mActive' = st.active
          /\ UNCHANGED mOutgoingMessages /\ MaySend(b)
      BY <2>1 DEF queueMessage, activateActor, Queued
    <3>2. Times \in [Actor -> Nat] /\ Fit(links, mActive, Times, Spared)
      BY TimesAre DEF IInv, ListsFit
    <3>. HIDE DEF st
    <3>3. /\ Fit(st.links, st.active, Times, Spared)
          /\ \A a \in Actor : st.active[a] <=> mActive[a] \/ a = b
          /\ Contents(st.links)["actors"] = Contents(links)["actors"]
          /\ mActive[b] \/ (b # Nth(Waiting(links), 1) /\ b # Nth(Waiting(links), 2)) =>
               FirstTwo(Waiting(st.links)) = FirstTwo(Waiting(links))
      BY <3>2, Activates DEF st
    <3>4. pc = "waitTimers" => FirstTwo(Waiting(st.links)) = FirstTwo(Waiting(links))
      <4>1. SUFFICES ASSUME pc = "waitTimers" PROVE FirstTwo(Waiting(st.links)) = FirstTwo(Waiting(links))
        OBVIOUS
      <4>2. b \in {iterator.current, iterator.subsequent} => mActive[b]
        BY <3>1, <4>1 DEF MaySend, RulesKept
      <4>3. /\ iterator.current = Nth(Waiting(links), 1)
            /\ iterator.subsequent = Nth(Waiting(links), 2)
        BY <4>1 DEF IInv, Whereabouts, FirstTwo
      <4>. QED
        BY <3>3, <4>2, <4>3
    <3>5. \A a \in Actor : mActive'[a] <=> mActive[a] \/ a = b
      BY <3>1, <3>3
    <3>6. sent' = Append(sent, [to |-> b, direct |-> TRUE])
      BY <1>1, <2>1
    <3>7. /\ MailFits'
          /\ \A a \in Actor : Len(mIncomingMessages[a]) <= Len(mIncomingMessages'[a])
          /\ \A a \in Actor : mIncomingMessages[a] # <<>> =>
               Head(mIncomingMessages'[a]) = Head(mIncomingMessages[a])
      BY <1>1, <3>1, <3>5, <3>6, DirectMail
    <3>. QED
      BY <3>1, <3>3, <3>4, <3>7 DEF Loop
  <2>2. CASE ~direct
    <3>1. /\ mOutgoingMessages' = Append(mOutgoingMessages, Len(sent) + 1)
          /\ UNCHANGED <<mIncomingMessages, links, mActive>>
      BY <2>2 DEF queueMessage, Queued
    <3>2. sent' = Append(sent, [to |-> b, direct |-> FALSE])
      BY <1>1, <2>2
    <3>3. MailFits'
      BY <1>1, <3>1, <3>2, OutgoingMail
    <3>4. \A a \in Actor : Len(mIncomingMessages[a]) \in Nat
      BY DEF IInv, MailFits
    <3>5. \A a \in Actor : Len(mIncomingMessages[a]) <= Len(mIncomingMessages'[a])
      <4>1. \A n \in Nat : n <= n
        OBVIOUS
      <4>. QED
        BY <3>1, <3>4, <4>1
    <3>. QED
      BY <3>1, <3>3, <3>5 DEF IInv, ListsFit, Loop
  <2>. QED
    BY <2>1, <2>2
<1>5. ListsFit'
  <2>1. Times' = Times /\ Spared' = Spared
    BY <1>1 DEF Times, nextTimeoutMilliseconds, TimeOf, Spared
  <2>. QED
    BY <1>4, <2>1 DEF ListsFit, Fit, Contents, Waiting, ScheduledIn
<1>6. TimeoutsFit'
  <2>1. now' \in Nat /\ now <= now'
    BY <1>1 DEF IInv, TimeoutsFit
  <2>. QED
    BY <1>1, <2>1, TimeoutsSame DEF IInv
<1>7. Whereabouts'
  <2>1. Loop' = Loop /\ (pc = "waitTimers" => FirstTwo(Waiting(links))' = FirstTwo(Waiting(links)))
    BY <1>4 DEF Loop, Contents, Waiting
  <2>. QED
    BY <1>1, <1>3, <2>1 DEF IInv, Whereabouts
<1>8. MailAtWork'
  <2>1. SUFFICES ASSUME pc = "messages" PROVE MailAtWork'
    BY <1>1 DEF MailAtWork
  <2>. DEFINE a == iterator.current
              n == Len(mIncomingMessages[a])
              n1 == Len(mIncomingMessages'[a])
  <2>2. a \in Actor
    BY <2>1 DEF IInv, Whereabouts
  <2>3. n \in Nat /\ n1 \in Nat /\ n <= n1
    BY <1>4, <2>2 DEF IInv, MailFits
  <2>4. /\ mail.current => n >= 1
        /\ mail.subsequent => n >= 2
        /\ running # Null => mail.current /\ Head(mIncomingMessages[a]) \in handled
    BY <2>1 DEF IInv, MailAtWork
  <2>5. running # Null => mIncomingMessages[a] # <<>>
    <3>1. Len(<<>>) = 0
      OBVIOUS
    <3>. QED
      BY <2>4, <3>1
  <2>6. running # Null => Head(mIncomingMessages'[a]) \in handled
    BY <1>4, <2>2, <2>4, <2>5
  <2>. HIDE DEF n, n1
  <2>7. (mail.current => n1 >= 1) /\ (mail.subsequent => n1 >= 2)
    BY <2>3, <2>4
  <2>. QED
    BY <1>1, <2>4, <2>6, <2>7 DEF MailAtWork, n1
<1>9. FirstInFirstHandled'
  <2>1. /\ handled \subseteq 1..Len(sent) /\ MailFits
        /\ \A m \in handled : \A k \in 1..(m - 1) : sent[k] = sent[m] => k \in handled
    BY DEF IInv, MailFits, FirstInFirstHandled
  <2>2. Len(sent) \in Nat /\ \A k \in 1..Len(sent) : sent'[k] = sent[k]
    BY <1>1, <2>1, Grown
  <2>3. ASSUME NEW m \in handled, NEW k \in 1..(m - 1), sent'[k] = sent'[m] PROVE k \in handled
    <3>1. m \in 1..Len(sent) /\ k \in 1..Len(sent)
      BY <2>1, <2>2
    <3>. QED
      BY <2>1, <2>2, <2>3, <3>1
  <2>. QED
    BY <1>1, <2>3 DEF FirstInFirstHandled
<1>10. NoOversleeping'
  BY <1>1, <1>3 DEF NoOversleeping
<1>. QED
  BY <1>4, <1>5, <1>6, <1>7, <1>8, <1>9, <1>10 DEF IInv

-----------------------------------------------------------------------------
(* The top of the loop: outgoing messages are delivered *)

\* What a delivery starts from and leaves.
Deliverable ==
  {st \in [links : Links, active : [Actor -> BOOLEAN], queued : [Actor -> Seq(1..Len(sent))]] :
     Fit(st.links, st.active, Times, Null) /\ Contents(st.links)["actors"] = <<>>}

LEMMA DeliversOne ==
  ASSUME MailFits, Times \in [Actor -> Nat], NEW st \in Deliverable, NEW m \in 1..Len(sent),
         NEW a, a = sent[m].to, NEW dt, dt = Delivered(st, m)
  PROVE  /\ dt \in Deliverable /\ a \in Actor
         /\ \A b \in Actor : dt.active[b] <=> st.active[b] \/ b = a
         /\ dt.queued[a] = Queued(st.queued[a], m)
         /\ \A b \in Actor : b # a => dt.queued[b] = st.queued[b]
<1>1. a \in Actor
  <2>. DEFINE T == [to : Actor, direct : BOOLEAN]
  <2>1. sent \in Seq(T)
    BY DEF MailFits
  <2>. HIDE DEF T
  <2>2. sent[m] \in T
    BY <2>1, ElementOfSeq
  <2>. QED
    BY <2>2 DEF T
<1>. DEFINE start == [links |-> st.links, active |-> st.active]
            x == Activated(start, a)
            filled == [st.queued EXCEPT ![a] = Append(@, m)]
<1>2. /\ Fit(st.links, st.active, Times, Null) /\ Contents(st.links)["actors"] = <<>>
      /\ st.queued \in [Actor -> Seq(1..Len(sent))]
  BY DEF Deliverable
<1>. HIDE DEF x
<1>3. /\ Fit(x.links, x.active, Times, Null)
      /\ \A b \in Actor : x.active[b] <=> st.active[b] \/ b = a
      /\ Contents(x.links)["actors"] = <<>>
  BY <1>1, <1>2, Activates DEF x
<1>4. dt = [links |-> x.links, active |-> x.active, queued |-> filled]
  BY DEF Delivered, x
<1>5. x.links \in Links /\ x.active \in [Actor -> BOOLEAN]
  BY <1>3 DEF Fit, Sound
<1>6. /\ filled \in [Actor -> Seq(1..Len(sent))]
      /\ filled[a] = Append(st.queued[a], m)
      /\ \A b \in Actor : b # a => filled[b] = st.queued[b]
  <2>. DEFINE N == 1..Len(sent)
  <2>1. m \in N /\ st.queued \in [Actor -> Seq(N)]
    BY <1>2
  <2>. HIDE DEF N
  <2>2. st.queued[a] \in Seq(N)
    BY <1>1, <2>1
  <2>3. Append(st.queued[a], m) \in Seq(N)
    BY <2>1, <2>2, AppendProperties
  <2>4. filled \in [Actor -> Seq(N)]
    BY <1>1, <2>1, <2>3
  <2>. QED
    BY <1>1, <2>1, <2>4 DEF N
<1>. HIDE DEF filled
<1>7. dt \in Deliverable
  BY <1>3, <1>4, <1>5, <1>6 DEF Deliverable
<1>8. dt.queued[a] = Queued(st.queued[a], m)
  BY <1>4, <1>6 DEF Queued
<1>. QED
  BY <1>1, <1>3, <1>4, <1>6, <1>7, <1>8

\* What is queued when the first n outgoing messages have been delivered.
Queues(queued, active, n) ==
  /\ \A b \in Actor : mActive[b] => active[b]
  /\ \A b \in Actor : queued[b] # <<>> => active[b]
  /\ \A b \in Actor : \A m \in 1..Len(sent) :
       Has(queued[b], m) <=> sent[m].to = b /\ \E i \in 1..n : mOutgoingMessages[i] = m
  /\ \A b \in Actor : InOrder(queued[b])

LEMMA QueuesMore ==
  ASSUME MailFits, Times \in [Actor -> Nat], NEW st \in Deliverable,
         NEW n \in Nat, n + 1 \in 1..Len(mOutgoingMessages), Queues(st.queued, st.active, n),
         NEW dt, dt = Delivered(st, mOutgoingMessages[n + 1])
  PROVE  dt \in Deliverable /\ Queues(dt.queued, dt.active, n + 1)
<1>. DEFINE m == mOutgoingMessages[n + 1]
            a == sent[m].to
<1>1. m \in 1..Len(sent) /\ mOutgoingMessages \in Seq(1..Len(sent)) /\ InOrder(mOutgoingMessages)
  <2>1. mOutgoingMessages \in Seq(1..Len(sent)) /\ InOrder(mOutgoingMessages)
    BY DEF MailFits
  <2>. QED
    BY <2>1, ElementOfSeq
<1>2. dt = Delivered(st, m)
  OBVIOUS
<1>. HIDE DEF m, a
<1>. DEFINE old == st.queued[a]
            new == dt.queued[a]
<1>3. /\ dt \in Deliverable /\ a \in Actor
      /\ \A b \in Actor : dt.active[b] <=> st.active[b] \/ b = a
      /\ new = Queued(old, m)
      /\ \A b \in Actor : b # a => dt.queued[b] = st.queued[b]
  <2>1. a = sent[m].to
    BY DEF a
  <2>. QED
    BY <1>1, <1>2, <2>1, DeliversOne, SMTT(60)
<1>4. \A b \in Actor : mActive[b] => dt.active[b]
  BY <1>3 DEF Queues
<1>5. \A b \in Actor : dt.queued[b] # <<>> => dt.active[b]
  BY <1>3 DEF Queues
<1>6. old \in Seq(1..Len(sent))
  BY <1>3 DEF Deliverable
<1>. HIDE DEF old, new
<1>7. /\ Len(old) \in Nat /\ Len(new) = Len(old) + 1
      /\ \A k \in 1..Len(old) : new[k] = old[k]
      /\ new[Len(old) + 1] = m
      /\ \A k \in 1..(Len(old) + 1) : k \in 1..Len(old) \/ k = Len(old) + 1
      /\ \A y : Has(new, y) <=> Has(old, y) \/ y = m
  <2>. DEFINE N == 1..Len(sent)
  <2>1. old \in Seq(N) /\ m \in N
    BY <1>1, <1>6
  <2>. HIDE DEF N
  <2>. QED
    BY <1>3, <2>1, AppendFacts DEF Queued
<1>8. ASSUME NEW b \in Actor, NEW y \in 1..Len(sent)
      PROVE  Has(dt.queued[b], y) <=> sent[y].to = b /\ \E i \in 1..(n + 1) : mOutgoingMessages[i] = y
  <2>1. Has(st.queued[b], y) <=> sent[y].to = b /\ \E i \in 1..n : mOutgoingMessages[i] = y
    BY DEF Queues
  <2>2. (\E i \in 1..(n + 1) : mOutgoingMessages[i] = y)
          <=> (\E i \in 1..n : mOutgoingMessages[i] = y) \/ y = m
    <3>1. \A i : i \in 1..(n + 1) <=> i \in 1..n \/ i = n + 1
      OBVIOUS
    <3>. QED
      BY <3>1 DEF m
  <2>3. Has(dt.queued[b], y) <=> Has(st.queued[b], y) \/ (b = a /\ y = m)
    <3>1. CASE b = a
      BY <1>7, <3>1 DEF old, new
    <3>2. CASE b # a
      BY <1>3, <3>2
    <3>. QED
      BY <3>1, <3>2
  <2>. QED
    BY <2>1, <2>2, <2>3 DEF a
<1>9. ASSUME NEW b \in Actor PROVE InOrder(dt.queued[b])
  <2>1. CASE b # a
    <3>1. dt.queued[b] = st.queued[b] /\ InOrder(st.queued[b])
      BY <1>3, <2>1 DEF Queues
    <3>. QED
      BY <3>1
  <2>2. CASE b = a
    <3>1. InOrder(old)
      BY <1>3 DEF Queues, old
    <3>2. ASSUME NEW j \in 1..Len(new), NEW k \in 1..Len(new), j < k, sent[new[j]] = sent[new[k]]
          PROVE  new[j] < new[k]
      <4>1. j \in 1..Len(old) /\ new[j] = old[j]
        BY <1>7, <3>2
      <4>2. CASE k \in 1..Len(old)
        BY <1>7, <3>1, <3>2, <4>1, <4>2 DEF InOrder
      <4>3. CASE k = Len(old) + 1
        <5>1. new[k] = m
          BY <1>7, <4>3
        <5>2. old[j] \in 1..Len(sent) /\ Has(old, old[j])
          BY <1>6, <4>1, ElementOfSeq DEF Has
        <5>3. PICK i \in 1..n : mOutgoingMessages[i] = old[j]
          <6>1. \A y \in 1..Len(sent) :
                  Has(old, y) => \E i \in 1..n : mOutgoingMessages[i] = y
            BY <1>3 DEF Queues, old
          <6>. QED
            BY <5>2, <6>1
        <5>4. i \in 1..Len(mOutgoingMessages) /\ i < n + 1
          <6>1. Len(mOutgoingMessages) \in Nat
            BY <1>1
          <6>. QED
            BY <6>1
        <5>5. mOutgoingMessages[i] < mOutgoingMessages[n + 1]
          <6>1. sent[mOutgoingMessages[i]] = sent[mOutgoingMessages[n + 1]]
            BY <3>2, <4>1, <5>1, <5>3 DEF m
          <6>. QED
            BY <1>1, <5>4, <6>1 DEF InOrder
        <5>. QED
          BY <4>1, <5>1, <5>3, <5>5 DEF m
      <4>. QED
        BY <1>7, <4>2, <4>3
    <3>3. InOrder(new)
      BY <3>2 DEF InOrder
    <3>. QED
      BY <2>2, <3>3 DEF new
  <2>. QED
    BY <2>1, <2>2
<1>. QED
  BY <1>3, <1>4, <1>5, <1>8, <1>9 DEF Queues

\* All outgoing messages are delivered in their order.
LEMMA AllDeliveredIs ==
  ASSUME IInv, pc = "deliver", NEW all, all = AllDelivered
  PROVE  all \in Deliverable /\ Queues(all.queued, all.active, Len(mOutgoingMessages))
<1>. DEFINE n == Len(mOutgoingMessages)
            start == [links |-> links, active |-> mActive, queued |-> mQueuedMessages]
            after == CHOOSE f : f = [k \in 0..n |-> IF k = 0 THEN start
                                       ELSE Delivered(f[k - 1], mOutgoingMessages[k])]
            step == [k \in 1..n |-> [st \in Deliverable |-> Delivered(st, mOutgoingMessages[k])]]
<1>1. /\ MailFits /\ Times \in [Actor -> Nat] /\ n \in Nat
      /\ mOutgoingMessages \in Seq(1..Len(sent))
      /\ \A k \in 1..n : mOutgoingMessages[k] \in 1..Len(sent)
  <2>1. MailFits /\ Times \in [Actor -> Nat] /\ mOutgoingMessages \in Seq(1..Len(sent))
    BY TimesAre DEF IInv, MailFits
  <2>. QED
    BY <2>1, ElementOfSeq
<1>2. start \in Deliverable /\ Queues(mQueuedMessages, mActive, 0)
  <2>1. /\ Fit(links, mActive, Times, Null) /\ Loop = <<>>
    BY DEF IInv, ListsFit, Spared, Whereabouts
  <2>2. links \in Links /\ mActive \in [Actor -> BOOLEAN]
    BY <2>1 DEF Fit, Sound
  <2>3. mQueuedMessages = [a \in Actor |-> <<>>]
    BY <1>1 DEF MailFits
  <2>4. mQueuedMessages \in [Actor -> Seq(1..Len(sent))]
    <3>1. <<>> \in Seq(1..Len(sent))
      OBVIOUS
    <3>. QED
      BY <2>3, <3>1
  <2>5. start \in Deliverable
    BY <2>1, <2>2, <2>4 DEF Deliverable, Loop
  <2>6. Queues(mQueuedMessages, mActive, 0)
    <3>1. \A m : ~Has(<<>>, m)
      BY DEF Has
    <3>2. InOrder(<<>>)
      BY DEF InOrder
    <3>. QED
      BY <2>3, <3>1, <3>2 DEF Queues
  <2>. QED
    BY <2>5, <2>6
<1>3. step \in [1..n -> [Deliverable -> Deliverable]]
  <2>1. ASSUME NEW k \in 1..n, NEW st \in Deliverable
        PROVE  Delivered(st, mOutgoingMessages[k]) \in Deliverable
    <3>. DEFINE m == mOutgoingMessages[k]
    <3>1. m \in 1..Len(sent)
      BY <1>1
    <3>. HIDE DEF m
    <3>2. Delivered(st, m) \in Deliverable
      BY <1>1, <3>1, DeliversOne, ZenonT(60)
    <3>. QED
      BY <3>2 DEF m
  <2>. QED
    BY <2>1
<1>4. \A k \in 1..n : \A st \in Deliverable : step[k][st] = Delivered(st, mOutgoingMessages[k])
  OBVIOUS
<1>5. start.links = links /\ start.active = mActive /\ start.queued = mQueuedMessages
  OBVIOUS
<1>. HIDE DEF step, start, n
<1>6. PICK f \in [0..n -> Deliverable] : Repeats(f, n, start, step)
  BY <1>1, <1>2, <1>3, Repeated
<1>7. f[0] = start /\ \A k \in 1..n : f[k] = Delivered(f[k - 1], mOutgoingMessages[k])
  <2>1. f[0] = start /\ \A k \in 1..n : f[k] = step[k][f[k - 1]]
    BY <1>6 DEF Repeats
  <2>2. \A k \in 1..n : k - 1 \in 0..n
    BY <1>1
  <2>. QED
    BY <1>4, <1>6, <2>1, <2>2
<1>8. after = [k \in 0..n |-> IF k = 0 THEN start ELSE Delivered(after[k - 1], mOutgoingMessages[k])]
  <2>1. ASSUME NEW k \in 0..n
        PROVE  f[k] = IF k = 0 THEN start ELSE Delivered(f[k - 1], mOutgoingMessages[k])
    <3>1. k # 0 => k \in 1..n
      BY <1>1
    <3>. QED
      BY <1>7, <3>1
  <2>2. f = [k \in 0..n |-> IF k = 0 THEN start ELSE Delivered(f[k - 1], mOutgoingMessages[k])]
    BY <1>6, <2>1
  <2>. QED
    BY <2>2
<1>9. all = after[n]
  BY DEF AllDelivered, after, n, start
<1>. HIDE DEF after
<1>10. n \in 0..n /\ after[0] = start
       /\ \A k \in 1..n : after[k] = Delivered(after[k - 1], mOutgoingMessages[k])
  BY <1>1, <1>8
<1>. DEFINE Fine(k) == after[k] \in Deliverable /\ Queues(after[k].queued, after[k].active, k)
            T == {k \in Nat : Fine(k)}
<1>11. Fine(0)
  BY <1>2, <1>5, <1>10
<1>12. ASSUME NEW k \in Nat, k < n, k \in T PROVE k + 1 \in T
  <2>1. k + 1 \in 1..Len(mOutgoingMessages) /\ (k + 1) - 1 = k
    BY <1>1, <1>12 DEF n
  <2>2. after[k + 1] = Delivered(after[k], mOutgoingMessages[k + 1])
    BY <1>10, <2>1 DEF n
  <2>3. Fine(k)
    BY <1>12
  <2>4. Fine(k + 1)
    BY <1>1, <2>1, <2>2, <2>3, QueuesMore
  <2>. QED
    BY <2>4
<1>13. n \in T
  <2>1. 0 \in T
    BY <1>11
  <2>. HIDE DEF T
  <2>2. \A k \in 0..n : k \in T
    BY <1>1, <1>12, <2>1, AllUpTo
  <2>. QED
    BY <1>10, <2>2
<1>. QED
  BY <1>9, <1>13 DEF n

LEMMA ConcatFacts ==
  ASSUME NEW T, NEW c \in Seq(T), NEW d \in Seq(T), NEW e, e = c \o d
  PROVE  /\ e \in Seq(T) /\ Len(c) \in Nat /\ Len(d) \in Nat
         /\ \A k \in 1..Len(c) : k \in 1..Len(e) /\ e[k] = c[k]
         /\ \A k \in 1..Len(d) : Len(c) + k \in 1..Len(e) /\ e[Len(c) + k] = d[k]
         /\ \A k \in 1..Len(e) : k \in 1..Len(c) \/ \E i \in 1..Len(d) : k = Len(c) + i
         /\ \A y : Has(e, y) <=> Has(c, y) \/ Has(d, y)
         /\ e # <<>> => c # <<>> \/ d # <<>>
<1>1. /\ e \in Seq(T) /\ Len(c) \in Nat /\ Len(d) \in Nat /\ Len(e) = Len(c) + Len(d)
      /\ \A k \in 1..(Len(c) + Len(d)) : e[k] = IF k <= Len(c) THEN c[k] ELSE d[k - Len(c)]
  BY ConcatProperties
<1>2. e # <<>> => c # <<>> \/ d # <<>>
  BY <1>1
<1>3. \A k \in 1..Len(c) : k \in 1..Len(e) /\ e[k] = c[k]
  BY <1>1
<1>4. ASSUME NEW k \in 1..Len(d) PROVE Len(c) + k \in 1..Len(e) /\ e[Len(c) + k] = d[k]
  <2>1. /\ Len(c) + k \in 1..(Len(c) + Len(d)) /\ ~(Len(c) + k <= Len(c))
        /\ (Len(c) + k) - Len(c) = k
    BY <1>1
  <2>. QED
    BY <1>1, <2>1
<1>5. ASSUME NEW k \in 1..Len(e) PROVE k \in 1..Len(c) \/ \E i \in 1..Len(d) : k = Len(c) + i
  <2>1. CASE k <= Len(c)
    BY <1>1, <2>1
  <2>2. CASE ~(k <= Len(c))
    <3>1. k - Len(c) \in 1..Len(d) /\ k = Len(c) + (k - Len(c))
      BY <1>1, <2>2
    <3>. QED
      BY <3>1
  <2>. QED
    BY <2>1, <2>2
<1>6. ASSUME NEW y PROVE Has(e, y) <=> Has(c, y) \/ Has(d, y)
  <2>1. ASSUME Has(e, y) PROVE Has(c, y) \/ Has(d, y)
    <3>1. PICK k \in 1..Len(e) : e[k] = y
      BY <2>1 DEF Has
    <3>2. CASE k \in 1..Len(c)
      BY <1>3, <3>1, <3>2 DEF Has
    <3>3. CASE \E i \in 1..Len(d) : k = Len(c) + i
      BY <1>4, <3>1, <3>3 DEF Has
    <3>. QED
      BY <1>5, <3>2, <3>3
  <2>2. Has(c, y) => Has(e, y)
    BY <1>3 DEF Has
  <2>3. Has(d, y) => Has(e, y)
    BY <1>4 DEF Has
  <2>. QED
    BY <2>1, <2>2, <2>3
<1>. QED
  BY <1>1, <1>2, <1>3, <1>4, <1>5, <1>6

\* What is taken goes behind what is there.
Behind(c, d) == c \o d

\* What an actor takes follows what it has, and is later.
LEMMA TakenInOrder ==
  ASSUME MailFits, NEW a \in Actor, NEW active, NEW queued,
         queued \in [Actor -> Seq(1..Len(sent))],
         Queues(queued, active, Len(mOutgoingMessages)),
         NEW e, e = Behind(mIncomingMessages[a], queued[a])
  PROVE  /\ e \in Seq(1..Len(sent)) /\ InOrder(e)
         /\ e # <<>> => active[a]
         /\ \A k \in 1..Len(e) : sent[e[k]].to = a
<1>. DEFINE c == mIncomingMessages[a]
            d == queued[a]
            N == 1..Len(sent)
<1>1. c \in Seq(N) /\ d \in Seq(N)
  BY DEF MailFits
<1>2. /\ InOrder(c)
      /\ c # <<>> => mActive[a]
      /\ \A k \in 1..Len(c) :
           /\ sent[c[k]].to = a
           /\ \A j \in 1..Len(mOutgoingMessages) :
                sent[c[k]] = sent[mOutgoingMessages[j]] => c[k] < mOutgoingMessages[j]
  BY DEF MailFits
<1>3. /\ InOrder(d)
      /\ mActive[a] => active[a]
      /\ d # <<>> => active[a]
      /\ \A m \in N :
           Has(d, m) <=> sent[m].to = a /\ \E i \in 1..Len(mOutgoingMessages) : mOutgoingMessages[i] = m
  BY DEF Queues
<1>4. e = c \o d
  BY DEF Behind
<1>. HIDE DEF c, d, N
<1>5. /\ e \in Seq(N) /\ Len(c) \in Nat /\ Len(d) \in Nat
      /\ \A k \in 1..Len(c) : k \in 1..Len(e) /\ e[k] = c[k]
      /\ \A k \in 1..Len(d) : Len(c) + k \in 1..Len(e) /\ e[Len(c) + k] = d[k]
      /\ \A k \in 1..Len(e) : k \in 1..Len(c) \/ \E i \in 1..Len(d) : k = Len(c) + i
      /\ \A y : Has(e, y) <=> Has(c, y) \/ Has(d, y)
      /\ e # <<>> => c # <<>> \/ d # <<>>
  BY <1>1, <1>4, ConcatFacts
<1>6. ASSUME NEW k \in 1..Len(d)
      PROVE  /\ sent[d[k]].to = a
             /\ \E i \in 1..Len(mOutgoingMessages) : mOutgoingMessages[i] = d[k]
  <2>1. d[k] \in N /\ Has(d, d[k])
    BY <1>1, ElementOfSeq DEF Has
  <2>. QED
    BY <1>3, <2>1
<1>7. ASSUME NEW j \in 1..Len(e), NEW k \in 1..Len(e), j < k, sent[e[j]] = sent[e[k]]
      PROVE  e[j] < e[k]
  <2>1. CASE k \in 1..Len(c)
    <3>1. j \in 1..Len(c)
      BY <1>5, <1>7, <2>1
    <3>. QED
      BY <1>2, <1>5, <1>7, <2>1, <3>1 DEF InOrder
  <2>2. ASSUME NEW i \in 1..Len(d), k = Len(c) + i PROVE e[j] < e[k]
    <3>1. e[k] = d[i]
      BY <1>5, <2>2
    <3>2. CASE j \in 1..Len(c)
      <4>1. PICK o \in 1..Len(mOutgoingMessages) : mOutgoingMessages[o] = d[i]
        BY <1>6
      <4>2. e[j] = c[j]
        BY <1>5, <3>2
      <4>. QED
        BY <1>2, <1>7, <3>1, <3>2, <4>1, <4>2
    <3>3. ASSUME NEW h \in 1..Len(d), j = Len(c) + h PROVE e[j] < e[k]
      <4>1. e[j] = d[h]
        BY <1>5, <3>3
      <4>2. h < i
        BY <1>5, <1>7, <2>2, <3>3
      <4>. QED
        BY <1>3, <1>7, <3>1, <4>1, <4>2 DEF InOrder
    <3>. QED
      BY <1>5, <3>2, <3>3
  <2>. QED
    BY <1>5, <2>1, <2>2
<1>8. ASSUME NEW k \in 1..Len(e) PROVE sent[e[k]].to = a
  <2>1. CASE k \in 1..Len(c)
    BY <1>2, <1>5, <2>1
  <2>2. ASSUME NEW i \in 1..Len(d), k = Len(c) + i PROVE sent[e[k]].to = a
    <3>1. e[k] = d[i]
      BY <1>5, <2>2
    <3>. QED
      BY <1>6, <3>1
  <2>. QED
    BY <1>5, <2>1, <2>2
<1>9. InOrder(e)
  BY <1>7 DEF InOrder
<1>. QED
  BY <1>2, <1>3, <1>5, <1>8, <1>9 DEF c, d, N

LEMMA TakenHas ==
  ASSUME MailFits, NEW a \in Actor, NEW queued, queued \in [Actor -> Seq(1..Len(sent))],
         NEW e, e = Behind(mIncomingMessages[a], queued[a]), NEW y
  PROVE  Has(e, y) <=> Has(mIncomingMessages[a], y) \/ Has(queued[a], y)
<1>. DEFINE c == mIncomingMessages[a]
            d == queued[a]
            N == 1..Len(sent)
<1>1. c \in Seq(N) /\ d \in Seq(N)
  BY DEF MailFits
<1>2. e = c \o d
  BY DEF Behind
<1>. HIDE DEF c, d, N
<1>3. Has(e, y) <=> Has(c, y) \/ Has(d, y)
  BY <1>1, <1>2, ConcatFacts
<1>. QED
  BY <1>3 DEF c, d

\* What the messages after such a step must be like.
LEMMA TakenNext ==
  ASSUME UNCHANGED <<sent, handled>>, sent \in Seq([to : Actor, direct : BOOLEAN]),
         handled \subseteq 1..Len(sent),
         mQueuedMessages' = [a \in Actor |-> <<>>],
         mOutgoingMessages' = <<>>,
         NEW active, mActive' = active, NEW box, mIncomingMessages' = box,
         box \in [Actor -> Seq(1..Len(sent))],
         \A a \in Actor :
           /\ InOrder(box[a])
           /\ box[a] # <<>> => active[a]
           /\ \A k \in 1..Len(box[a]) : sent[box[a][k]].to = a,
         \A m \in 1..Len(sent) : Live(m)' <=> Has(<<>>, m) \/ Has(box[sent[m].to], m)
  PROVE  MailFits'
<1>1. /\ Len(<<>>) = 0 /\ <<>> \in Seq(1..Len(sent))
      /\ InOrder(<<>>) /\ \A j : j \notin 1..Len(<<>>)
  BY DEF InOrder
<1>. QED
  BY <1>1 DEF MailFits, InOrder

\* What actors have after they took what was queued for them.
MailTaken(box, active) ==
  /\ box \in [Actor -> Seq(1..Len(sent))]
  /\ \A a \in Actor :
       /\ InOrder(box[a])
       /\ box[a] # <<>> => active[a]
       /\ \A k \in 1..Len(box[a]) : sent[box[a][k]].to = a
  /\ \A m \in 1..Len(sent) : Live(m)' <=> Has(<<>>, m) \/ Has(box[sent[m].to], m)
  /\ \A m \in 1..Len(sent) : m \notin handled => \E a \in Actor : box[a] # <<>>

\* The messages when the outgoing ones have been taken by their receivers.
LEMMA TakenMail ==
  ASSUME IInv, pc = "deliver", pc' # "messages",
         NEW active, NEW queued,
         queued \in [Actor -> Seq(1..Len(sent))],
         Queues(queued, active, Len(mOutgoingMessages)),
         NEW box, box = [a \in Actor |-> box[a]],
         \A a \in Actor : box[a] = Behind(mIncomingMessages[a], queued[a]),
         UNCHANGED <<sent, handled>>
  PROVE  MailTaken(box, active)
<1>1. ASSUME NEW a \in Actor
      PROVE  /\ box[a] \in Seq(1..Len(sent)) /\ InOrder(box[a])
             /\ box[a] # <<>> => active[a]
             /\ \A k \in 1..Len(box[a]) : sent[box[a][k]].to = a
             /\ \A y : Has(box[a], y) <=> Has(mIncomingMessages[a], y) \/ Has(queued[a], y)
  <2>. DEFINE e == box[a]
  <2>1. e = Behind(mIncomingMessages[a], queued[a])
    OBVIOUS
  <2>2. MailFits
    BY DEF IInv
  <2>. HIDE DEF e
  <2>3. /\ e \in Seq(1..Len(sent)) /\ InOrder(e)
        /\ e # <<>> => active[a]
        /\ \A k \in 1..Len(e) : sent[e[k]].to = a
    BY <2>1, <2>2, TakenInOrder, SMTT(60)
  <2>4. \A y : Has(e, y) <=> Has(mIncomingMessages[a], y) \/ Has(queued[a], y)
    BY <2>1, <2>2, TakenHas
  <2>. QED
    BY <2>3, <2>4 DEF e
<1>2. box \in [Actor -> Seq(1..Len(sent))]
  BY <1>1
<1>3. MailFits
  BY DEF IInv
<1>4. \A m : (Live(m)' <=> Live(m)) /\ (Live(m) <=> m \notin handled)
  BY DEF Live, BeingHandled
<1>5. ASSUME NEW m \in 1..Len(sent)
      PROVE  sent[m].to \in Actor /\ (Live(m) <=> Has(box[sent[m].to], m))
  <2>. DEFINE to == sent[m].to
  <2>1. to \in Actor
    <3>. DEFINE T == [to : Actor, direct : BOOLEAN]
    <3>1. sent[m] \in T
      BY <1>3, ElementOfSeq DEF MailFits
    <3>. QED
      BY <3>1
  <2>2. Live(m) <=> Has(mOutgoingMessages, m) \/ Has(mIncomingMessages[to], m)
    BY <1>3 DEF MailFits
  <2>3. Has(queued[to], m) <=> Has(mOutgoingMessages, m)
    <3>1. Has(mOutgoingMessages, m)
            <=> \E i \in 1..Len(mOutgoingMessages) : mOutgoingMessages[i] = m
      BY DEF Has
    <3>2. Has(queued[to], m)
            <=> sent[m].to = to /\ \E i \in 1..Len(mOutgoingMessages) : mOutgoingMessages[i] = m
      BY <2>1 DEF Queues
    <3>. QED
      BY <3>1, <3>2
  <2>. HIDE DEF to
  <2>4. Live(m) <=> Has(box[to], m)
    BY <1>1, <2>1, <2>2, <2>3
  <2>. QED
    BY <2>1, <2>4 DEF to
<1>6. \A m \in 1..Len(sent) : m \notin handled => \E a \in Actor : box[a] # <<>>
  <2>1. ASSUME NEW m \in 1..Len(sent), m \notin handled PROVE box[sent[m].to] # <<>>
    <3>1. Has(box[sent[m].to], m)
      BY <1>4, <1>5, <2>1
    <3>2. ~Has(<<>>, m)
      BY DEF Has
    <3>. QED
      BY <3>1, <3>2
  <2>. QED
    BY <1>5, <2>1
<1>7. \A m \in 1..Len(sent) : Live(m)' <=> Has(<<>>, m) \/ Has(box[sent[m].to], m)
  <2>1. \A m : ~Has(<<>>, m)
    BY DEF Has
  <2>. QED
    BY <1>4, <1>5, <2>1
<1>. QED
  BY <1>1, <1>2, <1>6, <1>7 DEF MailTaken

\* The sentinel points to the first item, or to itself.
LEMMA FirstIs ==
  ASSUME NEW ls \in Links, NEW cts, Shown(ls, cts), NEW l \in List
  PROVE  /\ cts[l] = <<>> => ls.next[l] = l
         /\ cts[l] # <<>> => 1 \in 1..Len(cts[l]) /\ ls.next[l] = cts[l][1] /\ cts[l][1] \in Item
         /\ IsEmpty(ls, l) <=> cts[l] = <<>>
<1>. DEFINE c == cts[l]
<1>1. c \in Seq(Item) /\ Len(c) \in Nat /\ Ring(ls, l, c)
  BY DEF Shown
<1>. HIDE DEF c
<1>2. ls.next[l] = Spot(l, c, 1)
  BY <1>1 DEF Ring, Spot
<1>3. CASE c = <<>>
  <2>1. ls.next[l] = l
    BY <1>1, <1>2, <1>3 DEF Spot
  <2>. QED
    BY <1>3, <2>1 DEF IsEmpty, c
<1>4. CASE c # <<>>
  <2>1. 1 \in 1..Len(c) /\ c[1] \in Item
    BY <1>1, <1>4
  <2>2. ls.next[l] = c[1]
    BY <1>2, <2>1 DEF Spot
  <2>. QED
    BY <1>4, <2>1, <2>2, ListAssumption DEF IsEmpty, c
<1>. QED
  BY <1>3, <1>4

\* epoll_wait returns before the first timeout, and at once for messages.
LEMMA WakesInTime ==
  ASSUME IInv, pc = "deliver", NEW r, NEW active, Fit(r, active, Times, Null),
         Contents(r)["mActiveActors"] = <<>>
  PROVE  /\ Trail(r, "actors").end = "actors"
         /\ r.next["mWaitingActors"] \notin ActorList \ {"mWaitingActors"}
         /\ \A wk \in WakeTimes(r) :
              /\ wk \in Nat
              /\ \A a \in Actor : \A t \in S!ToSet(mTimeouts[a]) : wk <= now \/ wk <= TimeOf(t)
              /\ \A a \in Actor : active[a] => wk <= now
<1>. DEFINE c == Contents(r)["actors"]
            w == Waiting(r)
            first == r.next["mWaitingActors"]
<1>1. /\ r \in Links /\ Shown(r, Contents(r)) /\ TimeoutsFit
      /\ now \in Nat /\ MaxTime \in Nat /\ Times \in [Actor -> Nat]
  BY TimesAre, DispatchLoopAssumption DEF Fit, Sound, IInv, TimeoutsFit
<1>2. /\ w = <<>> => first = "mWaitingActors"
      /\ w # <<>> => 1 \in 1..Len(w) /\ first = w[1] /\ first \in Actor
      /\ IsEmpty(r, "mWaitingActors") <=> w = <<>>
      /\ IsEmpty(r, "actors") <=> c = <<>>
  BY <1>1, FirstIs, ListNames DEF Waiting, Actor
<1>3. Trail(r, "actors").end = "actors"
  <2>1. Trail(r, "actors") = [items |-> c, end |-> "actors"]
    BY <1>1, TrailIs, ListNames
  <2>. QED
    BY <2>1
<1>4. \A a \in Actor : active[a] <=> Has(c, a)
  <2>1. \A a : ~Has(<<>>, a)
    BY DEF Has
  <2>2. \A a \in Actor : active[a] <=> ScheduledIn(r, a)
    BY DEF Fit
  <2>. HIDE DEF c
  <2>3. \A a \in Actor : ScheduledIn(r, a) <=> Has(c, a)
    BY <2>1 DEF ScheduledIn, c
  <2>. QED
    BY <2>2, <2>3
<1>5. w \in Seq(Item) /\ Len(w) \in Nat /\ \A k \in 1..Len(w) : w[k] \in Actor /\ Times[w[k]] # 0
  <2>1. w \in Seq(Item) /\ Len(w) \in Nat
    BY <1>1, ContentsFacts, ListNames DEF Waiting
  <2>2. \A k \in 1..Len(w) : Times[w[k]] # 0 \/ w[k] = Null
    BY DEF Fit
  <2>. HIDE DEF w
  <2>3. \A k \in 1..Len(w) : w[k] \in Actor
    BY <2>1, ElementOfSeq DEF Actor
  <2>. QED
    BY <2>1, <2>2, <2>3, NotASentinel
<1>6. Ordered(w, Times) /\ \A a \in Actor : Times[a] # 0 => active[a] \/ Has(w, a)
  BY DEF Fit
<1>7. ASSUME NEW a \in Actor, NEW t \in S!ToSet(mTimeouts[a])
      PROVE  Times[a] # 0 /\ TimeOf(t) = Times[a]
  <2>. DEFINE own == mTimeouts[a]
  <2>1. own \in Seq(1..Len(timeouts)) /\ Len(own) \in Nat /\ Len(own) <= 1
    BY <1>1 DEF TimeoutsFit, InTimers
  <2>2. \E k \in 1..Len(own) : own[k] = t
    BY <2>1 DEF S!ToSet
  <2>3. own # <<>> => Times[a] = TimeOf(own[1]) /\ Times[a] # 0
    BY <1>1, TimesAre
  <2>. HIDE DEF own
  <2>4. own[1] = t /\ own # <<>>
    BY <2>1, <2>2
  <2>. QED
    BY <2>3, <2>4
<1>8. ASSUME NEW wk \in WakeTimes(r)
      PROVE  /\ wk \in Nat
             /\ \A a \in Actor : \A t \in S!ToSet(mTimeouts[a]) : wk <= now \/ wk <= TimeOf(t)
             /\ \A a \in Actor : active[a] => wk <= now
  <2>. HIDE DEF c, w, first
  <2>0. now <= now
    BY <1>1
  <2>1. CASE c # <<>>
    <3>1. wk = now
      BY <1>2, <2>1 DEF WakeTimes
    <3>. QED
      BY <1>1, <2>0, <3>1
  <2>2. CASE c = <<>>
    <3>0. \A a \in Actor : ~active[a]
      BY <1>4, <2>2 DEF Has
    <3>1. CASE w = <<>>
      <4>1. wk = Forever
        BY <1>2, <2>2, <3>1 DEF WakeTimes
      <4>2. \A a \in Actor : Times[a] = 0
        BY <1>6, <3>0, <3>1 DEF Has
      <4>. QED
        BY <1>1, <1>7, <3>0, <4>1, <4>2 DEF Forever
    <3>2. CASE w # <<>>
      <4>. DEFINE next == Times[first]
      <4>1. /\ first \in Actor /\ first = w[1] /\ 1 \in 1..Len(w)
            /\ next = nextTimeoutMilliseconds(first) /\ next # 0 /\ next \in Nat
        BY <1>1, <1>2, <1>5, <3>2 DEF Times
      <4>. HIDE DEF next
      <4>2. wk = IF next < now THEN now ELSE next
        BY <1>2, <2>2, <3>2, <4>1 DEF WakeTimes, first
      <4>3. ASSUME NEW a \in Actor, NEW t \in S!ToSet(mTimeouts[a]) PROVE next <= TimeOf(t)
        <5>1. Has(w, a) /\ TimeOf(t) = Times[a]
          BY <1>6, <1>7, <3>0, <4>3
        <5>2. PICK k \in 1..Len(w) : w[k] = a
          BY <5>1 DEF Has
        <5>3. CASE k = 1
          BY <4>1, <5>1, <5>2, <5>3 DEF next
        <5>4. CASE k # 1
          <6>1. 1 < k
            BY <5>2, <5>4
          <6>2. Times[w[1]] <= Times[w[k]]
            BY <1>6, <4>1, <6>1 DEF Ordered
          <6>. QED
            BY <4>1, <5>1, <5>2, <6>2 DEF next
        <5>. QED
          BY <5>3, <5>4
      <4>. QED
        BY <1>1, <3>0, <4>1, <4>2, <4>3, <2>0
    <3>. QED
      BY <3>1, <3>2
  <2>. QED
    BY <2>1, <2>2
<1>9. first \notin ActorList \ {"mWaitingActors"}
  BY <1>2, NotASentinel
<1>. QED
  BY <1>3, <1>8, <1>9

\* What one Deliver does with the outgoing messages, the lists and the takers.
TakenFor(all, ls, takers) ==
  /\ links' = ls
  /\ mActive' = all.active
  /\ mIncomingMessages' =
       [a \in Actor |-> mIncomingMessages[a] \o IF a \in takers THEN all.queued[a] ELSE <<>>]
  /\ mQueuedMessages' = [a \in Actor |-> IF a \in takers THEN <<>> ELSE all.queued[a]]
  /\ mOutgoingMessages' = <<>>
  /\ UNCHANGED <<sent, handled>>

LEMMA DeliverIs ==
  ASSUME Deliver, NEW all, all = AllDelivered,
         NEW r, r = SpliceTail(all.links, "actors", "mActiveActors"),
         NEW takers, takers = Members(r, "actors")
  PROVE  TakenFor(all, r, takers)
<1>1. \E d \in {AllDelivered} :
        \E ls \in {SpliceTail(d.links, "actors", "mActiveActors")} :
        \E tk \in {Members(ls, "actors")} : TakenFor(d, ls, tk)
  BY DEF Deliver, TakenFor
<1>2. \E ls \in {SpliceTail(all.links, "actors", "mActiveActors")} :
        \E tk \in {Members(ls, "actors")} : TakenFor(all, ls, tk)
  BY <1>1
<1>3. \E tk \in {Members(r, "actors")} : TakenFor(all, r, tk)
  BY <1>2
<1>. QED
  BY <1>3

\* Outgoing messages are taken, and the thread sleeps no longer than it may.
LEMMA StartCycleKeeps ==
  ASSUME IInv, StartCycle
  PROVE  IInv'
<1>. DEFINE all == AllDelivered
            active == all.active
            queued == all.queued
            r == SpliceTail(all.links, "actors", "mActiveActors")
            takers == Members(r, "actors")
            box == [a \in Actor |-> mIncomingMessages[a] \o IF a \in takers THEN queued[a] ELSE <<>>]
            left == [a \in Actor |-> IF a \in takers THEN <<>> ELSE queued[a]]
<1>1. /\ pc = "deliver" /\ links' = r /\ mActive' = active
      /\ mIncomingMessages' = box /\ mQueuedMessages' = left
      /\ mOutgoingMessages' = <<>> /\ UNCHANGED <<sent, handled>>
      /\ mMilliseconds' = now
      /\ UNCHANGED <<timing, mTimeouts, timeouts, running, iterator, timer, mail, now>>
      /\ IF \/ Trail(r, "actors").end # "actors"
            \/ IsEmpty(r, "actors") /\ r.next["mWaitingActors"] \in ActorList \ {"mWaitingActors"}
         THEN pc' = "lost"
         ELSE pc' = "poll" /\ wake' \in WakeTimes(r)
  <2>1. /\ pc = "deliver" /\ Deliver /\ mMilliseconds' = now
        /\ UNCHANGED <<timing, running, iterator, timer, mail, now>>
        /\ IF \/ Trail(links', "actors").end # "actors"
              \/ IsEmpty(links', "actors") /\ links'.next["mWaitingActors"] \in ActorList \ {"mWaitingActors"}
           THEN pc' = "lost" /\ UNCHANGED wake
           ELSE pc' = "poll" /\ wake' \in WakeTimes(links')
    BY DEF StartCycle, Clock
  <2>2. /\ links' = r /\ mActive' = active
        /\ mIncomingMessages' = box /\ mQueuedMessages' = left
        /\ mOutgoingMessages' = <<>> /\ UNCHANGED <<sent, handled>>
    <3>. HIDE DEF all, r, takers
    <3>1. all = AllDelivered /\ r = SpliceTail(all.links, "actors", "mActiveActors")
          /\ takers = Members(r, "actors")
      BY DEF all, r, takers
    <3>2. Deliver
      BY <2>1
    <3>3. TakenFor(all, r, takers)
      BY <3>1, <3>2, DeliverIs
    <3>. QED
      BY <3>3 DEF TakenFor
  <2>. HIDE DEF all, r, active, box, left
  <2>. QED
    BY <2>1, <2>2 DEF timing
<1>2. all \in Deliverable /\ Queues(queued, active, Len(mOutgoingMessages))
  BY <1>1, AllDeliveredIs
<1>3. /\ MailFits /\ TimeoutsFit /\ Times \in [Actor -> Nat] /\ running = Null
  BY <1>1, TimesAre DEF IInv, Whereabouts
<1>4. /\ Fit(all.links, active, Times, Null) /\ Contents(all.links)["actors"] = <<>>
      /\ queued \in [Actor -> Seq(1..Len(sent))]
  BY <1>2 DEF Deliverable
<1>. HIDE DEF all
<1>5. Fit(r, active, Times, Null) /\ Contents(r)["mActiveActors"] = <<>>
  <2>. DEFINE ls == all.links
  <2>1. Fit(ls, active, Times, Null) /\ Contents(ls)["actors"] = <<>>
    BY <1>4
  <2>. HIDE DEF ls, active
  <2>2. \A x : x = SpliceTail(ls, "actors", "mActiveActors") =>
          Fit(x, active, Times, Null) /\ Contents(x)["mActiveActors"] = <<>>
    BY <1>3, <2>1, Takes
  <2>. QED
    BY <2>2 DEF ls
<1>. HIDE DEF r, active, queued
<1>6. \A a \in Actor : a \in takers <=> active[a]
  <2>. DEFINE c == Contents(r)["actors"]
  <2>1. r \in Links /\ Shown(r, Contents(r)) /\ \A a \in Actor : active[a] <=> ScheduledIn(r, a)
    BY <1>5 DEF Fit, Sound
  <2>2. takers = {c[k] : k \in 1..Len(c)}
    BY <2>1, MembersAre, ListNames
  <2>3. \A a : ~Has(<<>>, a)
    BY DEF Has
  <2>. HIDE DEF c
  <2>4. \A a \in Actor : ScheduledIn(r, a) <=> Has(c, a)
    BY <1>5, <2>3 DEF ScheduledIn, c
  <2>. HIDE DEF takers
  <2>5. \A a : a \in takers <=> Has(c, a)
    BY <2>2 DEF Has
  <2>. QED
    BY <2>1, <2>4, <2>5
<1>. HIDE DEF takers
<1>7. /\ \A a \in Actor : box[a] = Behind(mIncomingMessages[a], queued[a])
      /\ box = [a \in Actor |-> box[a]]
      /\ left = [a \in Actor |-> <<>>]
  <2>1. \A a \in Actor : a \in takers \/ queued[a] = <<>>
    BY <1>2, <1>6 DEF Queues
  <2>2. ASSUME NEW a \in Actor PROVE box[a] = Behind(mIncomingMessages[a], queued[a])
    <3>1. (IF a \in takers THEN queued[a] ELSE <<>>) = queued[a]
      BY <2>1
    <3>. QED
      BY <3>1 DEF Behind
  <2>3. \A a \in Actor : (IF a \in takers THEN <<>> ELSE queued[a]) = <<>>
    BY <2>1
  <2>4. left = [a \in Actor |-> <<>>]
    BY <2>3
  <2>. QED
    BY <2>2, <2>4
<1>. HIDE DEF box, left
<1>8. /\ Trail(r, "actors").end = "actors"
      /\ r.next["mWaitingActors"] \notin ActorList \ {"mWaitingActors"}
      /\ \A wk \in WakeTimes(r) :
           /\ wk \in Nat
           /\ \A a \in Actor : \A t \in S!ToSet(mTimeouts[a]) : wk <= now \/ wk <= TimeOf(t)
           /\ \A a \in Actor : active[a] => wk <= now
  BY <1>1, <1>5, WakesInTime
<1>9. /\ pc' = "poll" /\ wake' \in Nat
      /\ \A a \in Actor : \A t \in S!ToSet(mTimeouts[a]) : wake' <= now \/ wake' <= TimeOf(t)
      /\ \A a \in Actor : active[a] => wake' <= now
  BY <1>1, <1>8
<1>10. /\ box \in [Actor -> Seq(1..Len(sent))]
       /\ \A a \in Actor :
            /\ InOrder(box[a])
            /\ box[a] # <<>> => active[a]
            /\ \A k \in 1..Len(box[a]) : sent[box[a][k]].to = a
       /\ \A m \in 1..Len(sent) : Live(m)' <=> Has(<<>>, m) \/ Has(box[sent[m].to], m)
       /\ \A m \in 1..Len(sent) : m \notin handled => \E a \in Actor : box[a] # <<>>
  <2>1. pc' # "messages" /\ UNCHANGED <<sent, handled>>
    BY <1>1, <1>9
  <2>2. pc = "deliver"
    BY <1>1
  <2>. QED
    <3>1. /\ IInv /\ pc = "deliver" /\ pc' # "messages"
          /\ queued \in [Actor -> Seq(1..Len(sent))]
          /\ Queues(queued, active, Len(mOutgoingMessages))
          /\ box = [a \in Actor |-> box[a]]
          /\ \A a \in Actor : box[a] = Behind(mIncomingMessages[a], queued[a])
          /\ UNCHANGED <<sent, handled>>
      BY <1>2, <1>4, <1>7, <2>1, <2>2
    <3>2. MailTaken(box, active)
      BY <3>1, TakenMail
    <3>. QED
      BY <3>2 DEF MailTaken
<1>11. MailFits'
  <2>1. sent \in Seq([to : Actor, direct : BOOLEAN]) /\ handled \subseteq 1..Len(sent)
    BY <1>3 DEF MailFits
  <2>2. /\ UNCHANGED <<sent, handled>> /\ mQueuedMessages' = [a \in Actor |-> <<>>]
        /\ mOutgoingMessages' = <<>> /\ mActive' = active /\ mIncomingMessages' = box
    BY <1>1, <1>7
  <2>. QED
    BY <1>10, <2>1, <2>2, TakenNext
<1>12. FirstInFirstHandled'
  BY <1>1 DEF IInv, FirstInFirstHandled
<1>13. ListsFit'
  <2>1. Times' = Times /\ Spared' = Null
    BY <1>1, <1>9 DEF Times, nextTimeoutMilliseconds, TimeOf, Spared
  <2>. QED
    BY <1>1, <1>5, <2>1 DEF ListsFit, Fit, Contents, Waiting, ScheduledIn
<1>14. TimeoutsFit'
  <2>1. now \in Nat /\ now <= now /\ ~InTimers /\ ~InTimers'
    BY <1>1, <1>3, <1>9 DEF TimeoutsFit, InTimers
  <2>. QED
    BY <1>1, <1>3, <2>1 DEF TimeoutsFit, TimerAtWork
<1>15. Whereabouts' /\ MailAtWork'
  BY <1>1, <1>3, <1>9 DEF Whereabouts, MailAtWork, Location
<1>16. NoOversleeping'
  <2>1. \A a \in Actor : \A t \in S!ToSet(mTimeouts[a])' :
          wake' <= mMilliseconds' \/ wake' <= TimeOf(t)'
    BY <1>1, <1>9 DEF TimeOf
  <2>2. handled' # Numbers' => wake' <= now'
    <3>1. SUFFICES ASSUME handled # DOMAIN sent PROVE wake' <= now
      BY <1>1 DEF Numbers
    <3>2. DOMAIN sent = 1..Len(sent) /\ handled \subseteq 1..Len(sent)
      <4>. DEFINE T == [to : Actor, direct : BOOLEAN]
      <4>1. sent \in Seq(T)
        BY <1>3 DEF MailFits
      <4>. HIDE DEF T
      <4>2. DOMAIN sent = 1..Len(sent)
        BY <4>1
      <4>. QED
        BY <1>3, <4>2 DEF MailFits
    <3>3. PICK m \in 1..Len(sent) : m \notin handled
      BY <3>1, <3>2
    <3>4. PICK a \in Actor : box[a] # <<>>
      BY <1>10, <3>3
    <3>. QED
      BY <1>9, <1>10, <3>4
  <2>. QED
    BY <2>1, <2>2 DEF NoOversleeping
<1>. QED
  BY <1>11, <1>12, <1>13, <1>14, <1>15, <1>16 DEF IInv

-----------------------------------------------------------------------------
(* All steps *)

LEMMA InitFits ==
  ASSUME Init
  PROVE  IInv
<1>. DEFINE none == [l \in List |-> <<>>]
<1>1. /\ links = Unlinked /\ pc = "setup" /\ running = Null /\ iterator = Nowhere
      /\ mActive = [a \in Actor |-> FALSE] /\ mTimeouts = [a \in Actor |-> <<>>]
      /\ mQueuedMessages = [a \in Actor |-> <<>>]
      /\ mIncomingMessages = [a \in Actor |-> <<>>] /\ mOutgoingMessages = <<>>
      /\ mMilliseconds = 0 /\ now = 1 /\ wake = 0
      /\ sent = <<>> /\ handled = {} /\ timeouts = <<>>
  BY DEF Init
<1>2. Sound(links) /\ Shown(links, none)
  BY <1>1, UnlinkedSound, EmptyShown
<1>3. Contents(links) = none
  <2>1. links \in Links
    BY <1>2 DEF Sound
  <2>. HIDE DEF none
  <2>. QED
    BY <1>2, <2>1, ContentsAre
<1>4. /\ Waiting(links) = <<>> /\ Loop = <<>> /\ \A a : ~ScheduledIn(links, a)
  <2>1. \A l \in List : none[l] = <<>>
    OBVIOUS
  <2>2. \A a : ~Has(<<>>, a)
    BY DEF Has
  <2>. HIDE DEF none
  <2>. QED
    BY <1>3, <2>1, <2>2, ListNames DEF Waiting, Loop, ScheduledIn
<1>5. \A a \in Actor : Times[a] = 0
  BY <1>1 DEF Times, nextTimeoutMilliseconds
<1>6. ListsFit
  <2>1. Fit(links, mActive, Times, Spared)
    <3>1. /\ Sound(links) /\ Shown(links, Contents(links))
          /\ \A k : k \notin 1..Len(Waiting(links))
      BY <1>2, <1>3, <1>4
    <3>2. mActive \in [Actor -> BOOLEAN] /\ \A a \in Actor : mActive[a] = FALSE
      BY <1>1
    <3>. QED
      BY <1>4, <1>5, <3>1, <3>2 DEF Fit, Ordered
  <2>. QED
    BY <2>1 DEF ListsFit
<1>7. TimeoutsFit
  <2>1. ~InTimers
    BY <1>1 DEF InTimers
  <2>2. <<>> \in Seq([actor : Actor, at : 1..MaxTime]) /\ <<>> \in Seq(1..Len(timeouts))
    OBVIOUS
  <2>3. Len(<<>>) = 0
    OBVIOUS
  <2>. QED
    BY <1>1, <2>1, <2>2, <2>3 DEF TimeoutsFit, TimerAtWork
<1>8. MailFits
  <2>1. /\ <<>> \in Seq([to : Actor, direct : BOOLEAN]) /\ <<>> \in Seq(1..Len(sent))
        /\ Len(<<>>) = 0
    OBVIOUS
  <2>2. \A k : k \notin 1..0
    OBVIOUS
  <2>. QED
    BY <1>1, <2>1, <2>2 DEF MailFits, InOrder
<1>9. Whereabouts
  BY <1>1, <1>4 DEF Whereabouts, Location
<1>10. MailAtWork /\ FirstInFirstHandled /\ NoOversleeping
  BY <1>1 DEF MailAtWork, FirstInFirstHandled, NoOversleeping
<1>. QED
  BY <1>6, <1>7, <1>8, <1>9, <1>10 DEF IInv

LEMMA StutterKeeps ==
  ASSUME IInv, UNCHANGED vars
  PROVE  IInv'
<1>1. /\ UNCHANGED <<links, mActive, queues, mTimeouts, timeouts, over>>
      /\ UNCHANGED <<pc, running, iterator, timer, mail, wake, events, mMilliseconds, now>>
      /\ UNCHANGED timing
      /\ UNCHANGED <<sent, handled, mIncomingMessages>>
  BY DEF vars, timing, position, queues
<1>2. ListsFit' /\ MailFits' /\ FirstInFirstHandled'
  BY <1>1, OnlyMoves DEF Spared
<1>3. TimeoutsFit'
  <2>1. now' \in Nat /\ now <= now'
    BY <1>1 DEF IInv, TimeoutsFit
  <2>. QED
    BY <1>1, <2>1, TimeoutsSame DEF IInv
<1>4. Whereabouts'
  BY <1>1, SameLists DEF IInv, Whereabouts
<1>5. MailAtWork' /\ NoOversleeping'
  BY <1>1 DEF IInv, MailAtWork, NoOversleeping, TimeOf, Numbers
<1>. QED
  BY <1>2, <1>3, <1>4, <1>5 DEF IInv

LEMMA NextKeeps ==
  ASSUME IInv, RulesKept, Next
  PROVE  IInv'
<1>1. CASE Thread
  <2>1. CASE StartRun
    BY <2>1, StartRunKeeps
  <2>2. CASE StartCycle
    BY <2>2, StartCycleKeeps
  <2>3. CASE PollTimesOut
    BY <2>3, WaitLoopKeeps DEF PollTimesOut, IInv, Whereabouts
  <2>4. CASE SourceReturns
    BY <2>4, SourcesKeep
  <2>5. CASE SourcesDone
    BY <2>5, WaitLoopKeeps DEF SourcesDone
  <2>6. CASE WaitStops
    BY <2>6, WaitStopsKeeps
  <2>7. CASE WaitTimers
    BY <2>7, WaitTimersKeeps
  <2>8. CASE WaitTimersDone
    BY <2>8, WaitTimersDoneKeeps
  <2>9. CASE FireTimer
    BY <2>9, FireTimerKeeps
  <2>10. CASE TimerReturns
    BY <2>10, TimerReturnsKeeps
  <2>11. CASE ActiveTimers
    BY <2>11, ActiveTimersKeeps
  <2>12. CASE ActiveTimersDone
    BY <2>12, ActiveTimersDoneKeeps
  <2>13. CASE HandleMessage
    BY <2>13, HandleMessageKeeps
  <2>14. CASE MessageReturns
    BY <2>14, MessageReturnsKeeps
  <2>15. CASE MessagesDone
    BY <2>15, MessagesDoneKeeps
  <2>16. CASE ActiveDone
    BY <2>16, ActiveDoneKeeps
  <2>. QED
    BY <1>1, <2>1, <2>2, <2>3, <2>4, <2>5, <2>6, <2>7, <2>8, <2>9, <2>10, <2>11,
       <2>12, <2>13, <2>14, <2>15, <2>16 DEF Thread
<1>2. CASE Environment
  <2>1. CASE PollInterrupted
    BY <2>1, WaitLoopKeeps DEF PollInterrupted, IInv, Whereabouts
  <2>2. CASE \E a \in Actor : SourceReady(a)
    BY <2>2, SourcesKeep
  <2>. QED
    BY <1>2, <2>1, <2>2 DEF Environment
<1>3. CASE Application
  BY <1>3, QueueMessageKeeps, AddTimeoutKeeps, DeleteTimeoutKeeps DEF Application
<1>4. CASE Tick
  BY <1>4, TickKeeps
<1>. QED
  BY <1>1, <1>2, <1>3, <1>4 DEF Next

-----------------------------------------------------------------------------
(* What the invariant says of a state *)

LEMMA MailIsConserved ==
  ASSUME IInv
  PROVE  MessagesConserved
<1>. DEFINE T == [to : Actor, direct : BOOLEAN]
<1>1. /\ MailFits /\ sent \in Seq(T) /\ DOMAIN sent = 1..Len(sent) /\ Len(sent) \in Nat
      /\ mOutgoingMessages \in Seq(1..Len(sent)) /\ InOrder(mOutgoingMessages)
      /\ DOMAIN mOutgoingMessages = 1..Len(mOutgoingMessages)
  <2>1. MailFits /\ sent \in Seq(T) /\ mOutgoingMessages \in Seq(1..Len(sent))
        /\ InOrder(mOutgoingMessages)
    BY DEF IInv, MailFits
  <2>. HIDE DEF T
  <2>. QED
    BY <2>1
<1>2. ASSUME NEW m \in 1..Len(sent)
      PROVE  /\ Cardinality(Places(m)) = IF m \in handled /\ ~BeingHandled(m) THEN 0 ELSE 1
             /\ \A p \in Places(m) : p[1] # "outgoing" => p[2] = sent[m].to
  <2>. DEFINE to == sent[m].to
              mine == mIncomingMessages[to]
              outgoing == {<<"outgoing", k>> : k \in {i \in DOMAIN mOutgoingMessages : mOutgoingMessages[i] = m}}
              queued == UNION {{<<"queued", a, k>> : k \in {i \in DOMAIN mQueuedMessages[a] : mQueuedMessages[a][i] = m}}
                               : a \in Actor}
              incoming == UNION {{<<"incoming", a, k>> : k \in {i \in DOMAIN mIncomingMessages[a] : mIncomingMessages[a][i] = m}}
                                 : a \in Actor}
  <2>1. to \in Actor
    <3>1. sent[m] \in T
      <4>. HIDE DEF T
      <4>. QED
        BY <1>1, ElementOfSeq
    <3>. QED
      BY <3>1
  <2>. HIDE DEF T, to
  <2>2. \A a \in Actor : DOMAIN mQueuedMessages[a] = {}
    <3>1. \A a \in Actor : mQueuedMessages[a] = <<>>
      BY <1>1 DEF MailFits
    <3>. QED
      BY <3>1
  <2>3. queued = {}
    BY <2>2
  <2>4. ASSUME NEW a \in Actor
        PROVE  /\ DOMAIN mIncomingMessages[a] = 1..Len(mIncomingMessages[a])
               /\ \A k \in 1..Len(mIncomingMessages[a]) : mIncomingMessages[a][k] = m => a = to
    <3>. DEFINE c == mIncomingMessages[a]
    <3>1. c \in Seq(1..Len(sent)) /\ \A k \in 1..Len(c) : sent[c[k]].to = a
      BY <1>1, Incoming
    <3>. HIDE DEF c
    <3>2. DOMAIN c = 1..Len(c) /\ \A k \in 1..Len(c) : c[k] = m => a = to
      BY <3>1 DEF to
    <3>. QED
      BY <3>2 DEF c
  <2>5. /\ \A j, k \in 1..Len(mine) : mine[j] = m /\ mine[k] = m => j = k
        /\ Has(mine, m) => ~Has(mOutgoingMessages, m)
    <3>. HIDE DEF mine
    <3>1. /\ mine \in Seq(1..Len(sent)) /\ Len(mine) \in Nat
          /\ \A j, k \in 1..Len(mine) : j < k => mine[j] # mine[k]
          /\ \A k \in 1..Len(mine) : ~Has(mOutgoingMessages, mine[k])
      BY <1>1, <2>1, Incoming DEF mine
    <3>. QED
      BY <3>1 DEF Has
  <2>6. \A j, k \in 1..Len(mOutgoingMessages) :
          mOutgoingMessages[j] = m /\ mOutgoingMessages[k] = m => j = k
    BY <1>1 DEF InOrder
  <2>7. Live(m) <=> Has(mOutgoingMessages, m) \/ Has(mine, m)
    BY <1>1 DEF MailFits, mine, to
  <2>8. Places(m) = outgoing \cup queued \cup incoming
    BY DEF Places
  <2>9. \A p : p \in outgoing <=>
          \E k \in 1..Len(mOutgoingMessages) : mOutgoingMessages[k] = m /\ p = <<"outgoing", k>>
    BY <1>1
  <2>10. \A p : p \in incoming <=>
           \E k \in 1..Len(mine) : mine[k] = m /\ p = <<"incoming", to, k>>
    BY <2>1, <2>4
  <2>. HIDE DEF outgoing, queued, incoming
  <2>11. \A p \in Places(m) : p[1] # "outgoing" => p[2] = to
    BY <2>3, <2>8, <2>9, <2>10
  <2>12. CASE Has(mOutgoingMessages, m)
    <3>1. PICK k \in 1..Len(mOutgoingMessages) : mOutgoingMessages[k] = m
      BY <2>12 DEF Has
    <3>2. Places(m) = {<<"outgoing", k>>}
      <4>1. \A p : p \in incoming => FALSE
        BY <2>5, <2>10, <2>12 DEF Has
      <4>2. \A p : p \in outgoing <=> p = <<"outgoing", k>>
        BY <2>6, <2>9, <3>1
      <4>. QED
        BY <2>3, <2>8, <4>1, <4>2
    <3>3. Cardinality(Places(m)) = 1
      BY <3>2, FS_Singleton
    <3>. QED
      BY <2>7, <2>11, <2>12, <3>3 DEF Live, to
  <2>13. CASE Has(mine, m)
    <3>1. PICK k \in 1..Len(mine) : mine[k] = m
      BY <2>13 DEF Has
    <3>2. Places(m) = {<<"incoming", to, k>>}
      <4>1. \A p : p \in outgoing => FALSE
        BY <2>5, <2>9, <2>13 DEF Has
      <4>2. \A p : p \in incoming <=> p = <<"incoming", to, k>>
        BY <2>5, <2>10, <3>1
      <4>. QED
        BY <2>3, <2>8, <4>1, <4>2
    <3>3. Cardinality(Places(m)) = 1
      BY <3>2, FS_Singleton
    <3>. QED
      BY <2>7, <2>11, <2>13, <3>3 DEF Live, to
  <2>14. CASE ~Has(mOutgoingMessages, m) /\ ~Has(mine, m)
    <3>1. Places(m) = {}
      BY <2>3, <2>8, <2>9, <2>10, <2>14 DEF Has
    <3>2. Cardinality(Places(m)) = 0
      BY <3>1, FS_EmptySet
    <3>. QED
      BY <2>7, <2>11, <2>14, <3>2 DEF Live, to
  <2>. QED
    BY <2>12, <2>13, <2>14
<1>. QED
  BY <1>1, <1>2 DEF MessagesConserved, Numbers

LEMMA ScheduledIs ==
  ASSUME IInv, NEW a \in Actor
  PROVE  Scheduled(a) <=> mActive[a]
<1>1. /\ links \in Links /\ Shown(links, Contents(links))
      /\ mActive[a] <=> ScheduledIn(links, a)
  BY DEF IInv, ListsFit, Fit, Sound
<1>2. /\ a \in Members(links, "mActiveActors") <=> Has(Contents(links)["mActiveActors"], a)
      /\ a \in Members(links, "actors") <=> Has(Contents(links)["actors"], a)
  BY <1>1, ListNames, MembersAre DEF Has
<1>. QED
  BY <1>1, <1>2 DEF Scheduled, ScheduledIn

LEMMA NoneStranded ==
  ASSUME IInv
  PROVE  NothingStranded
<1>1. NoStrandedMail
  <2>1. \A a \in Actor : mIncomingMessages[a] # <<>> => mActive[a]
    BY DEF IInv, MailFits
  <2>2. \A a \in Actor : mQueuedMessages[a] = <<>>
    BY DEF IInv, MailFits
  <2>3. mActive \in [Actor -> BOOLEAN]
    BY DEF IInv, ListsFit, Fit
  <2>. QED
    BY <2>1, <2>2, <2>3, ScheduledIs DEF NoStrandedMail
<1>2. NoStrandedTimeout
  <2>. SUFFICES ASSUME pc \in {"deliver", "poll", "active"}
                PROVE  LET waiting == Trail(links, "mWaitingActors").items
                       IN  /\ \A a \in Actor : mTimeouts[a] # <<>> => Scheduled(a) \/ a \in S!ToSet(waiting)
                           /\ \A k \in DOMAIN waiting :
                                k > 1 => nextTimeoutMilliseconds(waiting[k - 1]) <= nextTimeoutMilliseconds(waiting[k])
    BY DEF NoStrandedTimeout
  <2>. DEFINE w == Waiting(links)
  <2>1. Trail(links, "mWaitingActors").items = w
    BY ListNames DEF Waiting, Contents
  <2>2. /\ Shown(links, Contents(links)) /\ Ordered(w, Times)
        /\ \A a \in Actor : Times[a] # 0 => mActive[a] \/ Has(w, a)
    BY DEF IInv, ListsFit, Fit
  <2>3. /\ Times \in [Actor -> Nat]
        /\ \A a \in Actor : mTimeouts[a] # <<>> => Times[a] # 0
        /\ \A a \in Actor : Times[a] = nextTimeoutMilliseconds(a)
    BY TimesAre DEF IInv, Times
  <2>4. w \in Seq(Actor) /\ Len(w) \in Nat /\ DOMAIN w = 1..Len(w)
    <3>1. w \in Seq(Actor)
      BY <2>2, ListNames DEF Shown, Waiting, Actor
    <3>. HIDE DEF w
    <3>. QED
      BY <3>1
  <2>. HIDE DEF w
  <2>5. \A a : a \in S!ToSet(w) <=> Has(w, a)
    BY <2>4 DEF S!ToSet, Has
  <2>6. ASSUME NEW k \in 1..Len(w), k > 1
        PROVE  nextTimeoutMilliseconds(w[k - 1]) <= nextTimeoutMilliseconds(w[k])
    <3>1. k - 1 \in 1..Len(w) /\ k - 1 < k
      BY <2>4, <2>6
    <3>2. w[k - 1] \in Actor /\ w[k] \in Actor
      BY <2>4, <3>1, ElementOfSeq
    <3>3. Times[w[k - 1]] <= Times[w[k]]
      BY <2>2, <3>1 DEF Ordered
    <3>. QED
      BY <2>3, <3>2, <3>3
  <2>7. \A a \in Actor : mTimeouts[a] # <<>> => Scheduled(a) \/ a \in S!ToSet(w)
    BY <2>2, <2>3, <2>5, ScheduledIs
  <2>. QED
    BY <2>1, <2>4, <2>6, <2>7
<1>. QED
  BY <1>1, <1>2 DEF NothingStranded, IInv

LEMMA ListsAreKept ==
  ASSUME IInv
  PROVE  LoopsKeepLists
<1>1. pc # "lost" /\ Agree(links)
  BY DEF IInv, Whereabouts, ListsFit, Fit, Sound
<1>. QED
  BY <1>1 DEF LoopsKeepLists, NeverLost, RingsKept, Agree

-----------------------------------------------------------------------------
(* The theorems *)

\* The inductive invariant, for applications that take none of the liberties.
THEOREM LoopInvariant == RulesKept => (Spec => []IInv)
<1>. SUFFICES ASSUME RulesKept PROVE Spec => []IInv
  OBVIOUS
<1>1. Init => IInv
  BY InitFits
<1>2. IInv /\ [Next]_vars => IInv'
  BY NextKeeps, StutterKeeps
<1>. QED
  BY <1>1, <1>2, PTL DEF Spec

\* Whatever handlers and timeouts send in the middle of a cycle, a message is
\* in one queue until its handler has returned, is handled once, and after
\* those of its sort before it (actor.cpp:54-62, dispatcher.cpp:89).
THEOREM MailIsHandledOnceInOrder == RulesKept => (Spec => []HandledOnceInOrder)
<1>1. IInv => HandledOnceInOrder
  BY MailIsConserved DEF HandledOnceInOrder, IInv
<1>. QED
  BY <1>1, LoopInvariant, PTL

\* An actor with messages or timeouts is where the loops look for it, and
\* epoll_wait is told to wake in time (dispatcher.cpp:127-188).
THEOREM NothingIsStranded == RulesKept => (Spec => []NothingStranded)
<1>1. IInv => NothingStranded
  BY NoneStranded
<1>. QED
  BY <1>1, LoopInvariant, PTL

\* Every loop of run() stays in its list, and every list a ring, while
\* handlers move actors between them (list.h:384, dispatcher.cpp:155-188).
THEOREM LoopsStayInTheirLists == RulesKept => (Spec => []LoopsKeepLists)
<1>1. IInv => LoopsKeepLists
  BY ListsAreKept
<1>. QED
  BY <1>1, LoopInvariant, PTL

=============================================================================

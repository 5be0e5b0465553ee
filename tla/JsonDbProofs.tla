---------------------------- MODULE JsonDbProofs ----------------------------
(***************************************************************************)
(* For every set of names, scalars and observers and every bound: reading  *)
(* an item of the database gives what was written last, no cached text is  *)
(* out of date, what exists is a tree, and no observer that is to be told  *)
(* of a change is forgotten, whatever observers do in the middle of a      *)
(* notification.  For every set of items and paths of the JSON adapters:   *)
(* their lists stay a tree, and a message does what its path names.        *)
(***************************************************************************)
EXTENDS JsonDb, JsonStore, TLAPS, SequenceTheorems, FiniteSetTheorems,
        WellFoundedInduction

Type == {"NULL", "INTEGER", "DECIMAL", "STRING", "BOOLEAN"} \cup Container
Value == {s.value : s \in Scalar} \cup Item
Reading == [type : Type, value : Value]
Text == Seq((Name \cup {0}) \cup (Type \cup Value))
Entry == [name : Name \cup {0}, type : Type, value : Value, escaped : Text]

\* member() and read() in a list of members.
Find(s, n) ==
  LET at == {k \in DOMAIN s : s[k].name = n}
  IN  IF at = {} THEN 0 ELSE CHOOSE k \in at : \A l \in at : k <= l

Look(s, n) == IF Find(s, n) = 0 THEN Invalid ELSE ValueOf(s[Find(s, n)])

NamedOnce(s) ==
  \A k, l \in 1..Len(s) : s[k].name \in Name /\ s[k].name = s[l].name => k = l

Nameless(s) == \A k \in 1..Len(s) : s[k].name = 0

TextsCurrent(s) == \A k \in 1..Len(s) : s[k].escaped \in {<<>>, Escape(s[k])}

\* The variables that reading depends on have their types, and made is what
\* was made.
Shapes ==
  /\ mMembers \in [Item -> Seq(Entry)] /\ mLength \in [Item -> Nat]
  /\ made \in 0..MaxItems /\ alive \subseteq 1..made
  /\ itsType \in [Item -> Type]
  /\ fields \in [Item -> [Name -> Reading \cup {Invalid}]]
  /\ elements \in [Item -> Seq(Reading)]

\* An item not made yet is empty.
Fresh ==
  \A i \in Item : i > made =>
    /\ mMembers[i] = <<>> /\ mLength[i] = 0 /\ i \notin torn
    /\ elements[i] = <<>> /\ fields[i] = [n \in Name |-> Invalid]

\* An object's members have different names, and each the value that was set
\* last; unset() keeps a deleted member, and the object is torn.
ObjectHolds(i) ==
  /\ NamedOnce(mMembers[i])
  /\ \A n \in Name : Look(mMembers[i], n) = fields[i][n]

\* An array's members are its elements, and have no names.
ArrayHolds(i) ==
  /\ mLength[i] = Len(elements[i])
  /\ itsType[i] # "ARRAY" => elements[i] = <<>>
  /\ itsType[i] = "ARRAY" =>
       /\ Len(mMembers[i]) = Len(elements[i]) /\ Nameless(mMembers[i])
       /\ \A k \in 1..Len(mMembers[i]) : ValueOf(mMembers[i][k]) = elements[i][k]

IInv ==
  /\ Shapes /\ Fresh
  /\ \A i \in Item : i \notin torn => ObjectHolds(i)
  /\ \A i \in Item : ArrayHolds(i)
  /\ \A i \in Item : TextsCurrent(mMembers[i])

-----------------------------------------------------------------------------
(* Lists of members *)

LEMMA FindNone ==
  ASSUME NEW T, NEW s \in Seq(T), NEW n, \A k \in 1..Len(s) : s[k].name # n
  PROVE  Find(s, n) = 0
PROOF
  <1> DEFINE at == {k \in DOMAIN s : s[k].name = n}
  <1>1. DOMAIN s = 1..Len(s) OBVIOUS
  <1>2. at = {} BY <1>1
  <1>3. Find(s, n) = IF at = {} THEN 0 ELSE CHOOSE k \in at : \A l \in at : k <= l BY DEF Find
  <1> QED BY <1>2, <1>3

LEMMA FindAt ==
  ASSUME NEW T, NEW s \in Seq(T), NamedOnce(s), NEW n \in Name,
         NEW m \in 1..Len(s), s[m].name = n
  PROVE  Find(s, n) = m
PROOF
  <1> DEFINE at == {k \in DOMAIN s : s[k].name = n}
  <1>1. DOMAIN s = 1..Len(s) OBVIOUS
  <1>2. at = {m} BY <1>1 DEF NamedOnce
  <1>3. Find(s, n) = IF at = {} THEN 0 ELSE CHOOSE k \in at : \A l \in at : k <= l BY DEF Find
  <1>4. m <= m OBVIOUS
  <1> HIDE DEF at
  <1>5. (CHOOSE k \in at : \A l \in at : k <= l) \in at BY <1>2, <1>4
  <1> QED BY <1>2, <1>3, <1>5

\* With different names there is at most one of each.
LEMMA FindIs ==
  ASSUME NEW T, NEW s \in Seq(T), NamedOnce(s), NEW n \in Name
  PROVE  /\ Find(s, n) = 0 => \A k \in 1..Len(s) : s[k].name # n
         /\ Find(s, n) # 0 => Find(s, n) \in 1..Len(s) /\ s[Find(s, n)].name = n
PROOF
  <1>1. CASE \A k \in 1..Len(s) : s[k].name # n BY <1>1, FindNone
  <1>2. CASE \E k \in 1..Len(s) : s[k].name = n
    <2>1. PICK k \in 1..Len(s) : s[k].name = n BY <1>2
    <2>2. Find(s, n) = k BY <2>1, FindAt
    <2>3. k # 0 /\ Len(s) \in Nat OBVIOUS
    <2> QED BY <2>1, <2>2, <2>3
  <1> QED BY <1>1, <1>2

\* In a list without names nothing is found.
LEMMA NamelessLook ==
  ASSUME NEW T, NEW s \in Seq(T), Nameless(s)
  PROVE  NamedOnce(s) /\ \A n \in Name : Look(s, n) = Invalid
PROOF
  <1>1. NamedOnce(s) BY JsonDbAssumption DEF JsonDbAssumption, NamedOnce, Nameless
  <1>2. ASSUME NEW n \in Name PROVE Look(s, n) = Invalid
    <2>1. \A k \in 1..Len(s) : s[k].name # n
      BY JsonDbAssumption DEF JsonDbAssumption, Nameless
    <2>2. Find(s, n) = 0 BY <2>1, FindNone
    <2> QED BY <2>2 DEF Look
  <1> QED BY <1>1, <1>2

\* Reading depends on the names and values alone.
LEMMA SameLook ==
  ASSUME NEW T, NEW s \in Seq(T), NEW U, NEW r \in Seq(U), NamedOnce(s), Len(r) = Len(s),
         \A k \in 1..Len(s) : r[k].name = s[k].name /\ ValueOf(r[k]) = ValueOf(s[k])
  PROVE  NamedOnce(r) /\ \A n \in Name : Look(r, n) = Look(s, n)
PROOF
  <1>1. NamedOnce(r) BY DEF NamedOnce
  <1>2. ASSUME NEW n \in Name PROVE Look(r, n) = Look(s, n)
    <2>1. CASE Find(s, n) = 0
      <3>1. \A k \in 1..Len(s) : s[k].name # n BY <2>1, FindIs
      <3>2. \A k \in 1..Len(r) : r[k].name # n BY <3>1
      <3>3. Find(r, n) = 0 BY <3>2, FindNone
      <3> QED BY <2>1, <3>3 DEF Look
    <2>2. CASE Find(s, n) # 0
      <3> DEFINE m == Find(s, n)
      <3>1. m \in 1..Len(s) /\ s[m].name = n BY <2>2, FindIs
      <3>2. m \in 1..Len(r) /\ r[m].name = n BY <3>1
      <3>3. Find(r, n) = m BY <1>1, <3>2, FindAt
      <3> QED BY <2>2, <3>1, <3>3 DEF Look
    <2> QED BY <2>1, <2>2
  <1> QED BY <1>1, <1>2

LEMMA MemberIs ==
  ASSUME NEW n \in Name \cup {0}, NEW v \in Reading
  PROVE  /\ Member(n, v) \in Entry
         /\ Member(n, v).name = n /\ Member(n, v).escaped = <<>> /\ ValueOf(Member(n, v)) = v
PROOF
  <1>1. <<>> \in Text BY DEF Text
  <1>2. v = [type |-> v.type, value |-> v.value] /\ v.type \in Type /\ v.value \in Value
    BY DEF Reading
  <1> HIDE DEF Text, Value
  <1> QED BY <1>1, <1>2 DEF Member, Entry, ValueOf

\* A list with a member more.
LEMMA Appended ==
  ASSUME NEW s \in Seq(Entry), NEW e \in Entry, TextsCurrent(s), e.escaped = <<>>
  PROVE  /\ Append(s, e) \in Seq(Entry) /\ TextsCurrent(Append(s, e))
         /\ Len(Append(s, e)) = Len(s) + 1 /\ Append(s, e)[Len(s) + 1] = e
         /\ \A k \in 1..Len(s) : Append(s, e)[k] = s[k]
PROOF
  <1>1. /\ Append(s, e) \in Seq(Entry) /\ Len(Append(s, e)) = Len(s) + 1
        /\ Append(s, e)[Len(s) + 1] = e /\ \A k \in 1..Len(s) : Append(s, e)[k] = s[k]
    <2> HIDE DEF Entry
    <2> QED OBVIOUS
  <1>2. TextsCurrent(Append(s, e))
    <2>1. SUFFICES ASSUME NEW k \in 1..Len(Append(s, e))
                   PROVE  Append(s, e)[k].escaped \in {<<>>, Escape(Append(s, e)[k])}
      BY DEF TextsCurrent
    <2>2. k \in 1..Len(s) \/ k = Len(s) + 1 BY <1>1
    <2> QED BY <1>1, <2>2 DEF TextsCurrent
  <1> QED BY <1>1, <1>2

\* A new name is found at the end.
LEMMA Named ==
  ASSUME NEW s \in Seq(Entry), NEW n \in Name, NEW e \in Entry, e.name = n,
         NamedOnce(s), Find(s, n) = 0
  PROVE  /\ NamedOnce(Append(s, e))
         /\ \A m \in Name : Look(Append(s, e), m) = IF m = n THEN ValueOf(e) ELSE Look(s, m)
PROOF
  <1> DEFINE r == Append(s, e)
  <1> HIDE DEF Entry
  <1>1. /\ r \in Seq(Entry) /\ Len(r) = Len(s) + 1 /\ r[Len(s) + 1] = e
        /\ \A k \in 1..Len(s) : r[k] = s[k]
    OBVIOUS
  <1>2. \A k \in 1..Len(s) : s[k].name # n BY FindIs
  <1> HIDE DEF r
  <1>3. NamedOnce(r)
    <2>1. SUFFICES ASSUME NEW k \in 1..Len(r), NEW l \in 1..Len(r),
                          r[k].name \in Name, r[k].name = r[l].name
                   PROVE  k = l
      BY DEF NamedOnce
    <2>2. (k \in 1..Len(s) \/ k = Len(s) + 1) /\ (l \in 1..Len(s) \/ l = Len(s) + 1) BY <1>1
    <2>3. CASE k \in 1..Len(s) /\ l \in 1..Len(s) BY <1>1, <2>1, <2>3 DEF NamedOnce
    <2>4. CASE ~(k \in 1..Len(s) /\ l \in 1..Len(s)) BY <1>1, <1>2, <2>1, <2>2, <2>4
    <2> QED BY <2>3, <2>4
  <1>4. ASSUME NEW m \in Name
        PROVE  Look(r, m) = IF m = n THEN ValueOf(e) ELSE Look(s, m)
    <2>1. CASE m = n
      <3>1. Len(s) + 1 \in 1..Len(r) /\ r[Len(s) + 1].name = n BY <1>1
      <3>2. Find(r, n) = Len(s) + 1 BY <1>1, <1>3, <3>1, FindAt
      <3>3. Len(s) + 1 # 0 OBVIOUS
      <3> QED BY <1>1, <2>1, <3>2, <3>3 DEF Look
    <2>2. CASE m # n /\ Find(s, m) = 0
      <3>1. \A k \in 1..Len(s) : s[k].name # m BY <2>2, FindIs
      <3>2. \A k \in 1..Len(r) : r[k].name # m
        <4> TAKE k \in 1..Len(r)
        <4>1. k \in 1..Len(s) \/ k = Len(s) + 1 BY <1>1
        <4> QED BY <1>1, <2>2, <3>1, <4>1
      <3>3. Find(r, m) = 0 BY <1>1, <3>2, FindNone
      <3> QED BY <2>2, <3>3 DEF Look
    <2>3. CASE m # n /\ Find(s, m) # 0
      <3>1. Find(s, m) \in 1..Len(s) /\ s[Find(s, m)].name = m BY <2>3, FindIs
      <3>2. Find(s, m) \in 1..Len(r) /\ r[Find(s, m)].name = m BY <1>1, <3>1
      <3>3. Find(r, m) = Find(s, m) BY <1>1, <1>3, <3>2, FindAt
      <3> QED BY <1>1, <2>3, <3>1, <3>3 DEF Look
    <2> QED BY <2>1, <2>2, <2>3
  <1> QED BY <1>3, <1>4 DEF r

\* replaceMember() and what follows of it: the new value under the name, and
\* no other changed.
LEMMA Replaced ==
  ASSUME NEW i \in Item, NEW n \in Name, NEW v \in Reading,
         mMembers[i] \in Seq(Entry), NamedOnce(mMembers[i]), TextsCurrent(mMembers[i])
  PROVE  LET r == replaceMember(i, n, v)
         IN  /\ r \in Seq(Entry) /\ NamedOnce(r) /\ TextsCurrent(r)
             /\ \A m \in Name : Look(r, m) = IF m = n THEN v ELSE Look(mMembers[i], m)
PROOF
  <1> DEFINE s == mMembers[i]
             e == Member(n, v)
             r == replaceMember(i, n, v)
             f == Find(s, n)
  <1>1. e \in Entry /\ e.name = n /\ e.escaped = <<>> /\ ValueOf(e) = v BY MemberIs
  <1>2. f = member(i, n) BY DEF Find, member
  <1>3. r = IF f = 0 THEN Append(s, e) ELSE [s EXCEPT ![f] = e] BY <1>2 DEF replaceMember
  <1>4. s \in Seq(Entry) /\ NamedOnce(s) /\ TextsCurrent(s) OBVIOUS
  <1> HIDE DEF e, r, s, Entry, Reading
  <1> SUFFICES /\ r \in Seq(Entry) /\ NamedOnce(r) /\ TextsCurrent(r)
               /\ \A m \in Name : Look(r, m) = IF m = n THEN v ELSE Look(s, m)
    BY DEF r, s
  <1>5. CASE f = 0
    <2>1. r = Append(s, e) BY <1>3, <1>5
    <2>2. r \in Seq(Entry) /\ TextsCurrent(r) BY <1>1, <1>4, <2>1, Appended
    <2>3. /\ NamedOnce(Append(s, e))
          /\ \A m \in Name : Look(Append(s, e), m) = IF m = n THEN ValueOf(e) ELSE Look(s, m)
      BY <1>1, <1>4, <1>5, Named DEF f
    <2> QED BY <1>1, <2>1, <2>2, <2>3
  <1>6. CASE f # 0
    <2>1. f \in 1..Len(s) /\ s[f].name = n BY <1>4, <1>6, FindIs DEF f
    <2>2. r = [s EXCEPT ![f] = e] BY <1>3, <1>6
    <2> HIDE DEF f
    <2>3. /\ r \in Seq(Entry) /\ Len(r) = Len(s)
          /\ \A k \in 1..Len(s) : r[k] = IF k = f THEN e ELSE s[k]
      BY <1>1, <1>4, <2>1, <2>2
    <2>4. TextsCurrent(r)
      <3> SUFFICES ASSUME NEW k \in 1..Len(r)
                   PROVE  r[k].escaped \in {<<>>, Escape(r[k])}
        BY DEF TextsCurrent
      <3> QED BY <1>1, <1>4, <2>3 DEF TextsCurrent
    <2>5. \A k \in 1..Len(s) : r[k].name = s[k].name BY <1>1, <2>1, <2>3
    <2>6. NamedOnce(r) BY <1>4, <2>3, <2>5 DEF NamedOnce
    <2>7. ASSUME NEW m \in Name
          PROVE  Look(r, m) = IF m = n THEN v ELSE Look(s, m)
      <3>1. CASE m = n
        <4>1. f \in 1..Len(r) /\ r[f] = e BY <2>1, <2>3
        <4>2. Find(r, n) = f BY <1>1, <2>3, <2>6, <4>1, FindAt
        <4>3. f # 0 BY <1>6
        <4> QED BY <1>1, <3>1, <4>1, <4>2, <4>3 DEF Look
      <3>2. CASE m # n /\ Find(s, m) = 0
        <4>1. \A k \in 1..Len(s) : s[k].name # m BY <1>4, <3>2, FindIs
        <4>2. \A k \in 1..Len(r) : r[k].name # m BY <2>3, <2>5, <4>1
        <4>3. Find(r, m) = 0 BY <2>3, <4>2, FindNone
        <4> QED BY <3>2, <4>3 DEF Look
      <3>3. CASE m # n /\ Find(s, m) # 0
        <4>1. Find(s, m) \in 1..Len(s) /\ s[Find(s, m)].name = m BY <1>4, <3>3, FindIs
        <4>2. Find(s, m) \in 1..Len(r) /\ r[Find(s, m)].name = m BY <2>3, <2>5, <4>1
        <4>3. Find(r, m) = Find(s, m) BY <2>3, <2>6, <4>2, FindAt
        <4>4. r[Find(s, m)] = s[Find(s, m)] BY <2>1, <2>3, <3>3, <4>1
        <4> QED BY <3>3, <4>3, <4>4 DEF Look
      <3> QED BY <3>1, <3>2, <3>3
    <2> QED BY <2>3, <2>4, <2>6, <2>7
  <1> QED BY <1>5, <1>6

\* escapeMember() gives a member the text of its value.
LEMMA EscapedIs ==
  ASSUME NEW i, NEW m \in Entry, m.escaped \in {<<>>, Escape(m)}
  PROVE  /\ Escaped(i, m) \in Entry
         /\ Escaped(i, m).name = m.name /\ ValueOf(Escaped(i, m)) = ValueOf(m)
         /\ Escaped(i, m).escaped \in {<<>>, Escape(Escaped(i, m))}
PROOF
  <1> DEFINE W == (Name \cup {0}) \cup (Type \cup Value)
             e == [m EXCEPT !.escaped = Escape(m)]
  <1>1. m.name \in W /\ m.type \in W /\ m.value \in W BY DEF Entry
  <1>2. Escape(m) \in Seq(W)
    <2> HIDE DEF W
    <2>1. <<m.name>> \in Seq(W) /\ <<m.name, m.type, m.value>> \in Seq(W) BY <1>1
    <2> QED BY <2>1 DEF Escape
  <1>3. Escape(m) \in Text BY <1>2 DEF Text
  <1>4. /\ e \in Entry /\ e.name = m.name /\ e.type = m.type /\ e.value = m.value
        /\ e.escaped = Escape(m)
    <2> HIDE DEF Text, Type, Value
    <2> QED BY <1>3 DEF Entry
  <1>5. Escape(e) = Escape(m)
    <2> HIDE DEF e
    <2> QED BY <1>4 DEF Escape
  <1> HIDE DEF e
  <1>6. Escaped(i, m) = e \/ Escaped(i, m) = m BY DEF Escaped, e
  <1> QED BY <1>4, <1>5, <1>6 DEF ValueOf

\* Of RemoveAt: those behind the place move up.
LEMMA RemoveAtIs ==
  ASSUME NEW T, NEW s \in Seq(T), NEW k \in 1..Len(s)
  PROVE  LET r == S!RemoveAt(s, k)
         IN  /\ r \in Seq(T) /\ Len(r) = Len(s) - 1
             /\ \A l \in 1..Len(r) : r[l] = s[IF l < k THEN l ELSE l + 1]
PROOF
  <1> DEFINE r == S!RemoveAt(s, k)
             p == SubSeq(s, 1, k - 1)
             q == SubSeq(s, k + 1, Len(s))
  <1>1. Len(s) \in Nat /\ k \in Nat /\ k >= 1 /\ k <= Len(s) OBVIOUS
  <1>2. p \in Seq(T) /\ Len(p) = k - 1 /\ \A l \in 1..(k - 1) : p[l] = s[l] OBVIOUS
  <1>3. q \in Seq(T) /\ Len(q) = Len(s) - k /\ \A l \in 1..(Len(s) - k) : q[l] = s[k + l]
    OBVIOUS
  <1>4. r = p \o q BY DEF S!RemoveAt
  <1> HIDE DEF p, q
  <1>5. p \in Seq(T) /\ q \in Seq(T) BY <1>2, <1>3
  <1>6. /\ p \o q \in Seq(T) /\ Len(p \o q) = Len(p) + Len(q)
        /\ \A l \in 1..Len(p) : (p \o q)[l] = p[l]
        /\ \A l \in (Len(p) + 1)..(Len(p) + Len(q)) : (p \o q)[l] = q[l - Len(p)]
    BY ONLY <1>5
  <1> HIDE DEF r
  <1>7. r \in Seq(T) /\ Len(r) = Len(s) - 1 BY <1>1, <1>2, <1>3, <1>4, <1>6
  <1>8. ASSUME NEW l \in 1..Len(r) PROVE r[l] = s[IF l < k THEN l ELSE l + 1]
    <2>1. CASE l < k BY <1>1, <1>2, <1>4, <1>6, <2>1
    <2>2. CASE ~(l < k)
      <3> DEFINE m == l - (k - 1)
      <3>1. m \in 1..(Len(s) - k) /\ k + m = l + 1 /\ l \in (Len(p) + 1)..(Len(p) + Len(q))
        BY <1>1, <1>2, <1>3, <1>7, <2>2
      <3>2. r[l] = q[m] BY <1>2, <1>4, <1>6, <3>1
      <3>3. q[m] = s[k + m] BY <1>3, <3>1
      <3> QED BY <2>2, <3>1, <3>2, <3>3
    <2> QED BY <2>1, <2>2
  <1> QED BY <1>7, <1>8 DEF r

-----------------------------------------------------------------------------
(* One step *)

\* What the steps do to the items there are: new ones may come, numbered
\* above those before.
Grown ==
  /\ made' \in made..MaxItems /\ alive' \subseteq 1..made'
  /\ itsType' \in [Item -> Type] /\ \A j \in 1..made : itsType'[j] = itsType[j]

\* A step that changes the items of X alone keeps the invariant if it holds
\* of them afterwards.
LEMMA Framed ==
  ASSUME IInv, Grown, NEW X \in SUBSET (1..made),
         mMembers' \in [Item -> Seq(Entry)], mLength' \in [Item -> Nat],
         fields' \in [Item -> [Name -> Reading \cup {Invalid}]],
         elements' \in [Item -> Seq(Reading)],
         \A j \in Item \ X :
           /\ mMembers'[j] = mMembers[j] /\ mLength'[j] = mLength[j]
           /\ fields'[j] = fields[j] /\ elements'[j] = elements[j]
           /\ j \in torn' <=> j \in torn,
         \A j \in X : /\ j \notin torn' => ObjectHolds(j)'
                      /\ ArrayHolds(j)' /\ TextsCurrent(mMembers[j])'
  PROVE  IInv'
PROOF
  <1> USE JsonDbAssumption DEF JsonDbAssumption, Item
  <1>1. Shapes'
    <2>1. made' \in 0..MaxItems BY DEF IInv, Shapes, Grown
    <2> QED BY <2>1 DEF Shapes, Grown
  <1>2. ASSUME NEW j \in Item, j > made' 
        PROVE  /\ mMembers'[j] = <<>> /\ mLength'[j] = 0 /\ j \notin torn'
               /\ elements'[j] = <<>> /\ fields'[j] = [n \in Name |-> Invalid]
    <2>1. j > made /\ j \notin X BY <1>2 DEF IInv, Shapes, Grown
    <2> QED BY <2>1 DEF IInv, Fresh
  <1>3. ASSUME NEW j \in Item, j \notin torn' PROVE ObjectHolds(j)'
    <2>1. CASE j \in X BY <1>3, <2>1
    <2>2. CASE j \notin X
      <3>1. ObjectHolds(j) BY <1>3, <2>2 DEF IInv
      <3> QED BY <2>2, <3>1 DEF ObjectHolds
    <2> QED BY <2>1, <2>2
  <1>4. ASSUME NEW j \in Item PROVE ArrayHolds(j)'
    <2>1. CASE j \in X BY <2>1
    <2>2. CASE j \notin X /\ j \in 1..made
      <3>1. ArrayHolds(j) BY DEF IInv
      <3>2. itsType'[j] = itsType[j] BY <2>2 DEF Grown
      <3> QED BY <2>2, <3>1, <3>2 DEF ArrayHolds
    <2>3. CASE j \notin 1..made
      <3>1. j > made /\ j \notin X BY <2>3 DEF IInv, Shapes
      <3>2. mMembers'[j] = <<>> /\ mLength'[j] = 0 /\ elements'[j] = <<>>
        BY <3>1 DEF IInv, Fresh
      <3> QED BY <3>2 DEF ArrayHolds, Nameless
    <2> QED BY <2>1, <2>2, <2>3
  <1>5. ASSUME NEW j \in Item PROVE TextsCurrent(mMembers[j])'
    <2>1. CASE j \in X BY <2>1
    <2>2. CASE j \notin X
      <3>1. TextsCurrent(mMembers[j]) BY DEF IInv
      <3> QED BY <2>2, <3>1 DEF TextsCurrent
    <2> QED BY <2>1, <2>2
  <1> QED BY <1>1, <1>2, <1>3, <1>4, <1>5 DEF IInv, Fresh

\* The same of a step that changes one item.
LEMMA FramedOne ==
  ASSUME IInv, Grown, NEW i \in 1..made,
         mMembers' \in [Item -> Seq(Entry)], mLength' \in [Item -> Nat],
         fields' \in [Item -> [Name -> Reading \cup {Invalid}]],
         elements' \in [Item -> Seq(Reading)],
         \A j \in Item \ {i} :
           /\ mMembers'[j] = mMembers[j] /\ mLength'[j] = mLength[j]
           /\ fields'[j] = fields[j] /\ elements'[j] = elements[j]
           /\ j \in torn' <=> j \in torn,
         i \notin torn' => ObjectHolds(i)', ArrayHolds(i)', TextsCurrent(mMembers[i])'
  PROVE  IInv'
PROOF
  <1> DEFINE X == {i}
  <1>1. X \in SUBSET (1..made) OBVIOUS
  <1>2. \A j \in X : /\ j \notin torn' => ObjectHolds(j)'
                     /\ ArrayHolds(j)' /\ TextsCurrent(mMembers[j])'
    <2> SUFFICES ASSUME NEW j \in X
                 PROVE  /\ j \notin torn' => ObjectHolds(j)'
                        /\ ArrayHolds(j)' /\ TextsCurrent(mMembers[j])'
      OBVIOUS
    <2>1. j = i OBVIOUS
    <2> QED BY <2>1
  <1>3. \A j \in Item \ X :
           /\ mMembers'[j] = mMembers[j] /\ mLength'[j] = mLength[j]
           /\ fields'[j] = fields[j] /\ elements'[j] = elements[j]
           /\ j \in torn' <=> j \in torn
    OBVIOUS
  <1> HIDE DEF X, Reading, Entry
  <1> QED BY <1>1, <1>2, <1>3, Framed

LEMMA NothingMade ==
  ASSUME IInv, UNCHANGED <<made, itsType>>, alive' \subseteq alive
  PROVE  Grown
PROOF
  <1>1. made \in 0..MaxItems /\ alive \subseteq 1..made /\ itsType \in [Item -> Type]
    BY DEF IInv, Shapes
  <1> QED BY <1>1, JsonDbAssumption DEF JsonDbAssumption, Grown

LEMMA OneMade ==
  ASSUME IInv, NEW i, NEW type \in Container, Created(i, type), alive' \subseteq alive \cup {made'}
  PROVE  Grown /\ made' \in Item
PROOF
  <1>1. made \in 0..MaxItems /\ alive \subseteq 1..made /\ itsType \in [Item -> Type]
    BY DEF IInv, Shapes
  <1>2. made' = made + 1 /\ made' \in 1..MaxItems
    BY <1>1, JsonDbAssumption DEF JsonDbAssumption, Created
  <1>3. type \in Type BY DEF Type
  <1>4. itsType' = [itsType EXCEPT ![made'] = type] BY DEF Created
  <1>5. alive' \subseteq 1..made' BY <1>1, <1>2
  <1>6. itsType' \in [Item -> Type] /\ \A j \in 1..made : itsType'[j] = itsType[j]
    <2> HIDE DEF Type
    <2> QED BY <1>1, <1>2, <1>3, <1>4, JsonDbAssumption DEF JsonDbAssumption, Item
  <1>7. made' \in made..MaxItems
    BY <1>1, <1>2, JsonDbAssumption DEF JsonDbAssumption
  <1> QED BY <1>2, <1>5, <1>6, <1>7 DEF Grown, Item

LEMMA ScalarIsReading ==
  ASSUME NEW s \in Scalar
  PROVE  s \in Reading
PROOF
  <1> DEFINE U == {"NULL", "INTEGER", "DECIMAL", "STRING", "BOOLEAN"}
  <1>1. s \in [type : U, value : {s.value}] BY JsonDbAssumption DEF JsonDbAssumption
  <1>2. s.value \in Value BY DEF Value
  <1>3. U \subseteq Type BY DEF Type
  <1> HIDE DEF U, Type, Value
  <1> QED BY <1>1, <1>2, <1>3 DEF Reading

LEMMA ItemIsReading ==
  ASSUME NEW j \in Item, NEW type \in Container
  PROVE  [type |-> type, value |-> j] \in Reading
PROOF
  <1>1. type \in Type /\ j \in Value BY DEF Type, Value
  <1> HIDE DEF Type, Value
  <1> QED BY <1>1 DEF Reading

\* An item that is changed exists, and is not torn.
LEMMA Changeable ==
  ASSUME IInv, NEW i \in Item, MayChange(i)
  PROVE  /\ i \in 1..made /\ i \notin torn
         /\ ObjectHolds(i) /\ ArrayHolds(i) /\ TextsCurrent(mMembers[i])
         /\ mMembers[i] \in Seq(Entry)
PROOF
  <1>1. i \in alive /\ i \notin torn BY DEF MayChange, MayWalk
  <1> QED BY <1>1 DEF IInv, Shapes

LEMMA PutStep ==
  ASSUME IInv, Grown, NEW i \in Item, NEW n \in Name, NEW v \in Reading, NEW new,
         Put(i, n, v, new)
  PROVE  IInv'
PROOF
  <1> DEFINE r == replaceMember(i, n, v)
  <1>1. /\ itsType[i] = "OBJECT" /\ MayChange(i)
        /\ mMembers' = [mMembers EXCEPT ![i] = r]
        /\ fields' = [fields EXCEPT ![i][n] = v]
        /\ mLength' = mLength /\ torn' = torn /\ elements' = elements
    BY DEF Put
  <1>2. /\ i \in 1..made /\ i \notin torn
        /\ ObjectHolds(i) /\ ArrayHolds(i) /\ TextsCurrent(mMembers[i])
        /\ mMembers[i] \in Seq(Entry)
    BY <1>1, Changeable
  <1>3. /\ r \in Seq(Entry) /\ NamedOnce(r) /\ TextsCurrent(r)
        /\ \A m \in Name : Look(r, m) = IF m = n THEN v ELSE Look(mMembers[i], m)
    BY <1>2, Replaced DEF ObjectHolds
  <1> HIDE DEF r
  <1>4. /\ mMembers \in [Item -> Seq(Entry)] /\ mLength \in [Item -> Nat]
        /\ fields \in [Item -> [Name -> Reading \cup {Invalid}]]
        /\ elements \in [Item -> Seq(Reading)]
    BY DEF IInv, Shapes
  <1> HIDE DEF Entry, Reading
  <1>5. /\ mMembers' \in [Item -> Seq(Entry)] /\ mMembers'[i] = r
        /\ \A j \in Item \ {i} : mMembers'[j] = mMembers[j]
    BY <1>1, <1>3, <1>4
  <1>6. /\ fields' \in [Item -> [Name -> Reading \cup {Invalid}]]
        /\ \A m \in Name : fields'[i][m] = IF m = n THEN v ELSE fields[i][m]
        /\ \A j \in Item \ {i} : fields'[j] = fields[j]
    BY <1>1, <1>4
  <1>7. ObjectHolds(i)' BY <1>2, <1>3, <1>5, <1>6 DEF ObjectHolds
  <1>8. ArrayHolds(i)'
    <2>1. itsType'[i] = "OBJECT" BY <1>1, <1>2 DEF Grown
    <2>2. elements[i] = <<>> /\ mLength[i] = Len(elements[i]) BY <1>1, <1>2 DEF ArrayHolds
    <2> QED BY <1>1, <2>1, <2>2 DEF ArrayHolds
  <1>9. TextsCurrent(mMembers[i])' BY <1>3, <1>5 DEF TextsCurrent
  <1>10. \A j \in Item \ {i} :
           /\ mMembers'[j] = mMembers[j] /\ mLength'[j] = mLength[j]
           /\ fields'[j] = fields[j] /\ elements'[j] = elements[j]
           /\ j \in torn' <=> j \in torn
    BY <1>1, <1>5, <1>6
  <1>11. mLength' \in [Item -> Nat] /\ elements' \in [Item -> Seq(Reading)] BY <1>1, <1>4
  <1> QED BY <1>2, <1>5, <1>6, <1>7, <1>8, <1>9, <1>10, <1>11, FramedOne

LEMMA UnsetStep ==
  ASSUME IInv, NEW i \in Item, NEW n \in Name, unset(i, n)
  PROVE  IInv'
PROOF
  <1> DEFINE s == mMembers[i]
             r == S!RemoveAt(s, member(i, n))
  <1>1. /\ itsType[i] = "OBJECT" /\ MayChange(i) /\ member(i, n) # 0
        /\ mMembers' = [mMembers EXCEPT ![i] = r]
        /\ torn' = torn \cup {i}
        /\ fields' = [fields EXCEPT ![i][n] = Invalid]
        /\ mLength' = mLength /\ elements' = elements /\ itsType' = itsType
    BY DEF unset
  <1>2. /\ i \in 1..made /\ ObjectHolds(i) /\ ArrayHolds(i) /\ TextsCurrent(s)
        /\ s \in Seq(Entry)
    BY <1>1, Changeable
  <1>3. Grown
    <2>1. alive' \subseteq alive /\ UNCHANGED <<made, itsType>> BY DEF unset, Without
    <2> QED BY <2>1, NothingMade
  <1>4. member(i, n) \in 1..Len(s)
    <2>1. member(i, n) = Find(s, n) BY DEF Find, member
    <2> QED BY <1>1, <1>2, <2>1, FindIs DEF ObjectHolds
  <1> HIDE DEF Entry, Reading, s
  <1>5. /\ r \in Seq(Entry) /\ Len(r) = Len(s) - 1
        /\ \A l \in 1..Len(r) : r[l] = s[IF l < member(i, n) THEN l ELSE l + 1]
    BY <1>2, <1>4, RemoveAtIs
  <1> HIDE DEF r
  <1>6. TextsCurrent(r)
    <2>1. SUFFICES ASSUME NEW k \in 1..Len(r)
                   PROVE  r[k].escaped \in {<<>>, Escape(r[k])}
      BY DEF TextsCurrent
    <2>2. \E l \in 1..Len(s) : r[k] = s[l]
      <3>1. Len(s) \in Nat /\ k \in 1..(Len(s) - 1) BY <1>2, <1>5
      <3>2. (IF k < member(i, n) THEN k ELSE k + 1) \in 1..Len(s) BY <3>1, <1>4
      <3> QED BY <1>5, <3>2
    <2> QED BY <1>2, <2>2 DEF TextsCurrent
  <1>7. /\ mMembers \in [Item -> Seq(Entry)] /\ mLength \in [Item -> Nat]
        /\ fields \in [Item -> [Name -> Reading \cup {Invalid}]]
        /\ elements \in [Item -> Seq(Reading)]
    BY DEF IInv, Shapes
  <1>8. /\ mMembers' \in [Item -> Seq(Entry)] /\ mMembers'[i] = r
        /\ \A j \in Item \ {i} : mMembers'[j] = mMembers[j]
    BY <1>1, <1>5, <1>7
  <1>9. /\ fields' \in [Item -> [Name -> Reading \cup {Invalid}]]
        /\ \A j \in Item \ {i} : fields'[j] = fields[j]
    BY <1>1, <1>7
  <1>10. ArrayHolds(i)' BY <1>1, <1>2 DEF ArrayHolds
  <1>11. TextsCurrent(mMembers[i])' BY <1>6, <1>8 DEF TextsCurrent
  <1>12. i \in torn' BY <1>1
  <1>13. \A j \in Item \ {i} :
           /\ mMembers'[j] = mMembers[j] /\ mLength'[j] = mLength[j]
           /\ fields'[j] = fields[j] /\ elements'[j] = elements[j]
           /\ j \in torn' <=> j \in torn
    BY <1>1, <1>8, <1>9
  <1>14. mLength' \in [Item -> Nat] /\ elements' \in [Item -> Seq(Reading)] BY <1>1, <1>7
  <1> QED BY <1>2, <1>3, <1>8, <1>9, <1>10, <1>11, <1>12, <1>13, <1>14, FramedOne

\* What is left of a step on an array: its members and elements agree.
LEMMA ArrayFramed ==
  ASSUME IInv, Grown, NEW i \in Item, itsType[i] = "ARRAY", MayChange(i),
         NEW r \in Seq(Entry), NEW q \in Seq(Reading),
         Nameless(r), TextsCurrent(r), Len(r) = Len(q),
         \A k \in 1..Len(r) : ValueOf(r[k]) = q[k],
         mMembers' = [mMembers EXCEPT ![i] = r],
         mLength' = [mLength EXCEPT ![i] = Len(r)],
         elements' = [elements EXCEPT ![i] = q],
         UNCHANGED <<fields, torn>>
  PROVE  IInv'
PROOF
  <1>1. /\ i \in 1..made /\ ObjectHolds(i) /\ ArrayHolds(i) /\ mMembers[i] \in Seq(Entry)
    BY Changeable
  <1>2. /\ mMembers \in [Item -> Seq(Entry)] /\ mLength \in [Item -> Nat]
        /\ fields \in [Item -> [Name -> Reading \cup {Invalid}]]
        /\ elements \in [Item -> Seq(Reading)]
    BY DEF IInv, Shapes
  <1> HIDE DEF Entry, Reading
  <1>3. /\ mMembers' \in [Item -> Seq(Entry)] /\ mMembers'[i] = r
        /\ \A j \in Item \ {i} : mMembers'[j] = mMembers[j]
    BY <1>2
  <1>4. /\ mLength' \in [Item -> Nat] /\ mLength'[i] = Len(r)
        /\ \A j \in Item \ {i} : mLength'[j] = mLength[j]
    <2>1. Len(r) \in Nat OBVIOUS
    <2> QED BY <1>2, <2>1
  <1>5. /\ elements' \in [Item -> Seq(Reading)] /\ elements'[i] = q
        /\ \A j \in Item \ {i} : elements'[j] = elements[j]
    BY <1>2
  <1>6. ObjectHolds(i)'
    <2>1. \A n \in Name : fields[i][n] = Invalid
      BY <1>1, NamelessLook DEF ObjectHolds, ArrayHolds
    <2>2. NamedOnce(r) /\ \A n \in Name : Look(r, n) = Invalid BY NamelessLook
    <2> QED BY <1>3, <2>1, <2>2 DEF ObjectHolds
  <1>7. ArrayHolds(i)'
    <2>1. itsType'[i] = "ARRAY" BY <1>1 DEF Grown
    <2>2. Nameless(mMembers[i])' BY <1>3 DEF Nameless
    <2> QED BY <1>3, <1>4, <1>5, <2>1, <2>2 DEF ArrayHolds
  <1>8. TextsCurrent(mMembers[i])' BY <1>3 DEF TextsCurrent
  <1>9. \A j \in Item \ {i} :
           /\ mMembers'[j] = mMembers[j] /\ mLength'[j] = mLength[j]
           /\ fields'[j] = fields[j] /\ elements'[j] = elements[j]
           /\ j \in torn' <=> j \in torn
    BY <1>3, <1>4, <1>5
  <1>10. fields' \in [Item -> [Name -> Reading \cup {Invalid}]] BY <1>2
  <1> QED BY <1>1, <1>3, <1>4, <1>5, <1>6, <1>7, <1>8, <1>9, <1>10, FramedOne

LEMMA AttachStep ==
  ASSUME IInv, Grown, NEW i \in Item, NEW v \in Reading, NEW new, Attach(i, v, new)
  PROVE  IInv'
PROOF
  <1> DEFINE s == mMembers[i]
             e == Member(0, v)
             r == Append(s, e)
             q == Append(elements[i], v)
  <1>1. /\ itsType[i] = "ARRAY" /\ MayChange(i)
        /\ mMembers' = [mMembers EXCEPT ![i] = r]
        /\ mLength' = [mLength EXCEPT ![i] = @ + 1]
        /\ elements' = [elements EXCEPT ![i] = q]
        /\ UNCHANGED <<fields, torn>>
    BY DEF Attach
  <1>2. /\ ArrayHolds(i) /\ TextsCurrent(s) /\ s \in Seq(Entry) BY <1>1, Changeable
  <1>3. e \in Entry /\ e.name = 0 /\ e.escaped = <<>> /\ ValueOf(e) = v BY MemberIs
  <1> HIDE DEF s, e
  <1>4. /\ r \in Seq(Entry) /\ TextsCurrent(r)
        /\ Len(r) = Len(s) + 1 /\ r[Len(s) + 1] = e /\ \A k \in 1..Len(s) : r[k] = s[k]
    BY <1>2, <1>3, Appended
  <1> HIDE DEF Entry, Reading, r
  <1>5. elements[i] \in Seq(Reading) BY DEF IInv, Shapes
  <1>6. /\ q \in Seq(Reading) /\ Len(q) = Len(elements[i]) + 1
        /\ q[Len(elements[i]) + 1] = v /\ \A k \in 1..Len(elements[i]) : q[k] = elements[i][k]
    BY <1>5
  <1> HIDE DEF q
  <1>7. /\ Len(s) = Len(elements[i]) /\ Nameless(s) /\ mLength[i] = Len(s)
        /\ \A k \in 1..Len(s) : ValueOf(s[k]) = elements[i][k]
    BY <1>1, <1>2 DEF ArrayHolds, s
  <1>8. Len(s) \in Nat BY <1>2
  <1>9. \A k \in 1..Len(r) : k \in 1..Len(s) \/ k = Len(s) + 1 BY <1>4, <1>8
  <1>10. Nameless(r) BY <1>3, <1>4, <1>7, <1>9 DEF Nameless
  <1>11. \A k \in 1..Len(r) : ValueOf(r[k]) = q[k]
    BY <1>3, <1>4, <1>6, <1>7, <1>9
  <1>12. Len(r) = Len(q) BY <1>4, <1>6, <1>7
  <1>13. mLength' = [mLength EXCEPT ![i] = Len(r)] BY <1>1, <1>4, <1>7
  <1> QED BY <1>1, <1>4, <1>6, <1>10, <1>11, <1>12, <1>13, ArrayFramed

LEMMA RemoveStep ==
  ASSUME IInv, NEW i \in Item, NEW index \in Nat, remove(i, index)
  PROVE  IInv'
PROOF
  <1> DEFINE s == mMembers[i]
             r == S!RemoveAt(s, index + 1)
             q == S!RemoveAt(elements[i], index + 1)
  <1>1. /\ itsType[i] = "ARRAY" /\ MayChange(i) /\ index < mLength[i]
        /\ mMembers' = [mMembers EXCEPT ![i] = r]
        /\ mLength' = [mLength EXCEPT ![i] = @ - 1]
        /\ elements' = [elements EXCEPT ![i] = q]
        /\ UNCHANGED <<fields, torn>>
    BY DEF remove, Removed
  <1>2. Grown
    <2>1. alive' \subseteq alive /\ UNCHANGED <<made, itsType>> BY DEF remove, Without
    <2> QED BY <2>1, NothingMade
  <1>3. /\ ArrayHolds(i) /\ TextsCurrent(s) /\ s \in Seq(Entry) BY <1>1, Changeable
  <1> HIDE DEF s, Entry, Reading
  <1>4. elements[i] \in Seq(Reading) BY DEF IInv, Shapes
  <1>5. /\ Len(s) = Len(elements[i]) /\ Nameless(s) /\ mLength[i] = Len(s)
        /\ \A k \in 1..Len(s) : ValueOf(s[k]) = elements[i][k]
    BY <1>1, <1>3 DEF ArrayHolds, s
  <1>6. Len(s) \in Nat BY <1>3
  <1>7. index + 1 \in 1..Len(s) BY <1>1, <1>5, <1>6
  <1>8. /\ r \in Seq(Entry) /\ Len(r) = Len(s) - 1
        /\ \A l \in 1..Len(r) : r[l] = s[IF l < index + 1 THEN l ELSE l + 1]
    BY <1>3, <1>7, RemoveAtIs
  <1>9. /\ q \in Seq(Reading) /\ Len(q) = Len(elements[i]) - 1
        /\ \A l \in 1..Len(q) : q[l] = elements[i][IF l < index + 1 THEN l ELSE l + 1]
    BY <1>4, <1>5, <1>7, RemoveAtIs, ZenonT(60)
  <1> HIDE DEF r, q
  <1>10. \A l \in 1..Len(r) : (IF l < index + 1 THEN l ELSE l + 1) \in 1..Len(s)
    BY <1>6, <1>8
  <1>11. Nameless(r) BY <1>5, <1>8, <1>10 DEF Nameless
  <1>12. TextsCurrent(r)
    <2>1. SUFFICES ASSUME NEW k \in 1..Len(r)
                   PROVE  r[k].escaped \in {<<>>, Escape(r[k])}
      BY DEF TextsCurrent
    <2>2. \E l \in 1..Len(s) : r[k] = s[l] BY <1>8, <1>10
    <2> QED BY <1>3, <2>2 DEF TextsCurrent
  <1>13. Len(r) = Len(q) BY <1>5, <1>8, <1>9
  <1>14. \A k \in 1..Len(r) : ValueOf(r[k]) = q[k] BY <1>5, <1>8, <1>9, <1>10, <1>13
  <1>15. mLength' = [mLength EXCEPT ![i] = Len(r)] BY <1>1, <1>5, <1>8
  <1> QED BY <1>1, <1>2, <1>8, <1>9, <1>11, <1>12, <1>13, <1>14, <1>15, ArrayFramed

\* A step that changes cached texts alone.
LEMMA TextsFramed ==
  ASSUME IInv, UNCHANGED <<alive, made, itsType, mLength, torn, fields, elements>>,
         mMembers' \in [Item -> Seq(Entry)],
         \A j \in Item :
           /\ Len(mMembers'[j]) = Len(mMembers[j])
           /\ \A k \in 1..Len(mMembers[j]) :
                /\ mMembers'[j][k].name = mMembers[j][k].name
                /\ ValueOf(mMembers'[j][k]) = ValueOf(mMembers[j][k])
                /\ mMembers'[j][k].escaped \in {<<>>, Escape(mMembers'[j][k])}
  PROVE  IInv'
PROOF
  <1> HIDE DEF Entry, Reading
  <1>1. mMembers \in [Item -> Seq(Entry)] BY DEF IInv, Shapes
  <1>2. Shapes' BY DEF IInv, Shapes
  <1>3. ASSUME NEW j \in Item
        PROVE  mMembers[j] \in Seq(Entry) /\ mMembers'[j] \in Seq(Entry)
    BY <1>1
  <1>4. Fresh'
    <2> SUFFICES ASSUME NEW j \in Item, j > made'
                 PROVE  /\ mMembers'[j] = <<>> /\ mLength'[j] = 0 /\ j \notin torn'
                        /\ elements'[j] = <<>> /\ fields'[j] = [n \in Name |-> Invalid]
      BY DEF Fresh
    <2>1. /\ mMembers[j] = <<>> /\ mLength[j] = 0 /\ j \notin torn
          /\ elements[j] = <<>> /\ fields[j] = [n \in Name |-> Invalid]
      BY DEF IInv, Fresh
    <2>2. mMembers'[j] \in Seq(Entry) /\ Len(mMembers'[j]) = 0 BY <1>3, <2>1
    <2>3. mMembers'[j] = <<>> BY <2>2
    <2> QED BY <2>1, <2>3
  <1>5. ASSUME NEW j \in Item, j \notin torn' PROVE ObjectHolds(j)'
    <2> DEFINE s == mMembers[j]
               r == mMembers'[j]
    <2>1. NamedOnce(s) /\ \A n \in Name : Look(s, n) = fields[j][n]
      BY <1>5 DEF IInv, ObjectHolds
    <2>2. s \in Seq(Entry) /\ r \in Seq(Entry) BY <1>3
    <2>3. Len(r) = Len(s)
          /\ \A k \in 1..Len(s) : r[k].name = s[k].name /\ ValueOf(r[k]) = ValueOf(s[k])
      OBVIOUS
    <2> HIDE DEF r, s
    <2>4. NamedOnce(r) /\ \A n \in Name : Look(r, n) = Look(s, n)
      BY <2>1, <2>2, <2>3, SameLook
    <2> QED BY <2>1, <2>4 DEF ObjectHolds, r
  <1>6. ASSUME NEW j \in Item PROVE ArrayHolds(j)'
    <2>1. ArrayHolds(j) BY DEF IInv
    <2>2. Nameless(mMembers[j]) => Nameless(mMembers[j])' BY DEF Nameless
    <2> QED BY <2>1, <2>2 DEF ArrayHolds
  <1>7. ASSUME NEW j \in Item PROVE TextsCurrent(mMembers[j])' BY DEF TextsCurrent
  <1> QED BY <1>2, <1>4, <1>5, <1>6, <1>7 DEF IInv

LEMMA AsStringStep ==
  ASSUME IInv, NEW i \in Item, NEW n \in Name, asString(i, n)
  PROVE  IInv'
PROOF
  <1> DEFINE s == mMembers[i]
             f == member(i, n)
             e == Escaped(i, s[f])
  <1>1. /\ i \notin torn /\ f # 0
        /\ mMembers' = [mMembers EXCEPT ![i] = [s EXCEPT ![f] = e]]
        /\ UNCHANGED <<alive, made, itsType, mLength, torn, fields, elements>>
    BY DEF asString, MayWalk, history
  <1>2. NamedOnce(s) /\ TextsCurrent(s) /\ mMembers \in [Item -> Seq(Entry)]
    BY <1>1 DEF IInv, Shapes, ObjectHolds
  <1>3. s \in Seq(Entry)
    <2> HIDE DEF Entry
    <2> QED BY <1>2
  <1>4. f \in 1..Len(s)
    <2>1. f = Find(s, n) BY DEF Find, member
    <2> QED BY <1>1, <1>2, <1>3, <2>1, FindIs
  <1> HIDE DEF Entry, f
  <1>5. s[f] \in Entry /\ s[f].escaped \in {<<>>, Escape(s[f])}
    BY <1>2, <1>3, <1>4 DEF TextsCurrent
  <1>6. /\ e \in Entry /\ e.name = s[f].name /\ ValueOf(e) = ValueOf(s[f])
        /\ e.escaped \in {<<>>, Escape(e)}
    BY <1>5, EscapedIs
  <1> HIDE DEF e
  <1>7. [s EXCEPT ![f] = e] \in Seq(Entry) /\ Len([s EXCEPT ![f] = e]) = Len(s)
        /\ \A k \in 1..Len(s) : [s EXCEPT ![f] = e][k] = IF k = f THEN e ELSE s[k]
    BY <1>3, <1>4, <1>6
  <1>8. mMembers' \in [Item -> Seq(Entry)] BY <1>1, <1>2, <1>7
  <1>9. ASSUME NEW j \in Item
        PROVE  /\ Len(mMembers'[j]) = Len(mMembers[j])
               /\ \A k \in 1..Len(mMembers[j]) :
                    /\ mMembers'[j][k].name = mMembers[j][k].name
                    /\ ValueOf(mMembers'[j][k]) = ValueOf(mMembers[j][k])
                    /\ mMembers'[j][k].escaped \in {<<>>, Escape(mMembers'[j][k])}
    <2>1. CASE j = i
      <3>1. mMembers'[j] = [s EXCEPT ![f] = e] BY <1>1, <1>2, <2>1
      <3> QED BY <1>2, <1>6, <1>7, <2>1, <3>1 DEF TextsCurrent
    <2>2. CASE j # i
      <3>1. mMembers'[j] = mMembers[j] BY <1>1, <1>2, <2>2
      <3>2. TextsCurrent(mMembers[j]) BY DEF IInv
      <3> QED BY <3>1, <3>2 DEF TextsCurrent
    <2> QED BY <2>1, <2>2
  <1> QED BY <1>1, <1>8, <1>9, TextsFramed

LEMMA SendStep ==
  ASSUME IInv, NEW i \in Item, NEW depth \in 0..SendDepth, send(i, depth)
  PROVE  IInv'
PROOF
  <1> DEFINE shown == Shown[depth][i]
             all(j) == [k \in DOMAIN mMembers[j] |-> Escaped(j, mMembers[j][k])]
  <1>1. /\ mMembers' = [j \in Item |-> IF j \in shown THEN all(j) ELSE mMembers[j]]
        /\ UNCHANGED <<alive, made, itsType, mLength, torn, fields, elements>>
    BY DEF send, history
  <1> HIDE DEF shown
  <1>2. ASSUME NEW j \in Item
        PROVE  /\ mMembers'[j] \in Seq(Entry) /\ Len(mMembers'[j]) = Len(mMembers[j])
               /\ \A k \in 1..Len(mMembers[j]) :
                    /\ mMembers'[j][k].name = mMembers[j][k].name
                    /\ ValueOf(mMembers'[j][k]) = ValueOf(mMembers[j][k])
                    /\ mMembers'[j][k].escaped \in {<<>>, Escape(mMembers'[j][k])}
    <2>1. TextsCurrent(mMembers[j]) /\ mMembers \in [Item -> Seq(Entry)]
      BY DEF IInv, Shapes
    <2>2. mMembers[j] \in Seq(Entry)
      <3> HIDE DEF Entry
      <3> QED BY <2>1
    <2>3. DOMAIN mMembers[j] = 1..Len(mMembers[j]) /\ Len(mMembers[j]) \in Nat BY <2>2
    <2>4. ASSUME NEW k \in 1..Len(mMembers[j])
          PROVE  LET e == Escaped(j, mMembers[j][k])
                 IN  /\ e \in Entry /\ e.name = mMembers[j][k].name
                     /\ ValueOf(e) = ValueOf(mMembers[j][k])
                     /\ e.escaped \in {<<>>, Escape(e)}
      <3>1. mMembers[j][k] \in Entry
        <4> HIDE DEF Entry
        <4> QED BY <2>2
      <3>2. mMembers[j][k].escaped \in {<<>>, Escape(mMembers[j][k])}
        BY <2>1 DEF TextsCurrent
      <3> QED BY <3>1, <3>2, EscapedIs
    <2> HIDE DEF Entry
    <2>5. CASE j \in shown
      <3>1. mMembers'[j] = all(j) BY <1>1, <2>5
      <3>2. all(j) \in Seq(Entry) /\ Len(all(j)) = Len(mMembers[j]) BY <2>3, <2>4
      <3>3. \A k \in 1..Len(mMembers[j]) : all(j)[k] = Escaped(j, mMembers[j][k]) BY <2>3
      <3> HIDE DEF all
      <3> QED BY <2>4, <3>1, <3>2, <3>3
    <2>6. CASE j \notin shown
      <3>1. mMembers'[j] = mMembers[j] BY <1>1, <2>6
      <3> QED BY <2>1, <2>2, <3>1 DEF TextsCurrent
    <2> QED BY <2>5, <2>6
  <1>3. mMembers' \in [Item -> Seq(Entry)]
    <2> HIDE DEF Entry, all
    <2> QED BY <1>1, <1>2
  <1> QED BY <1>1, <1>2, <1>3, TextsFramed

-----------------------------------------------------------------------------
(* The specification *)

\* Steps that write no member: of observers and roots.
LEMMA OtherStep ==
  ASSUME IInv, Grown, UNCHANGED <<mMembers, mLength, torn, fields, elements>>
  PROVE  IInv'
PROOF
  <1> DEFINE X == {}
  <1>1. X \in SUBSET (1..made) OBVIOUS
  <1>2. /\ mMembers' \in [Item -> Seq(Entry)] /\ mLength' \in [Item -> Nat]
        /\ fields' \in [Item -> [Name -> Reading \cup {Invalid}]]
        /\ elements' \in [Item -> Seq(Reading)]
    <2> HIDE DEF Entry, Reading
    <2> QED BY DEF IInv, Shapes
  <1>3. \A j \in Item \ X :
           /\ mMembers'[j] = mMembers[j] /\ mLength'[j] = mLength[j]
           /\ fields'[j] = fields[j] /\ elements'[j] = elements[j]
           /\ j \in torn' <=> j \in torn
    OBVIOUS
  <1>4. \A j \in X : /\ j \notin torn' => ObjectHolds(j)'
                     /\ ArrayHolds(j)' /\ TextsCurrent(mMembers[j])'
    OBVIOUS
  <1> HIDE DEF X, Reading, Entry
  <1> QED BY <1>1, <1>2, <1>3, <1>4, Framed

LEMMA InitHolds ==
  Init => IInv
PROOF
  <1> SUFFICES ASSUME Init PROVE IInv OBVIOUS
  <1>1. Shapes
    <2>1. <<>> \in Seq(Entry) /\ <<>> \in Seq(Reading) OBVIOUS
    <2>2. "NULL" \in Type BY DEF Type
    <2>3. 0 \in 0..MaxItems /\ 0 \in Nat BY JsonDbAssumption DEF JsonDbAssumption
    <2> HIDE DEF Entry, Reading, Type
    <2>4. fields \in [Item -> [Name -> Reading \cup {Invalid}]]
      <3> HIDE DEF Invalid
      <3> QED BY DEF Init
    <2> QED BY <2>1, <2>2, <2>3, <2>4 DEF Init, Shapes
  <1>2. Fresh BY DEF Init, Fresh
  <1>3. ASSUME NEW i \in Item PROVE ObjectHolds(i) /\ ArrayHolds(i) /\ TextsCurrent(mMembers[i])
    <2>1. /\ mMembers[i] = <<>> /\ elements[i] = <<>> /\ mLength[i] = 0
          /\ fields[i] = [n \in Name |-> Invalid]
      BY DEF Init
    <2>2. Nameless(mMembers[i]) /\ TextsCurrent(mMembers[i]) BY <2>1 DEF Nameless, TextsCurrent
    <2>3. <<>> \in Seq({}) OBVIOUS
    <2>4. NamedOnce(mMembers[i]) /\ \A n \in Name : Look(mMembers[i], n) = Invalid
      BY <2>1, <2>2, <2>3, NamelessLook
    <2>5. \A n \in Name : fields[i][n] = Invalid
      <3> HIDE DEF Invalid
      <3> QED BY <2>1
    <2> QED BY <2>1, <2>2, <2>4, <2>5 DEF ObjectHolds, ArrayHolds
  <1> QED BY <1>1, <1>2, <1>3 DEF IInv

LEMMA StepKeeps ==
  ASSUME IInv, Next
  PROVE  IInv'
PROOF
  <1> USE DEF tree, telling, history
  <1>1. ASSUME NEW i \in Item, NEW o \in Observer, addObserver(i, o) \/ removeObserver(i, o)
        PROVE  IInv'
    <2>1. UNCHANGED <<tree, history>> BY <1>1 DEF addObserver, removeObserver
    <2> QED BY <2>1, NothingMade, OtherStep
  <1>2. CASE Return
    <2>1. UNCHANGED <<tree, history>> BY <1>2 DEF Return
    <2> QED BY <2>1, NothingMade, OtherStep
  <1>3. CASE Destroy
    <2>1. /\ UNCHANGED <<mMembers, mLength, torn, fields, elements, made, itsType>>
          /\ alive' \subseteq alive
      BY <1>3 DEF Destroy, Without
    <2> QED BY <2>1, NothingMade, OtherStep
  <1>4. ASSUME NEW name \in RootName, createRoot(name) PROVE IInv'
    <2>1. /\ UNCHANGED <<mMembers, mLength, torn, fields, elements>>
          /\ Created(0, "OBJECT") /\ alive' \subseteq alive \cup {made'}
      BY <1>4 DEF createRoot, Without
    <2>2. "OBJECT" \in Container BY DEF Container
    <2>3. Grown BY <2>1, <2>2, OneMade
    <2> QED BY <2>1, <2>3, OtherStep
  <1>5. ASSUME NEW name \in RootName, deleteRoot(name) PROVE IInv'
    <2>1. /\ UNCHANGED <<mMembers, mLength, torn, fields, elements, made, itsType>>
          /\ alive' \subseteq alive
      BY <1>5 DEF deleteRoot, Without
    <2> QED BY <2>1, NothingMade, OtherStep
  <1>6. ASSUME NEW i \in Item, NEW name \in Name, NEW s \in Scalar, setScalar(i, name, s)
        PROVE  IInv'
    <2>1. Put(i, name, s, {}) /\ UNCHANGED <<made, itsType>> BY <1>6 DEF setScalar
    <2>2. alive' \subseteq alive BY <2>1 DEF Put, Without
    <2> QED BY <2>1, <2>2, NothingMade, ScalarIsReading, PutStep
  <1>7. ASSUME NEW i \in Item, NEW name \in Name, NEW type \in Container,
               setContainer(i, name, type)
        PROVE  IInv'
    <2> DEFINE v == [type |-> type, value |-> made']
    <2>1. Created(i, type) /\ Put(i, name, v, {made'}) BY <1>7 DEF setContainer
    <2>2. alive' \subseteq alive \cup {made'} BY <2>1 DEF Put, Without
    <2>3. Grown /\ made' \in Item BY <2>1, <2>2, OneMade
    <2>4. v \in Reading BY <2>3, ItemIsReading
    <2> QED BY <2>1, <2>3, <2>4, PutStep
  <1>8. ASSUME NEW i \in Item, NEW s \in Scalar, appendScalar(i, s)
        PROVE  IInv'
    <2>1. Attach(i, s, {}) /\ UNCHANGED <<made, itsType>> BY <1>8 DEF appendScalar
    <2>2. alive' \subseteq alive BY <2>1 DEF Attach, Without
    <2> QED BY <2>1, <2>2, NothingMade, ScalarIsReading, AttachStep
  <1>9. ASSUME NEW i \in Item, NEW type \in Container, appendContainer(i, type)
        PROVE  IInv'
    <2> DEFINE v == [type |-> type, value |-> made']
    <2>1. Created(i, type) /\ Attach(i, v, {made'}) BY <1>9 DEF appendContainer
    <2>2. alive' \subseteq alive \cup {made'} BY <2>1 DEF Attach, Without
    <2>3. Grown /\ made' \in Item BY <2>1, <2>2, OneMade
    <2>4. v \in Reading BY <2>3, ItemIsReading
    <2> QED BY <2>1, <2>3, <2>4, AttachStep
  <1>10. ASSUME NEW i \in Item, NEW index \in 0..MaxChanges, remove(i, index) PROVE IInv'
    <2>1. index \in Nat OBVIOUS
    <2> QED BY <1>10, <2>1, RemoveStep
  <1> QED
    BY <1>1, <1>2, <1>3, <1>4, <1>5, <1>6, <1>7, <1>8, <1>9, <1>10,
       UnsetStep, AsStringStep, SendStep DEF Next

LEMMA Inductive == Spec => []IInv
PROOF
  <1>1. IInv /\ [Next]_vars => IInv'
    <2> SUFFICES ASSUME IInv, [Next]_vars PROVE IInv' OBVIOUS
    <2>1. CASE Next BY <2>1, StepKeeps
    <2>2. CASE UNCHANGED vars
      <3>1. /\ UNCHANGED <<mMembers, mLength, torn, fields, elements, made, itsType>>
            /\ alive' \subseteq alive
        BY <2>2 DEF vars, tree, history
      <3> QED BY <3>1, NothingMade, OtherStep
    <2> QED BY <2>1, <2>2
  <1> QED BY InitHolds, <1>1, PTL DEF Spec

\* Whatever observers do within notifications, reading an item gives what was
\* set or appended last (jsonobject.cpp:37-60, jsonarray.cpp:35, 142); an
\* object that keeps a deleted member apart.
THEOREM ReadsAlwaysLastWritten == Spec => []ReadsLastWritten
PROOF
  <1>1. IInv => ReadsLastWritten
    <2> SUFFICES ASSUME IInv, NEW i \in alive \ torn
                 PROVE  /\ \A n \in Name : read(i, n) = fields[i][n]
                        /\ mLength[i] = Len(elements[i])
                        /\ \A k \in DOMAIN elements[i] : readAt(i, k - 1) = elements[i][k]
      BY DEF ReadsLastWritten
    <2>1. i \in Item BY JsonDbAssumption DEF JsonDbAssumption, IInv, Shapes, Item
    <2>2. ObjectHolds(i) /\ ArrayHolds(i) /\ elements[i] \in Seq(Reading)
      BY <2>1 DEF IInv, Shapes
    <2>3. ASSUME NEW n \in Name PROVE read(i, n) = fields[i][n]
      <3>1. member(i, n) = Find(mMembers[i], n) BY DEF member, Find
      <3>2. read(i, n) = Look(mMembers[i], n) BY <3>1 DEF read, Look
      <3> QED BY <2>2, <3>2 DEF ObjectHolds
    <2>4. ASSUME NEW k \in DOMAIN elements[i] PROVE readAt(i, k - 1) = elements[i][k]
      <3>1. k \in 1..Len(elements[i]) /\ Len(elements[i]) \in Nat BY <2>2
      <3>2. itsType[i] = "ARRAY" BY <2>2, <3>1 DEF ArrayHolds
      <3>3. k - 1 < mLength[i] /\ k - 1 + 1 = k BY <2>2, <3>1 DEF ArrayHolds
      <3>4. readAt(i, k - 1) = ValueOf(mMembers[i][k]) BY <2>2, <3>1, <3>3 DEF readAt, ArrayHolds
      <3> QED BY <2>2, <3>1, <3>2, <3>4 DEF ArrayHolds
    <2> QED BY <2>2, <2>3, <2>4 DEF ArrayHolds
  <1> QED BY Inductive, <1>1, PTL

\* No cached text is out of date: send() and asString() write what reading
\* gives (jsonobject.cpp:70, 225; jsonarray.cpp:167).
THEOREM TextsAlwaysCurrent == Spec => []EscapedCurrent
PROOF
  <1>1. IInv => EscapedCurrent
    <2> SUFFICES ASSUME IInv, NEW i \in alive, NEW k \in DOMAIN mMembers[i]
                 PROVE  mMembers[i][k].escaped \in {<<>>, Escape(mMembers[i][k])}
      BY DEF EscapedCurrent
    <2>1. i \in Item BY JsonDbAssumption DEF JsonDbAssumption, IInv, Shapes, Item
    <2>2. mMembers[i] \in Seq(Entry) /\ TextsCurrent(mMembers[i])
      <3> HIDE DEF Entry
      <3> QED BY <2>1 DEF IInv, Shapes
    <2>3. k \in 1..Len(mMembers[i]) BY <2>2
    <2> QED BY <2>2, <2>3 DEF TextsCurrent
  <1> QED BY Inductive, <1>1, PTL

-----------------------------------------------------------------------------
(* What is reached from an item *)

LEMMA Least ==
  ASSUME NEW T \in SUBSET Nat, T # {}
  PROVE  \E x \in T : \A y \in T : x <= y
PROOF
  <1> DEFINE R == OpToRel(<, Nat)
  <1>1. IsWellFoundedOn(R, Nat) BY NatLessThanWellFounded
  <1>2. \A x, y \in Nat : <<y, x>> \in R <=> y < x BY DEF OpToRel
  <1> HIDE DEF R
  <1>3. \E x \in T : \A y \in T : ~(<<y, x>> \in R) BY <1>1, WFMin
  <1>4. PICK x \in T : \A y \in T : ~(<<y, x>> \in R) BY <1>3
  <1>5. \A y \in T : x <= y
    <2> TAKE y \in T
    <2>1. x \in Nat /\ y \in Nat OBVIOUS
    <2>2. ~(y < x) BY <1>2, <1>4, <2>1
    <2> QED BY <2>1, <2>2
  <1> QED BY <1>5

LEMMA Greatest ==
  ASSUME NEW n \in Nat, NEW T \in SUBSET (0..n), T # {}
  PROVE  \E x \in T : \A y \in T : y <= x
PROOF
  <1> DEFINE U == {m \in Nat : n - m \in T}
  <1>1. U \in SUBSET Nat OBVIOUS
  <1>2. PICK x \in T : TRUE OBVIOUS
  <1>3. n - x \in U BY <1>2
  <1>4. PICK m \in U : \A l \in U : m <= l
    <2> HIDE DEF U
    <2> QED BY <1>1, <1>3, Least
  <1>5. n - m \in T /\ m \in Nat BY <1>4
  <1>6. ASSUME NEW y \in T PROVE y <= n - m
    <2>1. n - y \in U OBVIOUS
    <2>2. m <= n - y BY <1>4, <2>1
    <2> QED BY <1>5, <2>2
  <1> QED BY <1>5, <1>6

\* next[j] are the items one step from j; what all sets hold that hold i and
\* are closed under these steps.
Closed(next, X) == \A j \in X : next[j] \subseteq X

Reach(next, i) == {x \in Item : \A X \in SUBSET Item : i \in X /\ Closed(next, X) => x \in X}

LEMMA ReachWithin ==
  ASSUME NEW next, NEW i, NEW X \in SUBSET Item, i \in X, Closed(next, X)
  PROVE  Reach(next, i) \subseteq X
PROOF
  BY DEF Reach

LEMMA ReachHas ==
  ASSUME NEW next \in [Item -> SUBSET Item], NEW i \in Item
  PROVE  i \in Reach(next, i) /\ Closed(next, Reach(next, i))
PROOF
  <1>1. i \in Reach(next, i) BY DEF Reach
  <1>2. ASSUME NEW j \in Reach(next, i), NEW x \in next[j] PROVE x \in Reach(next, i)
    <2>1. j \in Item BY DEF Reach
    <2>2. x \in Item BY <2>1
    <2>3. ASSUME NEW X \in SUBSET Item, i \in X, Closed(next, X) PROVE x \in X
      <3>1. j \in X BY <2>3 DEF Reach
      <3> QED BY <2>3, <3>1 DEF Closed
    <2> QED BY <2>2, <2>3 DEF Reach
  <1> QED BY <1>1, <1>2 DEF Closed

\* The equation that defines Subtree and Up.
LEMMA ReachIs ==
  ASSUME NEW next \in [Item -> SUBSET Item], NEW i \in Item
  PROVE  Reach(next, i) = {i} \cup UNION {Reach(next, c) : c \in next[i]}
PROOF
  <1> DEFINE X == {i} \cup UNION {Reach(next, c) : c \in next[i]}
  <1>1. i \in Reach(next, i) /\ Closed(next, Reach(next, i)) BY ReachHas
  <1>2. Reach(next, i) \in SUBSET Item BY DEF Reach
  <1>3. ASSUME NEW c \in next[i]
        PROVE  /\ c \in Reach(next, c) /\ Closed(next, Reach(next, c))
               /\ Reach(next, c) \subseteq Reach(next, i) /\ c \in Item
    <2>1. c \in Item OBVIOUS
    <2>2. c \in Reach(next, i) BY <1>1 DEF Closed
    <2> QED BY <1>1, <1>2, <2>1, <2>2, ReachHas, ReachWithin
  <1>4. X \subseteq Reach(next, i) BY <1>1, <1>3
  <1>5. Closed(next, X)
    <2> SUFFICES ASSUME NEW j \in X PROVE next[j] \subseteq X BY DEF Closed
    <2>1. CASE j = i BY <1>3, <2>1
    <2>2. CASE j # i
      <3>1. PICK c \in next[i] : j \in Reach(next, c) BY <2>2
      <3>2. next[j] \subseteq Reach(next, c) BY <1>3, <3>1 DEF Closed
      <3> QED BY <3>2
    <2> QED BY <2>1, <2>2
  <1>6. X \in SUBSET Item BY <1>2, <1>4
  <1>7. i \in X OBVIOUS
  <1> HIDE DEF X
  <1>8. Reach(next, i) \subseteq X BY <1>5, <1>6, <1>7, ReachWithin
  <1> QED BY <1>4, <1>8 DEF X

\* But for i, each is a step from another.
LEMMA ReachFrom ==
  ASSUME NEW next \in [Item -> SUBSET Item], NEW i \in Item, NEW x \in Reach(next, i), x # i
  PROVE  \E y \in Reach(next, i) : x \in next[y]
PROOF
  <1> DEFINE X == Reach(next, i) \ {x}
  <1>1. i \in Reach(next, i) /\ Closed(next, Reach(next, i)) BY ReachHas
  <1>2. SUFFICES ASSUME \A y \in Reach(next, i) : x \notin next[y] PROVE FALSE OBVIOUS
  <1>3. X \in SUBSET Item /\ i \in X BY <1>1 DEF Reach
  <1>4. Closed(next, X) BY <1>1, <1>2 DEF Closed
  <1> QED BY <1>3, <1>4, ReachWithin

-----------------------------------------------------------------------------
(* The recursive functions of the model *)

Kids == [j \in Item |-> Children(j)]

\* Children have higher numbers, a parent a lower one.
Ordered ==
  /\ \A j \in Item : Children(j) \subseteq (j + 1)..MaxItems
  /\ mParent \in [Item -> 0..MaxItems] /\ \A j \in Item : mParent[j] < j

LEMMA KidsIs ==
  ASSUME Ordered
  PROVE  /\ Kids \in [Item -> SUBSET Item] /\ \A j \in Item : Kids[j] = Children(j)
PROOF
  <1>1. ASSUME NEW j \in Item PROVE Children(j) \subseteq Item
    BY JsonDbAssumption DEF JsonDbAssumption, Ordered, Item
  <1> QED BY <1>1 DEF Kids

LEMMA SubtreeDef ==
  ASSUME Ordered
  PROVE  \A i \in Item : Subtree[i] = {i} \cup UNION {Subtree[c] : c \in Children(i)}
PROOF
  <1> DEFINE f == [i \in Item |-> Reach(Kids, i)]
             F(g) == [i \in Item |-> {i} \cup UNION {g[c] : c \in Children(i)}]
  <1>1. Kids \in [Item -> SUBSET Item] /\ \A j \in Item : Kids[j] = Children(j) BY KidsIs
  <1>2. f = F(f)
    <2> SUFFICES ASSUME NEW i \in Item
                 PROVE  f[i] = {i} \cup UNION {f[c] : c \in Children(i)}
      OBVIOUS
    <2>1. Reach(Kids, i) = {i} \cup UNION {Reach(Kids, c) : c \in Children(i)} BY <1>1, ReachIs
    <2>2. Children(i) \subseteq Item BY <1>1
    <2>3. {f[c] : c \in Children(i)} = {Reach(Kids, c) : c \in Children(i)} BY <2>2
    <2> QED BY <2>1, <2>3
  <1>3. Subtree = CHOOSE g : g = F(g) BY DEF Subtree
  <1> HIDE DEF f
  <1>4. Subtree = F(Subtree)
    <2> HIDE DEF F
    <2> QED BY <1>2, <1>3
  <1> QED BY <1>4

LEMMA SubtreeIs ==
  ASSUME Ordered
  PROVE  \A i \in Item : Subtree[i] = Reach(Kids, i)
PROOF
  <1> DEFINE bad == {i \in Item : Subtree[i] # Reach(Kids, i)}
  <1>1. Kids \in [Item -> SUBSET Item] /\ \A j \in Item : Kids[j] = Children(j) BY KidsIs
  <1>2. SUFFICES ASSUME bad # {} PROVE FALSE OBVIOUS
  <1>3. MaxItems \in Nat BY JsonDbAssumption DEF JsonDbAssumption
  <1>4. bad \in SUBSET (0..MaxItems) BY <1>3 DEF Item
  <1>5. PICK i \in bad : \A y \in bad : y <= i BY <1>2, <1>3, <1>4, Greatest
  <1>6. ASSUME NEW c \in Children(i) PROVE Subtree[c] = Reach(Kids, c)
    <2>1. c \in (i + 1)..MaxItems /\ c \in Item BY <1>1 DEF Ordered
    <2>2. ~(c <= i) BY <1>3, <1>5, <2>1 DEF Item
    <2> QED BY <1>5, <2>1, <2>2
  <1>7. i \in Item OBVIOUS
  <1>8. Subtree[i] = {i} \cup UNION {Subtree[c] : c \in Children(i)} BY <1>7, SubtreeDef
  <1>9. Reach(Kids, i) = {i} \cup UNION {Reach(Kids, c) : c \in Children(i)}
    BY <1>1, <1>7, ReachIs
  <1>10. {Subtree[c] : c \in Children(i)} = {Reach(Kids, c) : c \in Children(i)} BY <1>6
  <1> QED BY <1>5, <1>8, <1>9, <1>10

Parents == [j \in Item |-> {mParent[j]} \ {0}]

LEMMA ParentsIs ==
  ASSUME Ordered
  PROVE  /\ Parents \in [Item -> SUBSET Item]
         /\ \A j \in Item : Parents[j] = IF mParent[j] = 0 THEN {} ELSE {mParent[j]}
PROOF
  BY JsonDbAssumption DEF JsonDbAssumption, Ordered, Parents, Item

\* An item and those above it.
Above(i) == IF i = 0 THEN {} ELSE Reach(Parents, i)

LEMMA UpDef ==
  ASSUME Ordered
  PROVE  \A i \in 0..MaxItems : Up[i] = IF i = 0 THEN {} ELSE {i} \cup Up[mParent[i]]
PROOF
  <1> DEFINE f == [i \in 0..MaxItems |-> Above(i)]
             F(g) == [i \in 0..MaxItems |-> IF i = 0 THEN {} ELSE {i} \cup g[mParent[i]]]
  <1>1. /\ Parents \in [Item -> SUBSET Item]
        /\ \A j \in Item : Parents[j] = IF mParent[j] = 0 THEN {} ELSE {mParent[j]}
    BY ParentsIs
  <1>2. f = F(f)
    <2> SUFFICES ASSUME NEW i \in 0..MaxItems
                 PROVE  f[i] = IF i = 0 THEN {} ELSE {i} \cup f[mParent[i]]
      OBVIOUS
    <2>1. CASE i = 0 BY <2>1 DEF Above
    <2>2. CASE i # 0
      <3>1. i \in Item BY <2>2, JsonDbAssumption DEF JsonDbAssumption, Item
      <3>2. mParent[i] \in 0..MaxItems BY <3>1 DEF Ordered
      <3>3. Reach(Parents, i) = {i} \cup UNION {Reach(Parents, c) : c \in Parents[i]}
        BY <1>1, <3>1, ReachIs
      <3>4. UNION {Reach(Parents, c) : c \in Parents[i]} = Above(mParent[i])
        <4>1. CASE mParent[i] = 0 BY <1>1, <3>1, <4>1 DEF Above
        <4>2. CASE mParent[i] # 0
          <5>1. Parents[i] = {mParent[i]} BY <1>1, <3>1, <4>2
          <5> QED BY <4>2, <5>1 DEF Above
        <4> QED BY <4>1, <4>2
      <3>5. f[i] = Reach(Parents, i) /\ f[mParent[i]] = Above(mParent[i])
        BY <2>2, <3>2 DEF Above
      <3> QED BY <2>2, <3>3, <3>4, <3>5
    <2> QED BY <2>1, <2>2
  <1>3. Up = CHOOSE g : g = F(g) BY DEF Up
  <1> HIDE DEF f
  <1>4. Up = F(Up)
    <2> HIDE DEF F
    <2> QED BY <1>2, <1>3
  <1> QED BY <1>4

LEMMA UpIs ==
  ASSUME Ordered
  PROVE  \A i \in 0..MaxItems : Up[i] = Above(i)
PROOF
  <1> DEFINE bad == {i \in 0..MaxItems : Up[i] # Above(i)}
  <1>1. /\ Parents \in [Item -> SUBSET Item]
        /\ \A j \in Item : Parents[j] = IF mParent[j] = 0 THEN {} ELSE {mParent[j]}
    BY ParentsIs
  <1>2. SUFFICES ASSUME bad # {} PROVE FALSE OBVIOUS
  <1>3. MaxItems \in Nat BY JsonDbAssumption DEF JsonDbAssumption
  <1>4. bad \in SUBSET Nat BY <1>3
  <1>5. PICK i \in bad : \A y \in bad : i <= y BY <1>2, <1>4, Least
  <1>6. Up[i] = IF i = 0 THEN {} ELSE {i} \cup Up[mParent[i]] BY UpDef
  <1>7. i # 0 BY <1>5, <1>6 DEF Above
  <1>8. i \in Item /\ i \in Nat BY <1>3, <1>7 DEF Item
  <1>9. mParent[i] \in 0..MaxItems /\ mParent[i] < i BY <1>8 DEF Ordered
  <1>10. Up[mParent[i]] = Above(mParent[i])
    <2>1. ~(i <= mParent[i]) BY <1>3, <1>8, <1>9
    <2> QED BY <1>5, <1>9, <2>1
  <1>11. Reach(Parents, i) = {i} \cup UNION {Reach(Parents, c) : c \in Parents[i]}
    BY <1>1, <1>8, ReachIs
  <1>12. UNION {Reach(Parents, c) : c \in Parents[i]} = Above(mParent[i])
    <2>1. CASE mParent[i] = 0 BY <1>1, <1>8, <2>1 DEF Above
    <2>2. CASE mParent[i] # 0
      <3>1. Parents[i] = {mParent[i]} BY <1>1, <1>8, <2>2
      <3> QED BY <2>2, <3>1 DEF Above
    <2> QED BY <2>1, <2>2
  <1>13. Up[i] = Above(i) BY <1>6, <1>7, <1>10, <1>11, <1>12 DEF Above
  <1> QED BY <1>5, <1>13

LEMMA UpWithin ==
  ASSUME Ordered, NEW i \in Item
  PROVE  /\ Up[i] \in SUBSET Item /\ Up[i] \subseteq 1..i
         /\ i \in Up[i] /\ Closed(Parents, Up[i])
PROOF
  <1>1. /\ Parents \in [Item -> SUBSET Item]
        /\ \A j \in Item : Parents[j] = IF mParent[j] = 0 THEN {} ELSE {mParent[j]}
    BY ParentsIs
  <1>2. MaxItems \in Nat BY JsonDbAssumption DEF JsonDbAssumption
  <1>3. Up[i] = Reach(Parents, i) BY <1>2, UpIs DEF Above, Item
  <1>4. i \in Up[i] /\ Closed(Parents, Up[i]) BY <1>1, <1>3, ReachHas
  <1>5. 1..i \in SUBSET Item /\ i \in 1..i BY <1>2 DEF Item
  <1>6. Closed(Parents, 1..i)
    <2> SUFFICES ASSUME NEW j \in 1..i PROVE Parents[j] \subseteq 1..i BY DEF Closed
    <2>1. j \in Item BY <1>5
    <2>2. mParent[j] \in 0..MaxItems /\ mParent[j] < j BY <2>1 DEF Ordered
    <2> QED BY <1>1, <1>2, <2>1, <2>2 DEF Item
  <1>7. Up[i] \subseteq 1..i BY <1>3, <1>5, <1>6, ReachWithin
  <1> QED BY <1>4, <1>5, <1>7

\* The way up: whoever comes after another on it is on the way from that
\* one's parent.
LEMMA OnTheWay ==
  ASSUME Ordered, NEW i \in Item, NEW a \in Up[i], NEW j \in Up[i], j < a
  PROVE  j \in Up[mParent[a]]
PROOF
  <1> DEFINE X == {x \in Up[i] : a \in Up[x]} \cup Up[mParent[a]]
  <1>1. /\ Parents \in [Item -> SUBSET Item]
        /\ \A x \in Item : Parents[x] = IF mParent[x] = 0 THEN {} ELSE {mParent[x]}
    BY ParentsIs
  <1>2. MaxItems \in Nat BY JsonDbAssumption DEF JsonDbAssumption
  <1>3. Up[i] = Reach(Parents, i) BY <1>2, UpIs DEF Above, Item
  <1>4. /\ Up[i] \in SUBSET Item /\ i \in Up[i] /\ Closed(Parents, Up[i]) BY UpWithin
  <1>5. a \in Item /\ j \in Item BY <1>4
  <1>6. mParent[a] \in 0..MaxItems /\ mParent[a] < a BY <1>5 DEF Ordered
  <1>7. Up[mParent[a]] \in SUBSET Item /\ Closed(Parents, Up[mParent[a]])
    <2>1. CASE mParent[a] = 0
      <3>1. Up[mParent[a]] = {} BY <1>6, <2>1, UpDef
      <3> QED BY <3>1 DEF Closed
    <2>2. CASE mParent[a] # 0
      <3>1. mParent[a] \in Item BY <1>2, <1>6, <2>2 DEF Item
      <3> QED BY <3>1, UpWithin
    <2> QED BY <2>1, <2>2
  <1>8. ASSUME NEW x \in Item, mParent[x] # 0
        PROVE  /\ mParent[x] \in Item /\ Parents[x] = {mParent[x]}
               /\ Up[x] = {x} \cup Up[mParent[x]] /\ mParent[x] \in Up[mParent[x]]
    <2>1. mParent[x] \in Item BY <1>2, <1>8 DEF Ordered, Item
    <2>2. x \in 0..MaxItems /\ x # 0 BY <1>2 DEF Item
    <2>3. Up[x] = {x} \cup Up[mParent[x]] BY <2>2, UpDef
    <2> QED BY <1>1, <1>8, <2>1, <2>3, UpWithin
  <1>9. Closed(Parents, X)
    <2> SUFFICES ASSUME NEW x \in X, NEW p \in Parents[x] PROVE p \in X BY DEF Closed
    <2>1. CASE x \in Up[mParent[a]] BY <1>7, <2>1 DEF Closed
    <2>2. CASE x \in Up[i] /\ a \in Up[x]
      <3>1. x \in Item BY <1>4, <2>2
      <3>2. mParent[x] # 0 /\ p = mParent[x] BY <1>1, <3>1
      <3>3. p \in Up[i] BY <1>4, <2>2 DEF Closed
      <3>4. Up[x] = {x} \cup Up[p] /\ p \in Up[p] BY <1>8, <3>1, <3>2
      <3>5. CASE x = a BY <3>2, <3>4, <3>5
      <3>6. CASE x # a BY <2>2, <3>3, <3>4, <3>6
      <3> QED BY <3>5, <3>6
    <2> QED BY <2>1, <2>2
  <1>10. X \in SUBSET Item /\ i \in X BY <1>4, <1>7
  <1> HIDE DEF X
  <1>11. j \in X BY <1>3, <1>9, <1>10, ReachWithin
  <1>12. a \notin Up[j]
    <2>1. Up[j] \subseteq 1..j BY <1>5, UpWithin
    <2> QED BY <1>5, <2>1 DEF Item
  <1> QED BY <1>11, <1>12 DEF X

\* Deleted with some items, whose numbers are above b: all below them.
Dead(top) == UNION {Subtree[t] : t \in top}

LEMMA DeadIs ==
  ASSUME Ordered, NEW top \in SUBSET Item
  PROVE  /\ Dead(top) \in SUBSET Item /\ top \subseteq Dead(top)
         /\ \A x \in Dead(top) : Children(x) \subseteq Dead(top)
         /\ \A x \in Dead(top) : x \in top \/ \E y \in Dead(top) : x \in Children(y)
         /\ \A x \in Dead(top) : \E t \in top : t <= x
PROOF
  <1>1. Kids \in [Item -> SUBSET Item] /\ \A j \in Item : Kids[j] = Children(j) BY KidsIs
  <1>2. MaxItems \in Nat BY JsonDbAssumption DEF JsonDbAssumption
  <1>3. ASSUME NEW t \in top
        PROVE  /\ Subtree[t] = Reach(Kids, t) /\ Subtree[t] \in SUBSET Item
               /\ t \in Subtree[t] /\ Closed(Kids, Subtree[t]) /\ Subtree[t] \subseteq t..MaxItems
    <2>1. t \in Item /\ Subtree[t] = Reach(Kids, t) BY SubtreeIs
    <2>2. t \in Subtree[t] /\ Closed(Kids, Subtree[t]) BY <1>1, <2>1, ReachHas
    <2>3. Subtree[t] \in SUBSET Item BY <2>1 DEF Reach
    <2>4. t..MaxItems \in SUBSET Item /\ t \in t..MaxItems BY <1>2, <2>1 DEF Item
    <2>5. Closed(Kids, t..MaxItems)
      <3> SUFFICES ASSUME NEW j \in t..MaxItems PROVE Kids[j] \subseteq t..MaxItems
        BY DEF Closed
      <3>1. j \in Item BY <2>4
      <3>2. Kids[j] \subseteq (j + 1)..MaxItems BY <1>1, <3>1 DEF Ordered
      <3> QED BY <1>2, <2>1, <3>1, <3>2 DEF Item
    <2>6. Subtree[t] \subseteq t..MaxItems
      <3> DEFINE X == t..MaxItems
      <3>1. X \in SUBSET Item /\ t \in X /\ Closed(Kids, X) BY <2>4, <2>5
      <3> HIDE DEF X
      <3>2. Reach(Kids, t) \subseteq X BY ONLY <3>1, ReachWithin
      <3> QED BY <2>1, <3>2 DEF X
    <2> QED BY <2>1, <2>2, <2>3, <2>6
  <1>4. Dead(top) \in SUBSET Item /\ top \subseteq Dead(top) BY <1>3 DEF Dead
  <1>5. ASSUME NEW x \in Dead(top)
        PROVE  /\ Children(x) \subseteq Dead(top)
               /\ x \in top \/ \E y \in Dead(top) : x \in Children(y)
               /\ \E t \in top : t <= x
    <2>1. PICK t \in top : x \in Subtree[t] BY DEF Dead
    <2>2. x \in Item BY <1>4
    <2>3. Subtree[t] \subseteq Dead(top) BY DEF Dead
    <2>4. Kids[x] \subseteq Subtree[t] BY <1>3, <2>1 DEF Closed
    <2>5. t <= x
      <3>1. x \in t..MaxItems BY <1>3, <2>1
      <3> QED BY <3>1
    <2>6. x = t \/ \E y \in Subtree[t] : x \in Kids[y]
      <3>1. x \in Reach(Kids, t) /\ t \in Item BY <1>3, <2>1
      <3>2. x # t => \E y \in Reach(Kids, t) : x \in Kids[y] BY <1>1, <3>1, ReachFrom
      <3> QED BY <1>3, <3>2
    <2>7. \A y \in Subtree[t] : Kids[y] = Children(y) BY <1>1, <1>3
    <2> QED BY <1>1, <2>2, <2>3, <2>4, <2>5, <2>6, <2>7
  <1> QED BY <1>4, <1>5

-----------------------------------------------------------------------------
(* The tree *)

\* The items that a list of members holds, with the types it holds them as.
Refs(s) == {w \in {ValueOf(s[k]) : k \in 1..Len(s)} : w.type \in Container}

\* No item has two members.
Once(s) == \A k, l \in 1..Len(s) : s[k].type \in Container /\ ValueOf(s[k]) = ValueOf(s[l]) => k = l

\* What an item holds is its child, of the type it is held as, and exists if
\* the item does.
Linked(j) ==
  /\ Len(mMembers[j]) <= changes /\ Once(mMembers[j])
  /\ \A w \in Refs(mMembers[j]) :
       /\ w.value \in (j + 1)..made /\ mParent[w.value] = j /\ w.type = itsType[w.value]
       /\ j \in alive => w.value \in alive

RootIs(v) == \E k \in 1..Len(mRoots) : mRoots[k].object = v

HeldBy(j, v) == \E w \in Refs(mMembers[j]) : w.value = v

\* An item is a root, or its parent exists and holds it.
Kept(v) ==
  /\ mParent[v] = 0 => RootIs(v)
  /\ mParent[v] # 0 => mParent[v] \in alive /\ HeldBy(mParent[v], v)

Parented ==
  /\ mParent \in [Item -> 0..MaxItems]
  /\ \A j \in Item : mParent[j] < j /\ (j > made => mParent[j] = 0)

Rooted ==
  /\ mRoots \in Seq([name : RootName, object : Item])
  /\ \A v \in Item : RootIs(v) => mParent[v] = 0 /\ v <= made

TreeInv ==
  /\ Parented /\ Rooted /\ changes \in 0..MaxChanges
  /\ \A j \in Item : Linked(j)
  /\ \A v \in alive : Kept(v)

LEMMA ChildrenAre ==
  ASSUME Shapes, NEW j \in Item
  PROVE  Children(j) = {w.value : w \in Refs(mMembers[j])}
PROOF
  <1> DEFINE s == mMembers[j]
             m == {x \in S!ToSet(s) : x.type \in Container}
  <1>1. s \in Seq(Entry)
    <2> HIDE DEF Entry
    <2> QED BY DEF Shapes
  <1>2. S!ToSet(s) = {s[k] : k \in 1..Len(s)} BY <1>1 DEF S!ToSet
  <1>3. Children(j) = {x.value : x \in m} BY DEF Children
  <1> HIDE DEF s
  <1>4. ASSUME NEW x \in m PROVE \E w \in Refs(s) : w.value = x.value
    <2>1. PICK k \in 1..Len(s) : x = s[k] BY <1>2
    <2>2. ValueOf(x) \in Refs(s) /\ ValueOf(x).value = x.value BY <2>1 DEF Refs, ValueOf
    <2> QED BY <2>2
  <1>5. ASSUME NEW w \in Refs(s) PROVE \E x \in m : w.value = x.value
    <2>1. PICK k \in 1..Len(s) : w = ValueOf(s[k]) /\ w.type \in Container BY DEF Refs
    <2>2. s[k] \in m /\ w.value = s[k].value BY <1>2, <2>1 DEF ValueOf
    <2> QED BY <2>2
  <1> HIDE DEF m
  <1> QED BY <1>3, <1>4, <1>5 DEF s

LEMMA TreeOrdered ==
  ASSUME IInv, TreeInv
  PROVE  /\ Ordered
         /\ \A j \in Item : Children(j) = {w.value : w \in Refs(mMembers[j])}
PROOF
  <1>1. made \in 0..MaxItems /\ Shapes BY DEF IInv, Shapes
  <1>2. ASSUME NEW j \in Item PROVE Children(j) = {w.value : w \in Refs(mMembers[j])}
    BY <1>1, ChildrenAre
  <1>3. ASSUME NEW j \in Item PROVE Children(j) \subseteq (j + 1)..MaxItems
    <2>1. \A w \in Refs(mMembers[j]) : w.value \in (j + 1)..made BY DEF TreeInv, Linked
    <2>2. (j + 1)..made \subseteq (j + 1)..MaxItems
      BY <1>1, JsonDbAssumption DEF JsonDbAssumption, Item
    <2> QED BY <1>2, <2>1, <2>2
  <1> QED BY <1>2, <1>3 DEF Ordered, TreeInv, Parented

\* Those alive below the deleted are deleted too: of what is left, a parent is
\* left, and so is what is held, but for the tops.
LEMMA DeathIs ==
  ASSUME IInv, TreeInv, NEW top \in SUBSET Item
  PROVE  /\ Dead(top) \in SUBSET Item /\ top \subseteq Dead(top)
         /\ \A x \in Dead(top) : \E t \in top : t <= x
         /\ \A j \in Item, v \in Dead(top) :
              HeldBy(j, v) => v \in top \/ j \in Dead(top)
         /\ \A j \in Dead(top) : \A v : HeldBy(j, v) => v \in Dead(top)
PROOF
  <1>1. /\ Ordered /\ \A j \in Item : Children(j) = {w.value : w \in Refs(mMembers[j])}
    BY TreeOrdered
  <1>2. /\ Dead(top) \in SUBSET Item /\ top \subseteq Dead(top)
        /\ \A x \in Dead(top) : Children(x) \subseteq Dead(top)
        /\ \A x \in Dead(top) : x \in top \/ \E y \in Dead(top) : x \in Children(y)
        /\ \A x \in Dead(top) : \E t \in top : t <= x
    BY <1>1, DeadIs
  <1>3. ASSUME NEW j \in Item, NEW v \in Dead(top), HeldBy(j, v), v \notin top
        PROVE  j \in Dead(top)
    <2>1. PICK y \in Dead(top) : v \in Children(y) BY <1>2, <1>3
    <2>2. y \in Item BY <1>2
    <2>3. mParent[v] = y BY <1>1, <2>1, <2>2 DEF TreeInv, Linked
    <2>4. mParent[v] = j BY <1>3 DEF HeldBy, TreeInv, Linked
    <2> QED BY <2>3, <2>4
  <1>4. ASSUME NEW j \in Dead(top), NEW v, HeldBy(j, v) PROVE v \in Dead(top)
    <2>1. v \in Children(j) BY <1>1, <1>2, <1>4 DEF HeldBy
    <2> QED BY <1>2, <2>1
  <1> QED BY <1>2, <1>3, <1>4

\* What comes into being with a call: nothing, or an item below i.
Makes(i, in) ==
  \/ in = {} /\ UNCHANGED <<made, itsType, mParent>>
  \/ \E type \in Container :
       Created(i, type) /\ in = {[type |-> type, value |-> made']}

LEMMA MakesIs ==
  ASSUME IInv, TreeInv, NEW i \in 0..made, NEW in, Makes(i, in)
  PROVE  /\ Parented' /\ made' \in 0..MaxItems /\ made <= made'
         /\ \A j \in 1..made : mParent'[j] = mParent[j] /\ itsType'[j] = itsType[j]
         /\ \A w \in in : /\ w.value = made + 1 /\ w.value \in Item /\ w.value <= made'
                          /\ mParent'[w.value] = i /\ w.type = itsType'[w.value]
                          /\ mMembers[w.value] = <<>>
         /\ \A v, w \in in : v = w
PROOF
  <1>1. /\ made \in 0..MaxItems /\ itsType \in [Item -> Type] /\ Fresh
        /\ mParent \in [Item -> 0..MaxItems] /\ MaxItems \in Nat
        /\ \A j \in Item : mParent[j] < j /\ (j > made => mParent[j] = 0)
    BY JsonDbAssumption DEF JsonDbAssumption, IInv, Shapes, TreeInv, Parented
  <1>2. CASE in = {} /\ UNCHANGED <<made, itsType, mParent>>
    BY <1>1, <1>2 DEF Parented
  <1>3. CASE \E type \in Container :
               Created(i, type) /\ in = {[type |-> type, value |-> made']}
    <2>1. PICK type \in Container : Created(i, type) /\ in = {[type |-> type, value |-> made']}
      BY <1>3
    <2>2. /\ made < MaxItems /\ made' = made + 1
          /\ itsType' = [itsType EXCEPT ![made'] = type]
          /\ mParent' = [mParent EXCEPT ![made'] = i]
      BY <2>1 DEF Created
    <2>3. made' \in Item /\ made' > made /\ made' \in 0..MaxItems BY <1>1, <2>2 DEF Item
    <2>4. mParent' \in [Item -> 0..MaxItems] /\ mParent'[made'] = i
          /\ \A j \in Item : j # made' => mParent'[j] = mParent[j]
      BY <1>1, <2>2, <2>3
    <2>5. itsType'[made'] = type /\ \A j \in Item : j # made' => itsType'[j] = itsType[j]
      <3> HIDE DEF Type
      <3> QED BY <1>1, <2>2, <2>3
    <2>6. Parented' BY <1>1, <2>2, <2>3, <2>4 DEF Parented, Item
    <2>7. mMembers[made'] = <<>> BY <1>1, <2>3 DEF Fresh
    <2>8. 1..made \subseteq Item BY <1>1 DEF Item
    <2> QED BY <1>1, <2>1, <2>2, <2>3, <2>4, <2>5, <2>6, <2>7, <2>8
  <1> QED BY <1>2, <1>3 DEF Makes

\* A change of the members of i: out leaves its list and is deleted with all
\* below it, in comes.
LEMMA MembersFramed ==
  ASSUME IInv, TreeInv, NEW i \in alive, NEW r \in Seq(Entry),
         NEW out \in SUBSET Refs(mMembers[i]), NEW in, Makes(i, in),
         mMembers' = [mMembers EXCEPT ![i] = r],
         Once(r), Len(r) <= Len(mMembers[i]) + 1,
         Refs(r) = (Refs(mMembers[i]) \ out) \cup in,
         alive' = (alive \ Dead({w.value : w \in out})) \cup {w.value : w \in in},
         mRoots' = mRoots, changes' = changes + 1, changes < MaxChanges
  PROVE  TreeInv'
PROOF
  <1> DEFINE top == {w.value : w \in out}
             new == {w.value : w \in in}
             D == Dead(top)
  <1>1. /\ made \in 0..MaxItems /\ alive \subseteq 1..made /\ MaxItems \in Nat
        /\ mMembers \in [Item -> Seq(Entry)] /\ MaxChanges \in Nat
    BY JsonDbAssumption DEF JsonDbAssumption, IInv, Shapes
  <1>2. 1..made \subseteq Item /\ i \in 1..made /\ i \in Item /\ i \in 0..made BY <1>1 DEF Item
  <1>3. /\ Parented' /\ made' \in 0..MaxItems /\ made <= made'
        /\ \A j \in 1..made : mParent'[j] = mParent[j] /\ itsType'[j] = itsType[j]
        /\ \A w \in in : /\ w.value = made + 1 /\ w.value \in Item /\ w.value <= made'
                         /\ mParent'[w.value] = i /\ w.type = itsType'[w.value]
                         /\ mMembers[w.value] = <<>>
        /\ \A v, w \in in : v = w
    BY <1>2, MakesIs
  <1>4. \A w \in Refs(mMembers[i]) :
           /\ w.value \in (i + 1)..made /\ mParent[w.value] = i /\ w.value \in alive
           /\ w.type = itsType[w.value]
    BY <1>2 DEF TreeInv, Linked
  <1>5. top \in SUBSET Item /\ \A t \in top : t > i /\ mParent[t] = i
    BY <1>1, <1>2, <1>4 DEF Item
  <1>6. /\ D \in SUBSET Item /\ top \subseteq D
        /\ \A x \in D : \E t \in top : t <= x
        /\ \A j \in Item, v \in D : HeldBy(j, v) => v \in top \/ j \in D
        /\ \A j \in D : \A v : HeldBy(j, v) => v \in D
    BY <1>5, DeathIs
  <1>7. alive' = (alive \ D) \cup new OBVIOUS
  <1>8. changes \in 0..MaxChanges /\ changes' \in 0..MaxChanges /\ changes' = changes + 1
    BY <1>1 DEF TreeInv
  <1>9. /\ mMembers'[i] = r /\ \A j \in Item : j # i => mMembers'[j] = mMembers[j]
    <2> HIDE DEF Entry
    <2> QED BY <1>1, <1>2
  <1> HIDE DEF D
  <1>10. i \in alive'
    <2>1. i \notin D
      <3> SUFFICES ASSUME i \in D PROVE FALSE OBVIOUS
      <3>1. PICK t \in top : t <= i BY <1>6
      <3>2. t > i /\ t \in Item BY <1>5
      <3> QED BY <1>2, <3>1, <3>2 DEF Item
    <2> QED BY <1>7, <2>1
  <1>11. ASSUME NEW w \in in PROVE w.value \in new /\ w.value = made + 1 /\ w.value \notin alive
    BY <1>1, <1>3
  <1>12. \A w \in Refs(mMembers[i]) : w \notin out => w.value \notin D
    <2> SUFFICES ASSUME NEW w \in Refs(mMembers[i]), w.value \in D, w \notin out PROVE FALSE
      OBVIOUS
    <2>1. HeldBy(i, w.value) BY DEF HeldBy
    <2>2. w.value \in top \/ i \in D BY <1>2, <1>6, <2>1
    <2>3. i \notin D BY <1>2, <1>7, <1>10, <1>11
    <2>4. PICK u \in out : u.value = w.value BY <2>2, <2>3
    <2>5. u.type = w.type BY <1>4, <2>4
    <2>6. u = w
      <3>1. \A x \in Refs(mMembers[i]) : x = [type |-> x.type, value |-> x.value]
        BY DEF Refs, ValueOf
      <3> QED BY <2>4, <2>5, <3>1
    <2> QED BY <2>6
  <1> HIDE DEF new
  <1>13. Rooted'
    <2>1. Rooted BY DEF TreeInv
    <2>2. \A v : RootIs(v)' <=> RootIs(v) BY DEF RootIs
    <2>3. ASSUME NEW v \in Item, RootIs(v) PROVE mParent'[v] = 0 /\ v <= made'
      <3>1. mParent[v] = 0 /\ v <= made BY <2>1, <2>3 DEF Rooted
      <3>2. v \in 1..made BY <1>1, <3>1 DEF Item
      <3> QED BY <1>1, <1>3, <3>1, <3>2
    <2> QED BY <2>1, <2>2, <2>3 DEF Rooted
  <1>14. ASSUME NEW j \in Item PROVE Linked(j)'
    <2>1. Linked(j) BY DEF TreeInv
    <2>2. CASE j = i
      <3>1. Len(r) <= changes'
        <4>1. Len(r) \in Nat /\ Len(mMembers[i]) \in Nat
          <5> HIDE DEF Entry
          <5> QED BY <1>1, <1>2
        <4> QED BY <1>8, <2>1, <2>2, <4>1 DEF Linked
      <3>2. ASSUME NEW w \in Refs(r)
            PROVE  /\ w.value \in (i + 1)..made' /\ mParent'[w.value] = i
                   /\ w.type = itsType'[w.value] /\ w.value \in alive'
        <4>1. CASE w \in Refs(mMembers[i]) /\ w \notin out
          <5>1. w.value \in (i + 1)..made /\ w.value \in alive /\ mParent[w.value] = i
                /\ w.type = itsType[w.value]
            BY <1>4, <4>1
          <5>2. w.value \in 1..made BY <1>1, <5>1
          <5>3. w.value \in alive' BY <1>7, <1>12, <4>1, <5>1
          <5>4. w.value \in (i + 1)..made' BY <1>1, <1>2, <1>3, <5>1
          <5> QED BY <1>3, <5>1, <5>2, <5>3, <5>4
        <4>2. CASE w \in in
          <5>1. w.value \in (i + 1)..made' BY <1>1, <1>2, <1>3, <4>2
          <5> QED BY <1>3, <1>7, <1>11, <4>2, <5>1
        <4> QED BY <4>1, <4>2
      <3> QED BY <1>9, <2>2, <3>1, <3>2 DEF Linked
    <2>3. CASE j # i
      <3>1. mMembers'[j] = mMembers[j] BY <1>9, <2>3
      <3>2. Len(mMembers[j]) <= changes'
        <4>1. Len(mMembers[j]) \in Nat
          <5> HIDE DEF Entry
          <5> QED BY <1>1
        <4> QED BY <1>8, <2>1, <4>1 DEF Linked
      <3>3. ASSUME NEW w \in Refs(mMembers[j])
            PROVE  /\ w.value \in (j + 1)..made' /\ mParent'[w.value] = j
                   /\ w.type = itsType'[w.value]
                   /\ j \in alive' => w.value \in alive'
        <4>1. /\ w.value \in (j + 1)..made /\ mParent[w.value] = j
              /\ w.type = itsType[w.value] /\ (j \in alive => w.value \in alive)
          BY <2>1 DEF Linked
        <4>2. w.value \in 1..made /\ j \in 1..made BY <1>1, <4>1, SMTT(60) DEF Item
        <4>3. w.value \in (j + 1)..made' BY <1>1, <1>3, <4>1, SMTT(60) DEF Item
        <4>4. ASSUME j \in alive' PROVE w.value \in alive'
          <5>1. j \in alive /\ j \notin D
            <6>1. j \notin new BY <1>1, <1>3, <4>2 DEF new
            <6> QED BY <1>7, <4>4, <6>1
          <5>2. w.value \notin D
            <6>1. HeldBy(j, w.value) BY DEF HeldBy
            <6>2. w.value \notin top BY <1>5, <2>3, <4>1
            <6> QED BY <1>6, <5>1, <6>1, <6>2
          <5> QED BY <1>7, <4>1, <5>1, <5>2
        <4> QED BY <1>3, <4>1, <4>2, <4>3, <4>4
      <3> QED BY <2>1, <3>1, <3>2, <3>3 DEF Linked
    <2> QED BY <2>2, <2>3
  <1>15. ASSUME NEW v \in alive' PROVE Kept(v)'
    <2>1. CASE v \in new
      <3>1. PICK w \in in : v = w.value BY <2>1 DEF new
      <3>2. mParent'[v] = i /\ w \in Refs(r) BY <1>3, <3>1
      <3>3. HeldBy(i, v)' BY <1>9, <3>1, <3>2 DEF HeldBy
      <3>4. i # 0 BY <1>2
      <3> QED BY <1>10, <3>2, <3>3, <3>4 DEF Kept
    <2>2. CASE v \in alive /\ v \notin D
      <3>1. Kept(v) /\ v \in 1..made /\ v \in Item BY <1>1, <1>2, <2>2 DEF TreeInv
      <3>2. mParent'[v] = mParent[v] BY <1>3, <3>1
      <3>3. CASE mParent[v] = 0 BY <3>1, <3>2, <3>3 DEF Kept, RootIs
      <3>4. CASE mParent[v] # 0
        <4> DEFINE p == mParent[v]
        <4>1. p \in alive /\ HeldBy(p, v) BY <3>1, <3>4 DEF Kept
        <4>2. p \notin D BY <1>6, <2>2, <4>1
        <4>3. p \in alive' /\ p \in Item BY <1>1, <1>2, <1>7, <4>1, <4>2
        <4>4. \E w \in Refs(mMembers'[p]) : w.value = v
          <5>1. CASE p = i
            <6>1. PICK w \in Refs(mMembers[i]) : w.value = v BY <4>1, <5>1 DEF HeldBy
            <6>2. w \notin out BY <1>6, <2>2, <6>1
            <6>3. w \in Refs(r) BY <6>1, <6>2
            <6> QED BY <1>9, <5>1, <6>1, <6>3
          <5>2. CASE p # i BY <1>9, <4>1, <4>3, <5>2 DEF HeldBy
          <5> QED BY <5>1, <5>2
        <4>5. HeldBy(mParent[v], v)' BY <3>2, <4>4 DEF HeldBy
        <4>6. mParent'[v] # 0 /\ mParent'[v] \in alive' BY <3>2, <3>4, <4>3
        <4> QED BY <4>5, <4>6 DEF Kept
      <3> QED BY <3>3, <3>4
    <2> QED BY <1>7, <2>1, <2>2
  <1> QED BY <1>3, <1>8, <1>13, <1>14, <1>15 DEF TreeInv

\* Roots that are deleted, with all below them.
LEMMA RootsFramed ==
  ASSUME IInv, TreeInv, NEW top \in SUBSET Item, \A t \in top : mParent[t] = 0,
         alive' = alive \ Dead(top),
         mRoots' \in Seq([name : RootName, object : Item]),
         \A v \in Item : RootIs(v)' => RootIs(v),
         \A v \in Item : RootIs(v) /\ v \notin top => RootIs(v)',
         UNCHANGED <<made, itsType, mParent, mMembers, changes>>
  PROVE  TreeInv'
PROOF
  <1> DEFINE D == Dead(top)
  <1>1. /\ D \in SUBSET Item /\ top \subseteq D
        /\ \A j \in Item, v \in D : HeldBy(j, v) => v \in top \/ j \in D
        /\ \A j \in D : \A v : HeldBy(j, v) => v \in D
    BY DeathIs
  <1>2. alive \subseteq Item /\ alive' = alive \ D
    BY JsonDbAssumption DEF JsonDbAssumption, IInv, Shapes, Item
  <1> HIDE DEF D
  <1>3. Parented' /\ Rooted' /\ (changes \in 0..MaxChanges)'
    BY DEF TreeInv, Parented, Rooted
  <1>4. ASSUME NEW j \in Item PROVE Linked(j)'
    <2>1. Linked(j) BY DEF TreeInv
    <2>2. ASSUME NEW w \in Refs(mMembers[j]), j \in alive' PROVE w.value \in alive'
      <3>1. w.value \in alive /\ mParent[w.value] = j /\ HeldBy(j, w.value)
        BY <1>2, <2>1, <2>2 DEF Linked, HeldBy
      <3>2. w.value \notin top /\ j \notin D
        <4>1. j # 0 BY JsonDbAssumption DEF JsonDbAssumption, Item
        <4> QED BY <1>2, <2>2, <3>1, <4>1
      <3>3. w.value \notin D BY <1>1, <3>1, <3>2
      <3> QED BY <1>2, <3>1, <3>3
    <2> QED BY <2>1, <2>2 DEF Linked
  <1>5. ASSUME NEW v \in alive' PROVE Kept(v)'
    <2>1. v \in alive /\ v \notin D /\ v \in Item /\ Kept(v) BY <1>2 DEF TreeInv
    <2>2. CASE mParent[v] = 0 BY <1>1, <2>1, <2>2 DEF Kept
    <2>3. CASE mParent[v] # 0
      <3>1. mParent[v] \in alive /\ HeldBy(mParent[v], v) BY <2>1, <2>3 DEF Kept
      <3>2. mParent[v] \notin D BY <1>1, <2>1, <3>1
      <3>3. HeldBy(mParent[v], v)' BY <3>1 DEF HeldBy
      <3> QED BY <1>2, <2>3, <3>1, <3>2, <3>3 DEF Kept
    <2> QED BY <2>2, <2>3
  <1> QED BY <1>3, <1>4, <1>5 DEF TreeInv

LEMMA RootCreated ==
  ASSUME IInv, TreeInv, NEW name \in RootName, createRoot(name)
  PROVE  TreeInv'
PROOF
  <1> DEFINE in == {[type |-> "OBJECT", value |-> made']}
             R == [name : RootName, object : Item]
             x == [name |-> name, object |-> made']
  <1>1. /\ Created(0, "OBJECT") /\ mRoots' = Append(mRoots, x) /\ alive' = alive \cup {made'}
        /\ mMembers' = mMembers /\ changes' = changes
    BY DEF createRoot, Without, telling
  <1>2. /\ made \in 0..MaxItems /\ alive \subseteq 1..made /\ MaxItems \in Nat
        /\ 0 \in 0..made /\ 1..made \subseteq Item
    BY JsonDbAssumption DEF JsonDbAssumption, IInv, Shapes, Item
  <1>3. Makes(0, in) BY <1>1 DEF Makes, Container
  <1>4. /\ Parented' /\ made' \in 0..MaxItems /\ made <= made'
        /\ \A j \in 1..made : mParent'[j] = mParent[j] /\ itsType'[j] = itsType[j]
        /\ \A w \in in : /\ w.value = made + 1 /\ w.value \in Item /\ w.value <= made'
                         /\ mParent'[w.value] = 0 /\ w.type = itsType'[w.value]
                         /\ mMembers[w.value] = <<>>
    BY <1>2, <1>3, MakesIs
  <1>5. made' = made + 1 /\ made' \in Item /\ mParent'[made'] = 0
    <2>1. [type |-> "OBJECT", value |-> made'] \in in OBVIOUS
    <2> HIDE DEF in
    <2> QED BY <1>4, <2>1
  <1> HIDE DEF in
  <1>6. x \in R /\ x.object = made' BY <1>5
  <1> HIDE DEF x
  <1>7. mRoots \in Seq(R) BY DEF TreeInv, Rooted
  <1>8. /\ mRoots' \in Seq(R) /\ Len(mRoots') = Len(mRoots) + 1
        /\ \A k \in 1..Len(mRoots) : mRoots'[k] = mRoots[k]
        /\ mRoots'[Len(mRoots) + 1] = x
    <2> HIDE DEF R
    <2> QED BY <1>1, <1>6, <1>7
  <1>9. Len(mRoots) \in Nat BY <1>7
  <1>10. \A v : RootIs(v)' <=> RootIs(v) \/ v = made'
    <2> TAKE v
    <2>1. \A k : k \in 1..Len(mRoots') <=> k \in 1..Len(mRoots) \/ k = Len(mRoots) + 1
      BY <1>8, <1>9
    <2> QED BY <1>6, <1>8, <2>1 DEF RootIs
  <1>11. Rooted'
    <2>1. Rooted BY DEF TreeInv
    <2>2. ASSUME NEW v \in Item, RootIs(v)' PROVE mParent'[v] = 0 /\ v <= made'
      <3>1. CASE v = made' BY <1>2, <1>5, <3>1
      <3>2. CASE RootIs(v)
        <4>1. mParent[v] = 0 /\ v <= made BY <2>1, <3>2 DEF Rooted
        <4>2. v \in 1..made BY <1>2, <4>1 DEF Item
        <4> QED BY <1>2, <1>4, <4>1, <4>2
      <3> QED BY <1>10, <2>2, <3>1, <3>2
    <2> QED BY <1>8, <2>2 DEF Rooted
  <1>12. ASSUME NEW j \in Item PROVE Linked(j)'
    <2>1. Linked(j) BY DEF TreeInv
    <2>2. ASSUME NEW w \in Refs(mMembers[j])
          PROVE  /\ w.value \in (j + 1)..made' /\ mParent'[w.value] = j
                 /\ w.type = itsType'[w.value]
                 /\ (j \in alive' => w.value \in alive')
      <3>1. /\ w.value \in (j + 1)..made /\ mParent[w.value] = j
            /\ w.type = itsType[w.value] /\ (j \in alive => w.value \in alive)
        BY <2>1 DEF Linked
      <3>2. w.value \in 1..made /\ j \in 1..made /\ j # made' /\ w.value \in (j + 1)..made'
        BY <1>2, <1>4, <1>5, <3>1 DEF Item
      <3> QED BY <1>1, <1>4, <3>1, <3>2
    <2> QED BY <1>1, <2>1, <2>2 DEF Linked
  <1>13. ASSUME NEW v \in alive' PROVE Kept(v)'
    <2>1. CASE v = made' BY <1>5, <1>10, <2>1 DEF Kept
    <2>2. CASE v \in alive
      <3>1. Kept(v) /\ mParent'[v] = mParent[v] BY <1>2, <1>4, <2>2 DEF TreeInv
      <3>2. HeldBy(mParent[v], v) => HeldBy(mParent[v], v)' BY <1>1, <3>1 DEF HeldBy
      <3> QED BY <1>1, <1>10, <3>1, <3>2 DEF Kept
    <2> QED BY <1>1, <2>1, <2>2
  <1>14. (changes \in 0..MaxChanges)' BY <1>1 DEF TreeInv
  <1> QED BY <1>4, <1>11, <1>12, <1>13, <1>14 DEF TreeInv

\* Members that stay what they are, and hold what they held.
LEMMA RefsFramed ==
  ASSUME TreeInv, UNCHANGED <<alive, made, itsType, mParent, mRoots, changes>>,
         \A j \in Item : /\ Refs(mMembers'[j]) = Refs(mMembers[j])
                         /\ Once(mMembers[j]) => Once(mMembers'[j])
                         /\ Len(mMembers'[j]) = Len(mMembers[j]),
         alive \subseteq Item
  PROVE  TreeInv'
PROOF
  <1>1. Parented' /\ Rooted' /\ (changes \in 0..MaxChanges)'
    BY DEF TreeInv, Parented, Rooted, RootIs
  <1>2. ASSUME NEW j \in Item PROVE Linked(j)'
    <2>1. Linked(j) BY DEF TreeInv
    <2> QED BY <2>1 DEF Linked
  <1>3. ASSUME NEW v \in alive' PROVE Kept(v)'
    <2>1. Kept(v) BY DEF TreeInv
    <2>2. CASE mParent[v] = 0 BY <2>1, <2>2 DEF Kept, RootIs
    <2>3. CASE mParent[v] # 0
      <3>1. mParent[v] \in Item BY <2>1, <2>3 DEF Kept
      <3>2. HeldBy(mParent[v], v)' BY <2>1, <2>3, <3>1 DEF Kept, HeldBy
      <3> QED BY <2>1, <2>3, <3>2 DEF Kept
    <2> QED BY <2>2, <2>3
  <1> QED BY <1>1, <1>2, <1>3 DEF TreeInv

-----------------------------------------------------------------------------
(* What lists of members hold *)

\* A value, if it is an item.
Hold(v) == IF v.type \in Container THEN {v} ELSE {}

LEMMA RefsSame ==
  ASSUME NEW s, NEW r, Len(r) = Len(s), \A k \in 1..Len(s) : ValueOf(r[k]) = ValueOf(s[k])
  PROVE  Refs(r) = Refs(s) /\ (Once(s) => Once(r))
PROOF
  <1>1. \A k \in 1..Len(s) : r[k].type = s[k].type
    <2> TAKE k \in 1..Len(s)
    <2>1. ValueOf(r[k]).type = r[k].type /\ ValueOf(s[k]).type = s[k].type BY DEF ValueOf
    <2> QED BY <2>1
  <1>2. {ValueOf(r[k]) : k \in 1..Len(r)} = {ValueOf(s[k]) : k \in 1..Len(s)} OBVIOUS
  <1> QED BY <1>1, <1>2 DEF Refs, Once

LEMMA RefsAre ==
  ASSUME NEW s, NEW w
  PROVE  w \in Refs(s) <=> w.type \in Container /\ \E k \in 1..Len(s) : w = ValueOf(s[k])
PROOF
  BY DEF Refs

LEMMA RefsAppended ==
  ASSUME NEW s \in Seq(Entry), NEW e \in Entry, Once(s), ValueOf(e) \notin Refs(s)
  PROVE  LET r == Append(s, e)
         IN  Refs(r) = Refs(s) \cup Hold(ValueOf(e)) /\ Once(r)
PROOF
  <1> DEFINE r == Append(s, e)
  <1>1. Len(s) \in Nat /\ Len(r) = Len(s) + 1 /\ r[Len(s) + 1] = e
        /\ \A k \in 1..Len(s) : r[k] = s[k]
    <2> HIDE DEF Entry
    <2> QED OBVIOUS
  <1>2. \A k : k \in 1..Len(r) <=> k \in 1..Len(s) \/ k = Len(s) + 1 BY <1>1
  <1> HIDE DEF r
  <1>3. ASSUME NEW w PROVE w \in Refs(r) <=> w \in Refs(s) \cup Hold(ValueOf(e))
    <2>1. (\E k \in 1..Len(r) : w = ValueOf(r[k]))
            <=> (\E k \in 1..Len(s) : w = ValueOf(s[k])) \/ w = ValueOf(e)
      BY <1>1, <1>2
    <2>2. w \in Hold(ValueOf(e)) <=> w = ValueOf(e) /\ w.type \in Container BY DEF Hold
    <2> QED BY <2>1, <2>2, RefsAre
  <1>4. Once(r)
    <2> SUFFICES ASSUME NEW k \in 1..Len(r), NEW l \in 1..Len(r),
                        r[k].type \in Container, ValueOf(r[k]) = ValueOf(r[l])
                 PROVE  k = l
      BY DEF Once
    <2>1. ValueOf(r[k]).type = r[k].type BY DEF ValueOf
    <2>2. CASE k \in 1..Len(s) /\ l \in 1..Len(s) BY <1>1, <2>2 DEF Once
    <2>3. CASE k \in 1..Len(s) /\ l = Len(s) + 1
      <3>1. ValueOf(s[k]) \in Refs(s) BY <1>1, <2>1, <2>3, RefsAre
      <3> QED BY <1>1, <2>3, <3>1
    <2>4. CASE k = Len(s) + 1 /\ l \in 1..Len(s)
      <3>1. ValueOf(s[l]) \in Refs(s) BY <1>1, <2>1, <2>4, RefsAre
      <3> QED BY <1>1, <2>4, <3>1
    <2> QED BY <1>2, <2>2, <2>3, <2>4
  <1> QED BY <1>3, <1>4 DEF r

LEMMA RefsReplaced ==
  ASSUME NEW s \in Seq(Entry), NEW e \in Entry, Once(s), ValueOf(e) \notin Refs(s),
         NEW f \in 1..Len(s)
  PROVE  LET r == [s EXCEPT ![f] = e]
         IN  /\ Refs(r) = (Refs(s) \ Hold(ValueOf(s[f]))) \cup Hold(ValueOf(e)) /\ Once(r)
             /\ Len(r) = Len(s) /\ Hold(ValueOf(s[f])) \subseteq Refs(s)
PROOF
  <1> DEFINE r == [s EXCEPT ![f] = e]
  <1>1. Len(s) \in Nat /\ Len(r) = Len(s)
        /\ \A k \in 1..Len(s) : r[k] = IF k = f THEN e ELSE s[k]
    <2> HIDE DEF Entry
    <2> QED OBVIOUS
  <1> HIDE DEF r
  <1>2. \A w, v : w \in Hold(v) <=> w = v /\ w.type \in Container BY DEF Hold
  <1>3. \A k \in 1..Len(s) : ValueOf(s[k]).type = s[k].type BY DEF ValueOf
  <1>4. ASSUME NEW w
        PROVE  w \in Refs(r) <=> w \in (Refs(s) \ Hold(ValueOf(s[f]))) \cup Hold(ValueOf(e))
    <2>1. ASSUME w \in Refs(r) PROVE w \in (Refs(s) \ Hold(ValueOf(s[f]))) \cup Hold(ValueOf(e))
      <3>1. PICK k \in 1..Len(s) : w = ValueOf(r[k]) /\ w.type \in Container
        BY <1>1, <2>1, RefsAre
      <3>2. CASE k = f BY <1>1, <1>2, <3>1, <3>2
      <3>3. CASE k # f
        <4>1. w = ValueOf(s[k]) BY <1>1, <3>1, <3>3
        <4>2. w \in Refs(s) BY <3>1, <4>1, RefsAre
        <4>3. w # ValueOf(s[f]) BY <1>3, <3>1, <3>3, <4>1 DEF Once
        <4> QED BY <1>2, <4>2, <4>3
      <3> QED BY <3>2, <3>3
    <2>2. ASSUME w \in Hold(ValueOf(e)) PROVE w \in Refs(r)
      <3>1. w = ValueOf(r[f]) /\ w.type \in Container BY <1>1, <1>2, <2>2
      <3> QED BY <1>1, <3>1, RefsAre
    <2>3. ASSUME w \in Refs(s), w \notin Hold(ValueOf(s[f])) PROVE w \in Refs(r)
      <3>1. PICK k \in 1..Len(s) : w = ValueOf(s[k]) /\ w.type \in Container
        BY <2>3, RefsAre
      <3>2. k # f BY <1>2, <2>3, <3>1
      <3>3. w = ValueOf(r[k]) BY <1>1, <3>1, <3>2
      <3> QED BY <1>1, <3>1, <3>3, RefsAre
    <2> QED BY <2>1, <2>2, <2>3
  <1>5. Once(r)
    <2> SUFFICES ASSUME NEW k \in 1..Len(s), NEW l \in 1..Len(s),
                        r[k].type \in Container, ValueOf(r[k]) = ValueOf(r[l])
                 PROVE  k = l
      BY <1>1 DEF Once
    <2>1. ValueOf(r[k]).type = r[k].type BY DEF ValueOf
    <2>2. CASE k # f /\ l # f BY <1>1, <2>2 DEF Once
    <2>3. CASE k # f /\ l = f
      <3>1. ValueOf(s[k]) \in Refs(s) BY <1>1, <2>1, <2>3, RefsAre
      <3> QED BY <1>1, <2>3, <3>1
    <2>4. CASE k = f /\ l # f
      <3>1. ValueOf(s[l]) \in Refs(s) BY <1>1, <2>1, <2>4, RefsAre
      <3> QED BY <1>1, <2>4, <3>1
    <2> QED BY <2>2, <2>3, <2>4
  <1>6. Hold(ValueOf(s[f])) \subseteq Refs(s) BY <1>2, RefsAre
  <1> QED BY <1>1, <1>4, <1>5, <1>6 DEF r

LEMMA RefsRemoved ==
  ASSUME NEW s \in Seq(Entry), Once(s), NEW f \in 1..Len(s)
  PROVE  LET r == S!RemoveAt(s, f)
         IN  /\ r \in Seq(Entry) /\ Len(r) = Len(s) - 1
             /\ Refs(r) = Refs(s) \ Hold(ValueOf(s[f])) /\ Once(r)
             /\ Hold(ValueOf(s[f])) \subseteq Refs(s)
PROOF
  <1> DEFINE r == S!RemoveAt(s, f)
             from(l) == IF l < f THEN l ELSE l + 1
  <1>1. /\ r \in Seq(Entry) /\ Len(r) = Len(s) - 1
        /\ \A l \in 1..Len(r) : r[l] = s[IF l < f THEN l ELSE l + 1]
    <2> HIDE DEF Entry
    <2> QED BY RemoveAtIs
  <1> HIDE DEF r
  <1>2. Len(s) \in Nat BY DEF Entry
  <1>3. /\ \A l \in 1..Len(r) : from(l) \in 1..Len(s) /\ from(l) # f
        /\ \A k, l \in 1..Len(r) : from(k) = from(l) => k = l
    BY <1>1, <1>2
  <1>4. \A k \in 1..Len(s) : k # f => \E l \in 1..Len(r) : from(l) = k
    <2> SUFFICES ASSUME NEW k \in 1..Len(s), k # f
                 PROVE  \E l \in 1..Len(r) : from(l) = k
      OBVIOUS
    <2>1. CASE k < f
      <3>1. k \in 1..Len(r) /\ from(k) = k BY <1>1, <1>2, <2>1
      <3> QED BY <3>1
    <2>2. CASE k > f
      <3>1. k - 1 \in 1..Len(r) /\ from(k - 1) = k BY <1>1, <1>2, <2>2
      <3> QED BY <3>1
    <2> QED BY <2>1, <2>2
  <1>5. \A l \in 1..Len(r) : r[l] = s[from(l)] BY <1>1
  <1> HIDE DEF from
  <1>6. \A w, v : w \in Hold(v) <=> w = v /\ w.type \in Container BY DEF Hold
  <1>7. \A k \in 1..Len(s) : ValueOf(s[k]).type = s[k].type BY DEF ValueOf
  <1>8. ASSUME NEW w PROVE w \in Refs(r) <=> w \in Refs(s) \ Hold(ValueOf(s[f]))
    <2>1. ASSUME w \in Refs(r) PROVE w \in Refs(s) \ Hold(ValueOf(s[f]))
      <3>1. PICK l \in 1..Len(r) : w = ValueOf(r[l]) /\ w.type \in Container
        BY <2>1, RefsAre
      <3>2. w = ValueOf(s[from(l)]) /\ from(l) \in 1..Len(s) /\ from(l) # f BY <1>3, <1>5, <3>1
      <3>3. w # ValueOf(s[f]) BY <1>7, <3>1, <3>2 DEF Once
      <3> QED BY <1>6, <3>1, <3>2, <3>3, RefsAre
    <2>2. ASSUME w \in Refs(s), w \notin Hold(ValueOf(s[f])) PROVE w \in Refs(r)
      <3>1. PICK k \in 1..Len(s) : w = ValueOf(s[k]) /\ w.type \in Container
        BY <2>2, RefsAre
      <3>2. k # f BY <1>6, <2>2, <3>1
      <3>3. PICK l \in 1..Len(r) : from(l) = k BY <1>4, <3>2
      <3>4. w = ValueOf(r[l]) BY <1>5, <3>1, <3>3
      <3> QED BY <3>1, <3>4, RefsAre
    <2> QED BY <2>1, <2>2
  <1>9. Once(r)
    <2> SUFFICES ASSUME NEW k \in 1..Len(r), NEW l \in 1..Len(r),
                        r[k].type \in Container, ValueOf(r[k]) = ValueOf(r[l])
                 PROVE  k = l
      BY DEF Once
    <2>1. from(k) = from(l) BY <1>3, <1>5 DEF Once
    <2> QED BY <1>3, <2>1
  <1>10. Hold(ValueOf(s[f])) \subseteq Refs(s) BY <1>6, RefsAre
  <1> QED BY <1>1, <1>8, <1>9, <1>10 DEF r

LEMMA FreedIs ==
  ASSUME NEW v
  PROVE  Freed(v) = Dead({w.value : w \in Hold(v)})
PROOF
  <1>1. CASE v.type \in Container
    <2>1. {w.value : w \in Hold(v)} = {v.value} BY <1>1 DEF Hold
    <2> QED BY <1>1, <2>1 DEF Freed, Dead
  <1>2. CASE v.type \notin Container
    <2>1. {w.value : w \in Hold(v)} = {} BY <1>2 DEF Hold
    <2> QED BY <1>2, <2>1 DEF Freed, Dead
  <1> QED BY <1>1, <1>2

-----------------------------------------------------------------------------
(* The steps on the tree *)

LEMMA PutTree ==
  ASSUME IInv, TreeInv, NEW i \in Item, NEW n \in Name, NEW v \in Reading,
         Makes(i, Hold(v)), Put(i, n, v, {w.value : w \in Hold(v)})
  PROVE  TreeInv'
PROOF
  <1> DEFINE s == mMembers[i]
             e == Member(n, v)
             r == replaceMember(i, n, v)
             f == Find(s, n)
             out == Hold(read(i, n))
  <1>1. /\ MayChange(i) /\ mMembers' = [mMembers EXCEPT ![i] = r]
        /\ mRoots' = mRoots /\ changes' = changes + 1
        /\ alive' = (alive \ Freed(read(i, n))) \cup {w.value : w \in Hold(v)}
    BY DEF Put, Without, Notify
  <1>2. i \in alive /\ changes < MaxChanges BY <1>1 DEF MayChange
  <1>3. i \in 1..made /\ NamedOnce(s) /\ s \in Seq(Entry)
    BY <1>1, Changeable DEF ObjectHolds
  <1>4. Once(s) /\ \A w \in Refs(s) : w.value \in (i + 1)..made BY DEF TreeInv, Linked
  <1>5. made \in 0..MaxItems /\ i \in 0..made BY <1>3 DEF IInv, Shapes
  <1>6. \A w \in Hold(v) : w.value = made + 1 BY <1>5, MakesIs
  <1>7. e \in Entry /\ ValueOf(e) = v BY MemberIs
  <1>8. v \notin Refs(s)
    <2> SUFFICES ASSUME v \in Refs(s) PROVE FALSE OBVIOUS
    <2>1. v \in Hold(v) BY RefsAre DEF Hold
    <2> QED BY <1>4, <1>5, <1>6, <2>1
  <1>9. f = member(i, n) BY DEF Find, member
  <1>10. r = IF f = 0 THEN Append(s, e) ELSE [s EXCEPT ![f] = e] BY <1>9 DEF replaceMember
  <1>11. read(i, n) = IF f = 0 THEN Invalid ELSE ValueOf(s[f]) BY <1>9 DEF read
  <1>12. f # 0 => f \in 1..Len(s) BY <1>3, FindIs
  <1>13. Len(s) \in Nat BY <1>3
  <1> HIDE DEF f, r, s, e
  <1>14. /\ r \in Seq(Entry) /\ Once(r) /\ Len(r) <= Len(s) + 1
         /\ Refs(r) = (Refs(s) \ out) \cup Hold(v) /\ out \subseteq Refs(s)
    <2>1. CASE f = 0
      <3>1. out = {} BY <1>11, <2>1 DEF Hold, Invalid, Container
      <3>2. r = Append(s, e) BY <1>10, <2>1
      <3>3. Refs(r) = Refs(s) \cup Hold(v) /\ Once(r) BY <1>3, <1>4, <1>7, <1>8, <3>2, RefsAppended
      <3>4. r \in Seq(Entry) /\ Len(r) = Len(s) + 1
        <4> HIDE DEF Entry
        <4> QED BY <1>3, <1>7, <3>2
      <3> QED BY <1>13, <3>1, <3>3, <3>4
    <2>2. CASE f # 0
      <3>1. out = Hold(ValueOf(s[f])) BY <1>11, <2>2
      <3>2. r = [s EXCEPT ![f] = e] /\ f \in 1..Len(s) BY <1>10, <1>12, <2>2
      <3>3. /\ Refs(r) = (Refs(s) \ Hold(ValueOf(s[f]))) \cup Hold(v) /\ Once(r)
            /\ Len(r) = Len(s) /\ Hold(ValueOf(s[f])) \subseteq Refs(s)
        BY <1>3, <1>4, <1>7, <1>8, <3>2, RefsReplaced
      <3>4. r \in Seq(Entry)
        <4> HIDE DEF Entry
        <4> QED BY <1>3, <1>7, <3>2
      <3> QED BY <1>13, <3>1, <3>3, <3>4
    <2> QED BY <2>1, <2>2
  <1>15. alive' = (alive \ Dead({w.value : w \in out})) \cup {w.value : w \in Hold(v)}
    BY <1>1, FreedIs
  <1> HIDE DEF out
  <1>16. out \in SUBSET Refs(mMembers[i]) BY <1>14 DEF s
  <1> QED BY <1>1, <1>2, <1>14, <1>15, <1>16, MembersFramed DEF s

LEMMA UnsetTree ==
  ASSUME IInv, TreeInv, NEW i \in Item, NEW n \in Name, unset(i, n)
  PROVE  TreeInv'
PROOF
  <1> DEFINE s == mMembers[i]
             f == Find(s, n)
             r == S!RemoveAt(s, f)
             out == Hold(read(i, n))
             in == {}
  <1>1. f = member(i, n) BY DEF Find, member
  <1>2. /\ MayChange(i) /\ f # 0 /\ mMembers' = [mMembers EXCEPT ![i] = r]
        /\ mRoots' = mRoots /\ changes' = changes + 1
        /\ alive' = alive \ Freed(read(i, n))
        /\ Makes(i, in)
    BY <1>1 DEF unset, Without, Notify, Makes
  <1>3. i \in alive /\ changes < MaxChanges BY <1>2 DEF MayChange
  <1>4. i \in 1..made /\ NamedOnce(s) /\ s \in Seq(Entry)
    BY <1>2, Changeable DEF ObjectHolds
  <1>5. Once(s) BY DEF TreeInv, Linked
  <1>6. f \in 1..Len(s) BY <1>2, <1>4, FindIs
  <1>7. read(i, n) = ValueOf(s[f]) BY <1>1, <1>2 DEF read
  <1>8. Len(s) \in Nat BY <1>4
  <1> HIDE DEF f, s
  <1>9. /\ r \in Seq(Entry) /\ Len(r) = Len(s) - 1
        /\ Refs(r) = Refs(s) \ Hold(ValueOf(s[f])) /\ Once(r)
        /\ Hold(ValueOf(s[f])) \subseteq Refs(s)
    BY <1>4, <1>5, <1>6, RefsRemoved
  <1>10. alive' = alive \ Dead({w.value : w \in out}) BY <1>2, FreedIs
  <1>11. alive' = (alive \ Dead({w.value : w \in out})) \cup {w.value : w \in in} BY <1>10
  <1>12. /\ Refs(r) = (Refs(mMembers[i]) \ out) \cup in /\ Len(r) <= Len(mMembers[i]) + 1
         /\ out \in SUBSET Refs(mMembers[i])
    BY <1>7, <1>8, <1>9 DEF s
  <1> HIDE DEF r, out, in
  <1> QED BY <1>2, <1>3, <1>9, <1>11, <1>12, MembersFramed

LEMMA AttachTree ==
  ASSUME IInv, TreeInv, NEW i \in Item, NEW v \in Reading,
         Makes(i, Hold(v)), Attach(i, v, {w.value : w \in Hold(v)})
  PROVE  TreeInv'
PROOF
  <1> DEFINE s == mMembers[i]
             e == Member(0, v)
             r == Append(s, e)
             out == {}
  <1>1. /\ MayChange(i) /\ mMembers' = [mMembers EXCEPT ![i] = r]
        /\ mRoots' = mRoots /\ changes' = changes + 1
        /\ alive' = (alive \ {}) \cup {w.value : w \in Hold(v)}
    BY DEF Attach, Without, Notify
  <1>2. i \in alive /\ changes < MaxChanges BY <1>1 DEF MayChange
  <1>3. i \in 1..made /\ s \in Seq(Entry) BY <1>1, Changeable
  <1>4. Once(s) /\ \A w \in Refs(s) : w.value \in (i + 1)..made BY DEF TreeInv, Linked
  <1>5. made \in 0..MaxItems /\ i \in 0..made BY <1>3 DEF IInv, Shapes
  <1>6. \A w \in Hold(v) : w.value = made + 1 BY <1>5, MakesIs
  <1>7. e \in Entry /\ ValueOf(e) = v BY MemberIs
  <1>8. v \notin Refs(s)
    <2> SUFFICES ASSUME v \in Refs(s) PROVE FALSE OBVIOUS
    <2>1. v \in Hold(v) BY RefsAre DEF Hold
    <2> QED BY <1>4, <1>5, <1>6, <2>1
  <1> HIDE DEF s, e
  <1>9. Refs(r) = Refs(s) \cup Hold(v) /\ Once(r) BY <1>3, <1>4, <1>7, <1>8, RefsAppended
  <1>10. r \in Seq(Entry) /\ Len(r) = Len(s) + 1 /\ Len(s) \in Nat
    <2> HIDE DEF Entry
    <2> QED BY <1>3, <1>7
  <1>11. Dead({w.value : w \in out}) = {} BY DEF Dead
  <1>12. alive' = (alive \ Dead({w.value : w \in out})) \cup {w.value : w \in Hold(v)}
    BY <1>1, <1>11
  <1>13. /\ Refs(r) = (Refs(mMembers[i]) \ out) \cup Hold(v) /\ Len(r) <= Len(mMembers[i]) + 1
         /\ out \in SUBSET Refs(mMembers[i])
    BY <1>9, <1>10 DEF s
  <1> HIDE DEF r, out
  <1> QED BY <1>1, <1>2, <1>9, <1>10, <1>12, <1>13, MembersFramed

LEMMA RemoveTree ==
  ASSUME IInv, TreeInv, NEW i \in Item, NEW index \in Nat, remove(i, index)
  PROVE  TreeInv'
PROOF
  <1> DEFINE s == mMembers[i]
             f == index + 1
             r == S!RemoveAt(s, f)
             out == Hold(readAt(i, index))
             in == {}
  <1>1. /\ MayChange(i) /\ mMembers' = [mMembers EXCEPT ![i] = r]
        /\ mRoots' = mRoots /\ changes' = changes + 1
        /\ alive' = alive \ Freed(readAt(i, index))
        /\ Makes(i, in) /\ itsType[i] = "ARRAY" /\ index < mLength[i]
    BY DEF remove, Removed, Without, Notify, Makes
  <1>2. i \in alive /\ changes < MaxChanges BY <1>1 DEF MayChange
  <1>3. i \in 1..made /\ ArrayHolds(i) /\ s \in Seq(Entry) BY <1>1, Changeable
  <1>4. Once(s) BY DEF TreeInv, Linked
  <1>5. mLength[i] = Len(s) BY <1>1, <1>3 DEF ArrayHolds
  <1>6. Len(s) \in Nat BY <1>3
  <1>7. f \in 1..Len(s) BY <1>1, <1>5, <1>6
  <1>8. readAt(i, index) = ValueOf(s[f]) BY <1>1, <1>5, <1>6 DEF readAt
  <1> HIDE DEF f, s
  <1>9. /\ r \in Seq(Entry) /\ Len(r) = Len(s) - 1
        /\ Refs(r) = Refs(s) \ Hold(ValueOf(s[f])) /\ Once(r)
        /\ Hold(ValueOf(s[f])) \subseteq Refs(s)
    BY <1>3, <1>4, <1>7, RefsRemoved
  <1>10. alive' = alive \ Dead({w.value : w \in out}) BY <1>1, FreedIs
  <1>11. alive' = (alive \ Dead({w.value : w \in out})) \cup {w.value : w \in in} BY <1>10
  <1>12. /\ Refs(r) = (Refs(mMembers[i]) \ out) \cup in /\ Len(r) <= Len(mMembers[i]) + 1
         /\ out \in SUBSET Refs(mMembers[i])
    BY <1>6, <1>8, <1>9 DEF s
  <1> HIDE DEF r, out, in
  <1> QED BY <1>1, <1>2, <1>9, <1>11, <1>12, MembersFramed

\* Cached texts alone are changed by asString() and send().
LEMMA TextsTree ==
  ASSUME IInv, TreeInv,
         UNCHANGED <<alive, made, itsType, mParent, mRoots, changes>>,
         \A j \in Item :
           /\ Len(mMembers'[j]) = Len(mMembers[j])
           /\ \A k \in 1..Len(mMembers[j]) : ValueOf(mMembers'[j][k]) = ValueOf(mMembers[j][k])
  PROVE  TreeInv'
PROOF
  <1>1. alive \subseteq Item BY JsonDbAssumption DEF JsonDbAssumption, IInv, Shapes, Item
  <1>2. ASSUME NEW j \in Item
        PROVE  /\ Refs(mMembers'[j]) = Refs(mMembers[j])
               /\ Once(mMembers[j]) => Once(mMembers'[j])
    BY RefsSame
  <1> QED BY <1>1, <1>2, RefsFramed

LEMMA EscapedValue ==
  ASSUME NEW i, NEW m \in Entry
  PROVE  ValueOf(Escaped(i, m)) = ValueOf(m)
PROOF
  <1>1. m = [name |-> m.name, type |-> m.type, value |-> m.value, escaped |-> m.escaped]
    <2> HIDE DEF Text, Type, Value
    <2> QED BY DEF Entry
  <1>2. Escaped(i, m) = m \/ Escaped(i, m) = [m EXCEPT !.escaped = Escape(m)] BY DEF Escaped
  <1> QED BY <1>1, <1>2 DEF ValueOf

LEMMA AsStringTree ==
  ASSUME IInv, TreeInv, NEW i \in Item, NEW n \in Name, asString(i, n)
  PROVE  TreeInv'
PROOF
  <1> DEFINE s == mMembers[i]
             f == member(i, n)
             e == Escaped(i, s[f])
  <1>1. /\ i \notin torn /\ f # 0
        /\ mMembers' = [mMembers EXCEPT ![i] = [s EXCEPT ![f] = e]]
        /\ UNCHANGED <<alive, made, itsType, mParent, mRoots, changes>>
    BY DEF asString, MayWalk, telling
  <1>2. NamedOnce(s) /\ mMembers \in [Item -> Seq(Entry)]
    BY <1>1 DEF IInv, Shapes, ObjectHolds
  <1>3. s \in Seq(Entry)
    <2> HIDE DEF Entry
    <2> QED BY <1>2
  <1>4. f \in 1..Len(s)
    <2>1. f = Find(s, n) BY DEF Find, member
    <2> QED BY <1>1, <1>2, <1>3, <2>1, FindIs
  <1> HIDE DEF Entry, f
  <1>5. ValueOf(e) = ValueOf(s[f])
    <2>1. s[f] \in Entry BY <1>3, <1>4
    <2> QED BY <2>1, EscapedValue
  <1> HIDE DEF e
  <1>6. Len([s EXCEPT ![f] = e]) = Len(s)
        /\ \A k \in 1..Len(s) : [s EXCEPT ![f] = e][k] = IF k = f THEN e ELSE s[k]
    BY <1>3, <1>4
  <1>7. ASSUME NEW j \in Item
        PROVE  /\ Len(mMembers'[j]) = Len(mMembers[j])
               /\ \A k \in 1..Len(mMembers[j]) : ValueOf(mMembers'[j][k]) = ValueOf(mMembers[j][k])
    <2>1. CASE j = i
      <3>1. mMembers'[j] = [s EXCEPT ![f] = e] BY <1>1, <1>2, <2>1
      <3> QED BY <1>5, <1>6, <2>1, <3>1
    <2>2. CASE j # i BY <1>1, <1>2, <2>2
    <2> QED BY <2>1, <2>2
  <1> QED BY <1>1, <1>7, TextsTree

LEMMA SendTree ==
  ASSUME IInv, TreeInv, NEW i \in Item, NEW depth \in 0..SendDepth, send(i, depth)
  PROVE  TreeInv'
PROOF
  <1> DEFINE shown == Shown[depth][i]
             all(j) == [k \in DOMAIN mMembers[j] |-> Escaped(j, mMembers[j][k])]
  <1>1. /\ mMembers' = [j \in Item |-> IF j \in shown THEN all(j) ELSE mMembers[j]]
        /\ UNCHANGED <<alive, made, itsType, mParent, mRoots, changes>>
    BY DEF send, telling
  <1> HIDE DEF shown
  <1>2. ASSUME NEW j \in Item
        PROVE  /\ Len(mMembers'[j]) = Len(mMembers[j])
               /\ \A k \in 1..Len(mMembers[j]) : ValueOf(mMembers'[j][k]) = ValueOf(mMembers[j][k])
    <2> HIDE DEF Entry
    <2>1. mMembers[j] \in Seq(Entry) BY DEF IInv, Shapes
    <2>2. DOMAIN mMembers[j] = 1..Len(mMembers[j]) /\ Len(mMembers[j]) \in Nat
          /\ \A k \in 1..Len(mMembers[j]) : mMembers[j][k] \in Entry
      BY <2>1
    <2>3. CASE j \in shown
      <3>1. mMembers'[j] = all(j) BY <1>1, <2>3
      <3>2. Len(all(j)) = Len(mMembers[j]) BY <2>2
      <3>3. \A k \in 1..Len(mMembers[j]) : all(j)[k] = Escaped(j, mMembers[j][k]) BY <2>2
      <3> HIDE DEF all
      <3> QED BY <2>2, <3>1, <3>2, <3>3, EscapedValue
    <2>4. CASE j \notin shown BY <1>1, <2>4
    <2> QED BY <2>3, <2>4
  <1> QED BY <1>1, <1>2, TextsTree

LEMMA DeleteRootTree ==
  ASSUME IInv, TreeInv, NEW name \in RootName, deleteRoot(name)
  PROVE  TreeInv'
PROOF
  <1> DEFINE R == [name : RootName, object : Item]
  <1>1. PICK k \in RootAt(name) :
          /\ mRoots' = S!RemoveAt(mRoots, k)
          /\ Without(Subtree[mRoots[k].object], {})
          /\ UNCHANGED <<made, itsType, mParent, mMembers, mLength, torn, telling, history>>
    BY DEF deleteRoot
  <1>2. mRoots \in Seq(R) BY DEF TreeInv, Rooted
  <1>3. k \in 1..Len(mRoots) BY <1>1, <1>2 DEF RootAt
  <1> HIDE DEF R
  <1>4. /\ mRoots' \in Seq(R) /\ Len(mRoots') = Len(mRoots) - 1
        /\ \A l \in 1..Len(mRoots') : mRoots'[l] = mRoots[IF l < k THEN l ELSE l + 1]
    BY <1>1, <1>2, <1>3, RemoveAtIs
  <1>5. Len(mRoots) \in Nat /\ mRoots[k] \in R BY <1>2, <1>3
  <1> DEFINE x == mRoots[k].object
             top == {x}
  <1>6. x \in Item /\ RootIs(x) BY <1>3, <1>5 DEF R, RootIs
  <1>7. mParent[x] = 0 BY <1>6 DEF TreeInv, Rooted
  <1>8. top \in SUBSET Item /\ \A t \in top : mParent[t] = 0 BY <1>6, <1>7
  <1>9. Dead(top) = Subtree[x] BY DEF Dead
  <1>10. alive' = alive \ Dead(top) BY <1>1, <1>9 DEF Without
  <1>11. ASSUME NEW v \in Item, RootIs(v)' PROVE RootIs(v)
    <2>1. PICK l \in 1..Len(mRoots') : mRoots'[l].object = v BY <1>11 DEF RootIs
    <2>2. (IF l < k THEN l ELSE l + 1) \in 1..Len(mRoots) BY <1>3, <1>4, <1>5
    <2> QED BY <1>4, <2>1, <2>2 DEF RootIs
  <1>12. ASSUME NEW v \in Item, RootIs(v), v \notin top PROVE RootIs(v)'
    <2>1. PICK l \in 1..Len(mRoots) : mRoots[l].object = v BY <1>12 DEF RootIs
    <2>2. l # k BY <1>12, <2>1
    <2>3. CASE l < k
      <3>1. l \in 1..Len(mRoots') /\ mRoots'[l] = mRoots[l] BY <1>3, <1>4, <1>5, <2>3
      <3> QED BY <2>1, <3>1 DEF RootIs
    <2>4. CASE l > k
      <3>1. l - 1 \in 1..Len(mRoots') /\ ~(l - 1 < k) /\ l - 1 + 1 = l
        BY <1>3, <1>4, <1>5, <2>4
      <3>2. mRoots'[l - 1] = mRoots[l] BY <1>4, <3>1
      <3> QED BY <2>1, <3>1, <3>2 DEF RootIs
    <2> QED BY <1>3, <1>5, <2>2, <2>3, <2>4
  <1>13. UNCHANGED <<made, itsType, mParent, mMembers, changes>> BY <1>1 DEF telling
  <1>14. mRoots' \in Seq([name : RootName, object : Item]) BY <1>4 DEF R
  <1> HIDE DEF top, x
  <1> QED BY <1>8, <1>10, <1>11, <1>12, <1>13, <1>14, RootsFramed

LEMMA DestroyTree ==
  ASSUME IInv, TreeInv, Destroy
  PROVE  TreeInv'
PROOF
  <1> DEFINE R == [name : RootName, object : Item]
             top == {mRoots[k].object : k \in 1..Len(mRoots)}
  <1>1. mRoots \in Seq(R) BY DEF TreeInv, Rooted
  <1>2. S!ToSet(mRoots) = {mRoots[k] : k \in 1..Len(mRoots)}
    <2> HIDE DEF R
    <2> QED BY <1>1 DEF S!ToSet
  <1>3. UNION {Subtree[r.object] : r \in S!ToSet(mRoots)} = Dead(top) BY <1>2 DEF Dead
  <1>4. /\ mRoots' = <<>> /\ alive' = alive \ Dead(top)
        /\ UNCHANGED <<made, itsType, mParent, mMembers, changes>>
    BY <1>3 DEF Destroy, Without, telling
  <1>5. \A k \in 1..Len(mRoots) : mRoots[k].object \in Item
    <2> TAKE k \in 1..Len(mRoots)
    <2>1. mRoots[k] \in R
      <3> HIDE DEF R
      <3> QED BY <1>1
    <2> QED BY <2>1
  <1>6. top \in SUBSET Item BY <1>5
  <1>7. \A t \in top : mParent[t] = 0
    <2> TAKE t \in top
    <2>1. RootIs(t) /\ t \in Item BY <1>6 DEF RootIs
    <2> QED BY <2>1 DEF TreeInv, Rooted
  <1>8. \A v \in Item : RootIs(v) => v \in top BY DEF RootIs
  <1>9. \A v \in Item : ~RootIs(v)' BY <1>4 DEF RootIs
  <1>10. mRoots' \in Seq([name : RootName, object : Item]) BY <1>4
  <1> HIDE DEF top
  <1> QED BY <1>4, <1>6, <1>7, <1>8, <1>9, <1>10, RootsFramed

LEMMA TreeInit ==
  Init => TreeInv
PROOF
  <1> SUFFICES ASSUME Init PROVE TreeInv OBVIOUS
  <1>1. MaxItems \in Nat /\ MaxChanges \in Nat BY JsonDbAssumption DEF JsonDbAssumption
  <1>2. made = 0 /\ alive = {} /\ mRoots = <<>> /\ changes = 0 BY DEF Init
  <1>3. Parented BY <1>1 DEF Init, Parented, Item
  <1>4. Rooted BY <1>2 DEF Rooted, RootIs
  <1>5. ASSUME NEW j \in Item PROVE Linked(j)
    <2>1. mMembers[j] = <<>> BY DEF Init
    <2>2. Refs(mMembers[j]) = {} BY <2>1 DEF Refs
    <2> QED BY <1>2, <2>1, <2>2 DEF Linked, Once
  <1> QED BY <1>1, <1>2, <1>3, <1>4, <1>5 DEF TreeInv

\* What of the database the tree depends on.
treeVars == <<mRoots, alive, made, itsType, mParent, mMembers, changes>>

LEMMA TreeSame ==
  ASSUME IInv, TreeInv, UNCHANGED treeVars
  PROVE  TreeInv'
PROOF
  <1>1. /\ UNCHANGED <<alive, made, itsType, mParent, mRoots, changes>>
        /\ mMembers' = mMembers
    BY DEF treeVars
  <1> QED BY <1>1, TextsTree

LEMMA NothingMakes ==
  ASSUME NEW i, NEW s \in Scalar, UNCHANGED <<made, itsType, mParent>>
  PROVE  Hold(s) = {} /\ Makes(i, Hold(s))
PROOF
  <1>1. s.type \notin Container BY JsonDbAssumption DEF JsonDbAssumption, Container
  <1> QED BY <1>1 DEF Hold, Makes

LEMMA ContainerMakes ==
  ASSUME NEW i, NEW type \in Container, Created(i, type)
  PROVE  LET v == [type |-> type, value |-> made']
         IN  Makes(i, Hold(v)) /\ {w.value : w \in Hold(v)} = {made'}
PROOF
  <1> DEFINE v == [type |-> type, value |-> made']
  <1>1. Hold(v) = {v} BY DEF Hold
  <1>2. {w.value : w \in Hold(v)} = {made'} BY <1>1
  <1> QED BY <1>1, <1>2 DEF Makes

LEMMA TreeStep ==
  ASSUME IInv, TreeInv, Next
  PROVE  TreeInv'
PROOF
  <1>1. ASSUME NEW i \in Item, NEW o \in Observer, addObserver(i, o) \/ removeObserver(i, o)
        PROVE  TreeInv'
    <2>1. UNCHANGED treeVars BY <1>1 DEF addObserver, removeObserver, treeVars, tree
    <2> QED BY <2>1, TreeSame
  <1>2. CASE Return
    <2>1. UNCHANGED treeVars BY <1>2 DEF Return, treeVars, tree
    <2> QED BY <2>1, TreeSame
  <1>3. ASSUME NEW i \in Item, NEW name \in Name, NEW s \in Scalar, setScalar(i, name, s)
        PROVE  TreeInv'
    <2>1. Put(i, name, s, {}) /\ UNCHANGED <<made, itsType, mParent>> BY <1>3 DEF setScalar
    <2>2. Hold(s) = {} /\ Makes(i, Hold(s)) BY <2>1, NothingMakes
    <2>3. {w.value : w \in Hold(s)} = {} BY <2>2
    <2>4. Put(i, name, s, {w.value : w \in Hold(s)}) BY <2>1, <2>3
    <2> QED BY <2>2, <2>4, ScalarIsReading, PutTree
  <1>4. ASSUME NEW i \in Item, NEW name \in Name, NEW type \in Container,
               setContainer(i, name, type)
        PROVE  TreeInv'
    <2> DEFINE v == [type |-> type, value |-> made']
    <2>1. Created(i, type) /\ Put(i, name, v, {made'}) BY <1>4 DEF setContainer
    <2>2. alive' \subseteq alive \cup {made'} BY <2>1 DEF Put, Without
    <2>3. made' \in Item BY <2>1, <2>2, OneMade
    <2>4. v \in Reading BY <2>3, ItemIsReading
    <2>5. Makes(i, Hold(v)) /\ {w.value : w \in Hold(v)} = {made'} BY <2>1, ContainerMakes
    <2> HIDE DEF v
    <2>6. Put(i, name, v, {w.value : w \in Hold(v)}) BY <2>1, <2>5
    <2> QED BY <2>4, <2>5, <2>6, PutTree
  <1>5. ASSUME NEW i \in Item, NEW s \in Scalar, appendScalar(i, s) PROVE TreeInv'
    <2>1. Attach(i, s, {}) /\ UNCHANGED <<made, itsType, mParent>> BY <1>5 DEF appendScalar
    <2>2. Hold(s) = {} /\ Makes(i, Hold(s)) BY <2>1, NothingMakes
    <2>3. {w.value : w \in Hold(s)} = {} BY <2>2
    <2>4. Attach(i, s, {w.value : w \in Hold(s)}) BY <2>1, <2>3
    <2> QED BY <2>2, <2>4, ScalarIsReading, AttachTree
  <1>6. ASSUME NEW i \in Item, NEW type \in Container, appendContainer(i, type)
        PROVE  TreeInv'
    <2> DEFINE v == [type |-> type, value |-> made']
    <2>1. Created(i, type) /\ Attach(i, v, {made'}) BY <1>6 DEF appendContainer
    <2>2. alive' \subseteq alive \cup {made'} BY <2>1 DEF Attach, Without
    <2>3. made' \in Item BY <2>1, <2>2, OneMade
    <2>4. v \in Reading BY <2>3, ItemIsReading
    <2>5. Makes(i, Hold(v)) /\ {w.value : w \in Hold(v)} = {made'} BY <2>1, ContainerMakes
    <2> HIDE DEF v
    <2>6. Attach(i, v, {w.value : w \in Hold(v)}) BY <2>1, <2>5
    <2> QED BY <2>4, <2>5, <2>6, AttachTree
  <1>7. ASSUME NEW i \in Item, NEW index \in 0..MaxChanges, remove(i, index) PROVE TreeInv'
    <2>1. index \in Nat OBVIOUS
    <2> QED BY <1>7, <2>1, RemoveTree
  <1> QED
    BY <1>1, <1>2, <1>3, <1>4, <1>5, <1>6, <1>7, UnsetTree, AsStringTree, SendTree,
       RootCreated, DeleteRootTree, DestroyTree DEF Next

LEMMA TreeInductive == Spec => [](IInv /\ TreeInv)
PROOF
  <1>1. IInv /\ TreeInv /\ [Next]_vars => TreeInv'
    <2> SUFFICES ASSUME IInv, TreeInv, [Next]_vars PROVE TreeInv' OBVIOUS
    <2>1. CASE Next BY <2>1, TreeStep
    <2>2. CASE UNCHANGED vars
      <3>1. UNCHANGED treeVars BY <2>2 DEF vars, tree, telling, treeVars
      <3> QED BY <3>1, TreeSame
    <2> QED BY <2>1, <2>2
  <1> QED BY Inductive, TreeInit, <1>1, PTL DEF Spec

LEMMA HoldersAre ==
  ASSUME IInv, TreeInv, NEW i \in alive, NEW h \in Holders(i)
  PROVE  /\ h[1] = mParent[i] /\ h[1] \in alive /\ h = <<h[1], h[2]>>
         /\ h[2] \in 1..Len(mMembers[h[1]])
         /\ mMembers[h[1]][h[2]].value = i
         /\ mMembers[h[1]][h[2]].type \in Container /\ mMembers[h[1]][h[2]].type = itsType[i]
PROOF
  <1>1. /\ h \in alive \X (1..MaxChanges) /\ h[2] \in DOMAIN mMembers[h[1]]
        /\ ValueOf(mMembers[h[1]][h[2]]) \in [type : Container, value : {i}]
    BY DEF Holders
  <1>2. h[1] \in alive /\ h = <<h[1], h[2]>> BY <1>1
  <1>3. h[1] \in Item BY <1>2, JsonDbAssumption DEF JsonDbAssumption, IInv, Shapes, Item
  <1> DEFINE s == mMembers[h[1]]
             w == ValueOf(s[h[2]])
  <1>4. s \in Seq(Entry)
    <2> HIDE DEF Entry
    <2> QED BY <1>3 DEF IInv, Shapes
  <1>5. h[2] \in 1..Len(s) BY <1>1, <1>4
  <1>6. /\ w.type = s[h[2]].type /\ w.value = s[h[2]].value /\ w.type \in Container
        /\ w.value = i
    BY <1>1 DEF ValueOf
  <1>7. w \in Refs(s) BY <1>5, <1>6, RefsAre
  <1>8. mParent[w.value] = h[1] /\ w.type = itsType[w.value] BY <1>3, <1>7 DEF TreeInv, Linked
  <1> QED BY <1>2, <1>5, <1>6, <1>7, <1>8

\* What exists is a tree, whatever observers do within notifications
\* (jsonobject.cpp:62, jsonarray.cpp:44, jsondbactor.cpp:41).
THEOREM TreeAlwaysIntact == Spec => []TreeIntact
PROOF
  <1>1. IInv /\ TreeInv => TreeIntact
    <2> SUFFICES ASSUME IInv, TreeInv PROVE TreeIntact OBVIOUS
    <2>1. alive \subseteq Item BY JsonDbAssumption DEF JsonDbAssumption, IInv, Shapes, Item
    <2>2. ASSUME NEW i \in alive PROVE Children(i) \subseteq alive
      <3>1. i \in Item BY <2>1
      <3>2. Children(i) = {w.value : w \in Refs(mMembers[i])} BY <3>1, TreeOrdered
      <3>3. Linked(i) BY <3>1 DEF TreeInv
      <3> QED BY <3>2, <3>3 DEF Linked
    <2>3. ASSUME NEW i \in alive, mParent[i] = 0
          PROVE  Holders(i) = {} /\ \E r \in S!ToSet(mRoots) : r.object = i
      <3>1. \A h \in Holders(i) : h[1] = 0 /\ h[1] \in Item BY <2>1, <2>3, HoldersAre
      <3>2. 0 \notin Item BY JsonDbAssumption DEF JsonDbAssumption, Item
      <3>3. RootIs(i) BY <2>3 DEF TreeInv, Kept
      <3>4. PICK k \in 1..Len(mRoots) : mRoots[k].object = i BY <3>3 DEF RootIs
      <3>5. mRoots \in Seq([name : RootName, object : Item]) BY DEF TreeInv, Rooted
      <3>6. mRoots[k] \in S!ToSet(mRoots) BY <3>4, <3>5 DEF S!ToSet
      <3> QED BY <3>1, <3>2, <3>4, <3>6
    <2>4. ASSUME NEW i \in alive, mParent[i] # 0
          PROVE  \E j \in alive, k \in 1..MaxChanges :
                   /\ Holders(i) = {<<j, k>>} /\ mParent[i] = j
                   /\ mMembers[j][k].type = itsType[i]
      <3> DEFINE j == mParent[i]
                 s == mMembers[j]
      <3>1. j \in alive /\ HeldBy(j, i) BY <2>4 DEF TreeInv, Kept
      <3>2. j \in Item /\ Linked(j) BY <2>1, <3>1 DEF TreeInv
      <3>3. s \in Seq(Entry)
        <4> HIDE DEF Entry
        <4> QED BY <3>2 DEF IInv, Shapes
      <3>4. PICK w \in Refs(s) : w.value = i BY <3>1 DEF HeldBy
      <3>5. PICK k \in 1..Len(s) : w = ValueOf(s[k]) BY RefsAre
      <3>6. w.type \in Container BY RefsAre
      <3>7. w \in [type : Container, value : {i}] BY <3>4, <3>5, <3>6 DEF ValueOf
      <3>8. k \in 1..MaxChanges
        <4>1. Len(s) <= changes /\ changes \in 0..MaxChanges BY <3>2 DEF TreeInv, Linked
        <4>2. Len(s) \in Nat /\ MaxChanges \in Nat
          BY <3>3, JsonDbAssumption DEF JsonDbAssumption
        <4> HIDE DEF s
        <4> QED BY <4>1, <4>2
      <3>9. k \in DOMAIN s BY <3>3
      <3> HIDE DEF s
      <3>10. <<j, k>> \in Holders(i) BY <3>1, <3>5, <3>7, <3>8, <3>9 DEF Holders, s
      <3>11. ASSUME NEW h \in Holders(i) PROVE h = <<j, k>>
        <4>1. /\ h[1] = j /\ h = <<h[1], h[2]>> /\ h[2] \in 1..Len(s)
              /\ s[h[2]].value = i /\ s[h[2]].type \in Container /\ s[h[2]].type = itsType[i]
          BY HoldersAre DEF s
        <4>2. w.type = itsType[i] BY <3>2, <3>4 DEF Linked, s
        <4>3. ValueOf(s[h[2]]) = ValueOf(s[k]) BY <3>4, <3>5, <4>1, <4>2 DEF ValueOf
        <4>4. h[2] = k BY <3>2, <4>1, <4>3 DEF Linked, Once, s
        <4> QED BY <4>1, <4>4
      <3>12. Holders(i) = {<<j, k>>} BY <3>10, <3>11
      <3>13. s[k].type = itsType[i] BY <3>2, <3>4, <3>5 DEF Linked, ValueOf, s
      <3> QED BY <3>1, <3>8, <3>12, <3>13 DEF s
    <2> QED BY <2>2, <2>3, <2>4 DEF TreeIntact
  <1> QED BY TreeInductive, <1>1, PTL

-----------------------------------------------------------------------------
(* Notifications *)

\* Observer q comes after the one of frame f, in the list of its item or in
\* that of an item in up; w has the lists.
Ahead(w, up, f, q) ==
  \/ \E l \in 1..Len(w[f.at]) :
       /\ w[f.at][l] = q
       /\ \E m \in 1..l : w[f.at][m] = f.o
  \/ \E j \in up : \E l \in 1..Len(w[j]) : w[j][l] = q

Frame == [n : Nat, at : Item, o : Observer]

\* An observer is in one list, once.
OneList(w) ==
  \A i, j \in Item : \A k \in 1..Len(w[i]), l \in 1..Len(w[j]) : w[i][k] = w[j][l] => i = j /\ k = l

ToldOf(w, s, p) ==
  \E k \in 1..Len(s) : s[k].n = p[1] /\ Ahead(w, Up[mParent[s[k].at]], s[k], p[2])

Watching(w, f) == f.at <= made /\ \E l \in 1..Len(w[f.at]) : w[f.at][l] = f.o

Listed ==
  /\ mObservers \in [Item -> Seq(Observer)] /\ OneList(mObservers)
  /\ \A i \in Item : i > made => mObservers[i] = <<>>

TellInv ==
  /\ Listed
  /\ stack \in Seq(Frame) /\ \A k \in 1..Len(stack) : Watching(mObservers, stack[k])
  /\ owed \subseteq Nat \X Observer
  /\ \A p \in owed : ToldOf(mObservers, stack, p)

LEMMA OrderedNow ==
  (IInv /\ TreeInv => Ordered) /\ (IInv' /\ TreeInv' => Ordered')
PROOF
  <1>1. IInv /\ TreeInv => Ordered BY TreeOrdered
  <1>2. IInv' /\ TreeInv' => Ordered' BY <1>1, PTL
  <1> QED BY <1>1, <1>2

LEMMA UpNow ==
  /\ Ordered => \A i \in 0..MaxItems : Up[i] = IF i = 0 THEN {} ELSE {i} \cup Up[mParent[i]]
  /\ Ordered' => \A i \in 0..MaxItems : Up'[i] = IF i = 0 THEN {} ELSE {i} \cup Up'[mParent'[i]]
PROOF
  <1> DEFINE P == \A i \in 0..MaxItems : Up[i] = IF i = 0 THEN {} ELSE {i} \cup Up[mParent[i]]
  <1>1. Ordered => P BY UpDef
  <1>2. (Ordered => P)' 
    <2> HIDE DEF P
    <2> QED BY <1>1, PTL
  <1> QED BY <1>1, <1>2

\* An item made later changes nothing for those there are.
LEMMA UpSame ==
  ASSUME Ordered, Ordered', made \in 0..MaxItems,
         \A j \in 1..made : mParent'[j] = mParent[j]
  PROVE  \A i \in 0..made : Up'[i] = Up[i]
PROOF
  <1> DEFINE bad == {i \in 0..made : Up'[i] # Up[i]}
  <1>1. SUFFICES ASSUME bad # {} PROVE FALSE OBVIOUS
  <1>2. MaxItems \in Nat BY JsonDbAssumption DEF JsonDbAssumption
  <1>3. bad \in SUBSET Nat BY <1>2
  <1>4. PICK i \in bad : \A y \in bad : i <= y BY <1>1, <1>3, Least
  <1>5. i \in 0..made /\ i \in 0..MaxItems BY <1>2
  <1>6. /\ Up[i] = IF i = 0 THEN {} ELSE {i} \cup Up[mParent[i]]
        /\ Up'[i] = IF i = 0 THEN {} ELSE {i} \cup Up'[mParent'[i]]
    BY <1>5, UpNow
  <1>7. i # 0 BY <1>4, <1>6
  <1>8. i \in 1..made /\ i \in Item /\ i \in Nat BY <1>2, <1>5, <1>7 DEF Item
  <1>9. mParent[i] \in 0..MaxItems /\ mParent[i] < i /\ mParent'[i] = mParent[i]
    BY <1>8 DEF Ordered
  <1>10. Up'[mParent[i]] = Up[mParent[i]]
    <2>1. mParent[i] \in 0..made /\ ~(i <= mParent[i]) BY <1>2, <1>5, <1>8, <1>9
    <2> QED BY <1>4, <2>1
  <1> QED BY <1>4, <1>6, <1>7, <1>9, <1>10

LEMMA PlaceIs ==
  ASSUME Listed, NEW i \in Item, NEW o, NEW l \in 1..Len(mObservers[i]), mObservers[i][l] = o
  PROVE  Place(o, i) = l /\ \A m \in 1..Len(mObservers[i]) : mObservers[i][m] = o => m = l
PROOF
  <1>1. \A m \in 1..Len(mObservers[i]) : mObservers[i][m] = o => m = l
    BY DEF Listed, OneList
  <1>2. DOMAIN mObservers[i] = 1..Len(mObservers[i]) BY DEF Listed
  <1>3. Place(o, i) \in 1..Len(mObservers[i]) /\ mObservers[i][Place(o, i)] = o
    BY <1>2 DEF Place
  <1> QED BY <1>1, <1>3

LEMMA ClimbIs ==
  ASSUME Ordered, Listed, NEW i \in 0..MaxItems
  PROVE  /\ Climb(i) = 0 => \A j \in Up[i] : mObservers[j] = <<>>
         /\ Climb(i) # 0 =>
              /\ Climb(i) \in Up[i] /\ Climb(i) \in 1..i /\ mObservers[Climb(i)] # <<>>
              /\ \A j \in Up[i] : mObservers[j] # <<>> => j <= Climb(i)
PROOF
  <1> DEFINE seen == {j \in Up[i] : mObservers[j] # <<>>}
  <1>1. MaxItems \in Nat BY JsonDbAssumption DEF JsonDbAssumption
  <1>2. Up[i] \subseteq 1..i
    <2>1. CASE i = 0 BY <2>1, UpDef
    <2>2. CASE i # 0
      <3>1. i \in Item BY <1>1, <2>2 DEF Item
      <3> QED BY <3>1, UpWithin
    <2> QED BY <2>1, <2>2
  <1>3. Climb(i) = IF seen = {} THEN 0 ELSE CHOOSE j \in seen : \A l \in seen : l <= j
    BY DEF Climb
  <1>4. CASE seen = {} BY <1>3, <1>4
  <1>5. CASE seen # {}
    <2>1. seen \in SUBSET (0..i) /\ i \in Nat BY <1>1, <1>2
    <2> HIDE DEF seen
    <2>2. \E j \in seen : \A l \in seen : l <= j BY <1>5, <2>1, Greatest
    <2>3. Climb(i) \in seen /\ \A l \in seen : l <= Climb(i) BY <1>3, <1>5, <2>2
    <2>4. Climb(i) \in Up[i] /\ mObservers[Climb(i)] # <<>> BY <2>3 DEF seen
    <2>5. Climb(i) \in 1..i /\ Climb(i) # 0 BY <1>2, <2>1, <2>4
    <2> QED BY <2>3, <2>4, <2>5 DEF seen
  <1> QED BY <1>4, <1>5

LEMMA KeptMade ==
  ASSUME IInv, Next
  PROVE  made <= made' /\ \A j \in 1..made : mParent'[j] = mParent[j]
PROOF
  <1>1. made \in 0..MaxItems /\ MaxItems \in Nat
    BY JsonDbAssumption DEF JsonDbAssumption, IInv, Shapes
  <1>2. ASSUME NEW i, NEW type, Created(i, type)
        PROVE  made <= made' /\ \A j \in 1..made : mParent'[j] = mParent[j]
    BY <1>1, <1>2 DEF Created
  <1>3. ASSUME UNCHANGED <<made, mParent>>
        PROVE  made <= made' /\ \A j \in 1..made : mParent'[j] = mParent[j]
    BY <1>1, <1>3
  <1>4. (\E i, type : Created(i, type)) \/ UNCHANGED <<made, mParent>>
    BY DEF Next, Return, Destroy, createRoot, deleteRoot, addObserver, removeObserver, send,
           unset, asString, setScalar, setContainer, appendScalar, appendContainer, remove, tree
  <1> QED BY <1>2, <1>3, <1>4

\* A step keeps the invariant if it does with the parents there were.
LEMMA TellFramed ==
  ASSUME IInv, TreeInv, IInv', TreeInv', made <= made',
         \A j \in 1..made : mParent'[j] = mParent[j],
         Listed', stack' \in Seq(Frame), owed' \subseteq Nat \X Observer,
         \A k \in 1..Len(stack') : Watching(mObservers', stack'[k]),
         \A p \in owed' : ToldOf(mObservers', stack', p)
  PROVE  TellInv'
PROOF
  <1>1. /\ made \in 0..MaxItems /\ made' \in 0..MaxItems /\ MaxItems \in Nat
        /\ Ordered /\ Ordered'
    BY OrderedNow, JsonDbAssumption DEF JsonDbAssumption, IInv, Shapes
  <1>2. \A i \in 0..made : Up'[i] = Up[i] BY <1>1, UpSame
  <1>3. ASSUME NEW k \in 1..Len(stack')
        PROVE  /\ stack'[k].at \in 1..made /\ stack'[k].at <= made'
               /\ \E l \in 1..Len(mObservers'[stack'[k].at]) :
                    mObservers'[stack'[k].at][l] = stack'[k].o
    <2>1. stack'[k] \in Frame
      <3> HIDE DEF Frame
      <3> QED OBVIOUS
    <2>2. stack'[k].at \in Item BY <2>1 DEF Frame
    <2>3. Watching(mObservers', stack'[k]) OBVIOUS
    <2> QED BY <1>1, <2>2, <2>3 DEF Watching, Item
  <1>4. ASSUME NEW p \in owed'
        PROVE  \E k \in 1..Len(stack') :
                 /\ stack'[k].n = p[1]
                 /\ Ahead(mObservers', Up'[mParent'[stack'[k].at]], stack'[k], p[2])
    <2>1. PICK k \in 1..Len(stack') :
            stack'[k].n = p[1] /\ Ahead(mObservers', Up[mParent[stack'[k].at]], stack'[k], p[2])
      BY DEF ToldOf
    <2> DEFINE at == stack'[k].at
    <2>2. at \in 1..made BY <1>3
    <2>3. mParent'[at] = mParent[at] BY <2>2
    <2>4. mParent[at] \in 0..made
      <3>1. at \in Item BY <1>1, <2>2 DEF Item
      <3>2. mParent[at] \in 0..MaxItems /\ mParent[at] < at BY <1>1, <3>1 DEF Ordered
      <3> QED BY <1>1, <2>2, <3>2
    <2>5. Up'[mParent'[at]] = Up[mParent[at]] BY <1>2, <2>3, <2>4
    <2> QED BY <2>1, <2>5
  <1> QED BY <1>3, <1>4 DEF TellInv, Watching, ToldOf

\* Steps that notify nobody, and leave the lists of observers alone.
LEMMA TellSame ==
  ASSUME IInv, TreeInv, TellInv, IInv', TreeInv', made <= made',
         \A j \in 1..made : mParent'[j] = mParent[j],
         UNCHANGED <<mObservers, stack, owed>>
  PROVE  TellInv'
PROOF
  <1>1. made \in 0..MaxItems /\ made' \in 0..MaxItems
    BY DEF IInv, Shapes
  <1>2. Listed' BY <1>1, JsonDbAssumption DEF JsonDbAssumption, TellInv, Listed, Item
  <1>3. \A k \in 1..Len(stack') : Watching(mObservers', stack'[k]) BY DEF TellInv
  <1>4. \A p \in owed' : ToldOf(mObservers', stack', p) BY DEF TellInv
  <1>5. stack' \in Seq(Frame) /\ owed' \subseteq Nat \X Observer BY DEF TellInv
  <1> QED BY <1>2, <1>3, <1>4, <1>5, TellFramed

\* Of a change of item i the observers of it and of those above it are owed
\* to be told, and the first of them is.
LEMMA NotifyTell ==
  ASSUME IInv, TreeInv, TellInv, IInv', TreeInv', made <= made',
         \A j \in 1..made : mParent'[j] = mParent[j],
         NEW i \in 1..made, Notify(i)
  PROVE  TellInv'
PROOF
  <1> DEFINE at == Climb(i)
             f == [n |-> changes', at |-> at, o |-> mObservers[at][1]]
             new == {<<changes', o>> : o \in UNION {S!ToSet(mObservers[j]) : j \in Up[i]}}
  <1>1. /\ made \in 0..MaxItems /\ made' \in 0..MaxItems /\ MaxItems \in Nat /\ Ordered
        /\ changes' \in Nat /\ 1..made \subseteq Item /\ i \in Item /\ i \in 0..MaxItems
    BY OrderedNow, JsonDbAssumption, SMTT(60) DEF JsonDbAssumption, IInv, Shapes, TreeInv, Item
  <1>2. /\ owed' = owed \cup new /\ mObservers' = mObservers
        /\ stack' = IF at = 0 THEN stack ELSE Append(stack, f)
    BY DEF Notify
  <1>3. /\ Listed /\ stack \in Seq(Frame) /\ Len(stack) \in Nat
        /\ \A k \in 1..Len(stack) : Watching(mObservers, stack[k])
        /\ owed \subseteq Nat \X Observer
        /\ \A p \in owed : ToldOf(mObservers, stack, p)
    BY DEF TellInv
  <1>4. /\ at = 0 => \A j \in Up[i] : mObservers[j] = <<>>
        /\ at # 0 =>
              /\ at \in Up[i] /\ at \in 1..i /\ mObservers[at] # <<>>
              /\ \A j \in Up[i] : mObservers[j] # <<>> => j <= at
    BY <1>1, <1>3, ClimbIs
  <1>5. Up[i] \subseteq 1..i BY <1>1, UpWithin
  <1>6. \A j \in Item : mObservers[j] \in Seq(Observer) BY <1>3 DEF Listed
  <1>7. \A j \in Up[i] : j \in Item BY <1>1, <1>5
  <1> HIDE DEF at, f, new
  <1>8. ASSUME NEW p \in new
        PROVE  /\ p = <<changes', p[2]>> /\ p[2] \in Observer
               /\ \E j \in Up[i] : \E l \in 1..Len(mObservers[j]) : mObservers[j][l] = p[2]
    <2>1. PICK j \in Up[i] : \E o \in S!ToSet(mObservers[j]) : p = <<changes', o>>
      BY DEF new
    <2>2. PICK o \in S!ToSet(mObservers[j]) : p = <<changes', o>> BY <2>1
    <2>3. mObservers[j] \in Seq(Observer) BY <1>6, <1>7
    <2>4. \E l \in 1..Len(mObservers[j]) : mObservers[j][l] = o
      BY <2>2, <2>3 DEF S!ToSet
    <2> QED BY <2>2, <2>3, <2>4
  <1>9. at # 0 =>
           /\ f \in Frame /\ f.n = changes' /\ f.at = at /\ f.o = mObservers[at][1]
           /\ at \in 1..made /\ at \in Item /\ 1 \in 1..Len(mObservers[at])
    <2> SUFFICES ASSUME at # 0
                 PROVE  /\ f \in Frame /\ f.n = changes' /\ f.at = at /\ f.o = mObservers[at][1]
                        /\ at \in 1..made /\ at \in Item /\ 1 \in 1..Len(mObservers[at])
      OBVIOUS
    <2>1. at \in 1..made /\ at \in Item BY <1>1, <1>4
    <2>2. mObservers[at] \in Seq(Observer) /\ mObservers[at] # <<>> BY <1>4, <1>6, <2>1
    <2>3. 1 \in 1..Len(mObservers[at]) /\ mObservers[at][1] \in Observer BY <2>2
    <2> QED BY <1>1, <2>1, <2>3 DEF f, Frame
  <1>10. /\ stack' \in Seq(Frame) /\ \A k \in 1..Len(stack) : stack'[k] = stack[k]
         /\ at = 0 => Len(stack') = Len(stack)
         /\ at # 0 => Len(stack') = Len(stack) + 1 /\ stack'[Len(stack) + 1] = f
    <2> HIDE DEF Frame
    <2> QED BY <1>2, <1>3, <1>9
  <1>11. \A k \in 1..Len(stack') : Watching(mObservers', stack'[k])
    <2> TAKE k \in 1..Len(stack')
    <2>1. CASE k \in 1..Len(stack) BY <1>2, <1>3, <1>10, <2>1
    <2>2. CASE k \notin 1..Len(stack)
      <3>1. at # 0 /\ k = Len(stack) + 1 BY <1>3, <1>10, <2>2
      <3> QED BY <1>2, <1>9, <1>10, <3>1 DEF Watching
    <2> QED BY <2>1, <2>2
  <1>12. ASSUME NEW p \in owed' PROVE ToldOf(mObservers', stack', p)
    <2>1. CASE p \in owed
      <3>1. PICK k \in 1..Len(stack) :
              stack[k].n = p[1] /\ Ahead(mObservers, Up[mParent[stack[k].at]], stack[k], p[2])
        BY <1>3, <2>1 DEF ToldOf
      <3>2. k \in 1..Len(stack') BY <1>3, <1>10
      <3> QED BY <1>2, <1>10, <3>1, <3>2 DEF ToldOf
    <2>2. CASE p \in new
      <3>1. PICK j \in Up[i] : \E l \in 1..Len(mObservers[j]) : mObservers[j][l] = p[2]
        BY <1>8, <2>2
      <3>2. mObservers[j] # <<>>
        <4>1. Len(<<>>) = 0 OBVIOUS
        <4> QED BY <3>1, <4>1
      <3>3. at # 0 /\ j <= at BY <1>4, <3>2
      <3>4. Ahead(mObservers, Up[mParent[at]], f, p[2])
        <4>1. CASE j = at
          <5>1. PICK l \in 1..Len(mObservers[at]) : mObservers[at][l] = p[2] BY <3>1, <4>1
          <5>2. 1 \in 1..l BY <5>1, <1>6, <1>9, <3>3
          <5> QED BY <1>9, <3>3, <5>1, <5>2 DEF Ahead
        <4>2. CASE j # at
          <5>1. j < at BY <1>1, <1>5, <1>9, <3>3, <4>2
          <5>2. j \in Up[mParent[at]] BY <1>1, <1>4, <3>3, <5>1, OnTheWay
          <5> QED BY <3>1, <5>2 DEF Ahead
        <4> QED BY <4>1, <4>2
      <3>5. /\ Len(stack) + 1 \in 1..Len(stack') /\ stack'[Len(stack) + 1] = f
            /\ f.n = p[1] /\ f.at = at
        BY <1>3, <1>8, <1>9, <1>10, <2>2, <3>3
      <3> QED BY <1>2, <3>4, <3>5 DEF ToldOf
    <2> QED BY <1>2, <2>1, <2>2
  <1>13. Listed' BY <1>1, <1>2, <1>3 DEF Listed, Item
  <1>14. owed' \subseteq Nat \X Observer BY <1>1, <1>2, <1>3, <1>8
  <1> QED BY <1>10, <1>11, <1>12, <1>13, <1>14, TellFramed

LEMMA ReturnTell ==
  ASSUME IInv, TreeInv, TellInv, IInv', TreeInv', made <= made',
         \A j \in 1..made : mParent'[j] = mParent[j], Return
  PROVE  TellInv'
PROOF
  <1> DEFINE top == stack[Len(stack)]
             s == mObservers[top.at]
             next == Place(top.o, top.at) + 1
             at == Climb(mParent[top.at])
             on == [top EXCEPT !.o = s[next]]
             up == [top EXCEPT !.at = at, !.o = mObservers[at][1]]
  <1>1. /\ made \in 0..MaxItems /\ made' \in 0..MaxItems /\ MaxItems \in Nat /\ Ordered
        /\ 1..made \subseteq Item
    BY OrderedNow, JsonDbAssumption DEF JsonDbAssumption, IInv, Shapes, Item
  <1>2. /\ stack # <<>> /\ owed' = owed \ {<<top.n, top.o>>} /\ mObservers' = mObservers
        /\ stack' = IF next <= Len(s) THEN [stack EXCEPT ![Len(stack)].o = s[next]]
                    ELSE IF at # 0
                      THEN [stack EXCEPT ![Len(stack)] = [@ EXCEPT !.at = at, !.o = mObservers[at][1]]]
                    ELSE S!Front(stack)
    <2>1. top.o \in S!ToSet(s)
      <3>1. stack # <<>> /\ stack \in Seq(Frame) BY DEF Return, TellInv
      <3>2. Len(stack) \in 1..Len(stack) /\ top \in Frame
        <4> HIDE DEF Frame
        <4> QED BY <3>1
      <3>3. Watching(mObservers, top) /\ Listed BY <3>2 DEF TellInv
      <3>4. s \in Seq(Observer) BY <3>2, <3>3 DEF Listed, Frame
      <3> QED BY <3>3, <3>4 DEF Watching, S!ToSet
    <2> QED BY <2>1 DEF Return
  <1>3. /\ Listed /\ stack \in Seq(Frame) /\ Len(stack) \in Nat
        /\ \A k \in 1..Len(stack) : Watching(mObservers, stack[k])
        /\ owed \subseteq Nat \X Observer
        /\ \A p \in owed : ToldOf(mObservers, stack, p)
    BY DEF TellInv
  <1>4. Len(stack) \in 1..Len(stack) /\ top \in Frame
    <2> HIDE DEF Frame
    <2> QED BY <1>2, <1>3
  <1>5. Watching(mObservers, top) BY <1>3, <1>4
  <1>6. top.at \in Item /\ top.at \in 1..made /\ top.n \in Nat /\ top.o \in Observer
    BY <1>1, <1>4, <1>5 DEF Frame, Watching, Item
  <1>7. mParent[top.at] \in 0..MaxItems /\ mParent[top.at] < top.at BY <1>1, <1>6 DEF Ordered
  <1>8. PICK here \in 1..Len(s) : s[here] = top.o BY <1>5 DEF Watching
  <1>9. next = here + 1 /\ \A m \in 1..Len(s) : s[m] = top.o => m = here
    BY <1>3, <1>6, <1>8, PlaceIs
  <1>10. /\ at = 0 => \A j \in Up[mParent[top.at]] : mObservers[j] = <<>>
         /\ at # 0 =>
              /\ at \in Up[mParent[top.at]] /\ at \in 1..mParent[top.at] /\ mObservers[at] # <<>>
              /\ \A j \in Up[mParent[top.at]] : mObservers[j] # <<>> => j <= at
    BY <1>1, <1>3, <1>7, ClimbIs
  <1>11. \A j \in Item : mObservers[j] \in Seq(Observer) BY <1>3 DEF Listed
  <1>12. s \in Seq(Observer) /\ Len(s) \in Nat BY <1>6, <1>11
  <1>13. top = [n |-> top.n, at |-> top.at, o |-> top.o] BY <1>4 DEF Frame
  <1>14. next <= Len(s) =>
           /\ on \in Frame /\ on.n = top.n /\ on.at = top.at /\ on.o = s[next]
           /\ next \in 1..Len(s)
    <2> SUFFICES ASSUME next <= Len(s)
                 PROVE  /\ on \in Frame /\ on.n = top.n /\ on.at = top.at /\ on.o = s[next]
                        /\ next \in 1..Len(s)
      OBVIOUS
    <2>1. next \in 1..Len(s) BY <1>8, <1>9, <1>12
    <2>2. s[next] \in Observer BY <1>12, <2>1
    <2> HIDE DEF next, s, top
    <2> QED BY <1>6, <1>13, <2>1, <2>2 DEF Frame
  <1>15. at # 0 =>
           /\ up \in Frame /\ up.n = top.n /\ up.at = at /\ up.o = mObservers[at][1]
           /\ at \in 1..made /\ at \in Item /\ 1 \in 1..Len(mObservers[at])
    <2> SUFFICES ASSUME at # 0
                 PROVE  /\ up \in Frame /\ up.n = top.n /\ up.at = at /\ up.o = mObservers[at][1]
                        /\ at \in 1..made /\ at \in Item /\ 1 \in 1..Len(mObservers[at])
      OBVIOUS
    <2> HIDE DEF at, top
    <2>1. at \in 1..made /\ at \in Item BY <1>1, <1>6, <1>7, <1>10
    <2>2. mObservers[at] \in Seq(Observer) /\ mObservers[at] # <<>> BY <1>10, <1>11, <2>1
    <2>3. 1 \in 1..Len(mObservers[at]) /\ mObservers[at][1] \in Observer BY <2>2
    <2> QED BY <1>6, <1>13, <2>1, <2>3 DEF Frame
  <1> DEFINE last == IF next <= Len(s) THEN on ELSE up
             gone == ~(next <= Len(s)) /\ at = 0
  <1>16. /\ stack' \in Seq(Frame)
         /\ \A k \in 1..(Len(stack) - 1) : k \in 1..Len(stack') /\ stack'[k] = stack[k]
         /\ gone => Len(stack') = Len(stack) - 1
         /\ ~gone => Len(stack') = Len(stack) /\ stack'[Len(stack)] = last
    <2>1. CASE next <= Len(s)
      <3>1. stack' = [stack EXCEPT ![Len(stack)] = on] BY <1>2, <2>1
      <3>2. on \in Frame BY <1>14, <2>1
      <3> HIDE DEF on, Frame, next, s, at
      <3> QED BY <1>3, <1>4, <2>1, <3>1, <3>2
    <2>2. CASE ~(next <= Len(s)) /\ at # 0
      <3>1. stack' = [stack EXCEPT ![Len(stack)] = up] BY <1>2, <2>2
      <3>2. up \in Frame BY <1>15, <2>2
      <3> HIDE DEF up, Frame, next, s, at
      <3> QED BY <1>3, <1>4, <2>2, <3>1, <3>2
    <2>3. CASE gone
      <3>1. stack' = SubSeq(stack, 1, Len(stack) - 1) BY <1>2, <2>3 DEF S!Front
      <3> DEFINE m == Len(stack) - 1
      <3>2. m \in Nat /\ m <= Len(stack) BY <1>3, <1>4
      <3>3. /\ SubSeq(stack, 1, m) \in Seq(Frame) /\ Len(SubSeq(stack, 1, m)) = m
            /\ \A k \in 1..m : SubSeq(stack, 1, m)[k] = stack[k]
        <4> HIDE DEF Frame, m
        <4> QED BY <1>3, <3>2
      <3> HIDE DEF Frame, gone, last
      <3> QED BY <2>3, <3>1, <3>2, <3>3
    <2> QED BY <2>1, <2>2, <2>3
  <1>17. ~gone => last \in Frame /\ last.n = top.n /\ Watching(mObservers, last)
    <2>1. CASE next <= Len(s)
      <3>1. last = on BY <2>1
      <3>2. Watching(mObservers, on) BY <1>1, <1>6, <1>14, <2>1, SMTT(60) DEF Watching
      <3> HIDE DEF on, last
      <3> QED BY <1>14, <2>1, <3>1, <3>2
    <2>2. CASE ~(next <= Len(s)) /\ at # 0
      <3>1. last = up BY <2>2
      <3>2. Watching(mObservers, up) BY <1>1, <1>15, <2>2, SMTT(60) DEF Watching
      <3> HIDE DEF up, last
      <3> QED BY <1>15, <2>2, <3>1, <3>2
    <2> QED BY <2>1, <2>2
  \* Who comes after the one that returned comes not before the one told next.
  <1>18. ASSUME NEW q, q # top.o, Ahead(mObservers, Up[mParent[top.at]], top, q)
         PROVE  ~gone /\ Ahead(mObservers, Up[mParent[last.at]], last, q)
    <2>1. CASE \E l \in 1..Len(s) : s[l] = q /\ \E m \in 1..l : s[m] = top.o
      <3>1. PICK l \in 1..Len(s) : s[l] = q /\ \E m \in 1..l : s[m] = top.o BY <2>1
      <3>2. PICK m \in 1..l : s[m] = top.o BY <3>1
      <3>3. m \in 1..Len(s) BY <1>12, <3>1, <3>2
      <3>4. m = here /\ l # here BY <1>8, <1>9, <1>18, <3>1, <3>2, <3>3
      <3>5. next \in 1..l /\ next <= Len(s) BY <1>9, <1>12, <3>1, <3>2, <3>4
      <3>6. last = on /\ on.at = top.at /\ on.o = s[next] /\ ~gone BY <1>14, <3>5
      <3> HIDE DEF on, last, next, gone
      <3>7. \E x \in 1..l : s[x] = last.o BY <3>5, <3>6, SMTT(60)
      <3> QED BY <3>1, <3>6, <3>7 DEF Ahead
    <2>2. CASE \E j \in Up[mParent[top.at]] : \E l \in 1..Len(mObservers[j]) : mObservers[j][l] = q
      <3>1. PICK j \in Up[mParent[top.at]] :
              \E l \in 1..Len(mObservers[j]) : mObservers[j][l] = q
        BY <2>2
      <3>2. CASE next <= Len(s)
        <4>1. last = on /\ on.at = top.at /\ ~gone BY <1>14, <3>2
        <4> HIDE DEF on, last, next, gone
        <4> QED BY <3>1, <4>1 DEF Ahead
      <3>3. CASE ~(next <= Len(s))
        <4>1. mObservers[j] # <<>>
          <5>1. Len(<<>>) = 0 OBVIOUS
          <5> QED BY <3>1, <5>1
        <4>2. at # 0 /\ j <= at BY <1>10, <3>1, <4>1
        <4>3. last = up /\ up.at = at /\ up.o = mObservers[at][1] /\ ~gone
          BY <1>15, <3>3, <4>2
        <4>4. mParent[top.at] \in Item
          <5>1. mParent[top.at] # 0 BY <1>1, <1>7, <1>10, <4>2
          <5> QED BY <1>1, <1>7, <5>1 DEF Item
        <4>5. Up[mParent[top.at]] \subseteq 1..mParent[top.at] BY <1>1, <4>4, UpWithin
        <4> HIDE DEF up, last, next, gone
        <4>6. CASE j = at
          <5>1. PICK l \in 1..Len(mObservers[at]) : mObservers[at][l] = q BY <3>1, <4>6
          <5>2. 1 \in 1..l BY <1>11, <1>15, <4>2, <5>1, SMTT(60)
          <5> QED BY <4>3, <5>1, <5>2 DEF Ahead
        <4>7. CASE j # at
          <5>1. j < at BY <1>1, <1>15, <3>1, <4>2, <4>5, <4>7
          <5>2. j \in Up[mParent[at]] BY <1>1, <1>10, <3>1, <4>2, <4>4, <5>1, OnTheWay
          <5> QED BY <3>1, <4>3, <5>2 DEF Ahead
        <4> QED BY <4>3, <4>6, <4>7
      <3> QED BY <3>2, <3>3
    <2> QED BY <1>18, <2>1, <2>2 DEF Ahead
  <1> HIDE DEF last, gone, top
  <1>19. \A k \in 1..Len(stack') : Watching(mObservers', stack'[k])
    <2> TAKE k \in 1..Len(stack')
    <2>1. CASE k \in 1..(Len(stack) - 1)
      <3>1. k \in 1..Len(stack) BY <1>3, <2>1
      <3> QED BY <1>2, <1>3, <1>16, <2>1, <3>1
    <2>2. CASE k \notin 1..(Len(stack) - 1)
      <3>1. ~gone /\ k = Len(stack) BY <1>3, <1>4, <1>16, <2>2
      <3> QED BY <1>2, <1>16, <1>17, <3>1
    <2> QED BY <2>1, <2>2
  <1>20. ASSUME NEW p \in owed' PROVE ToldOf(mObservers', stack', p)
    <2>1. p \in owed /\ p # <<top.n, top.o>> /\ p = <<p[1], p[2]>> BY <1>2, <1>3
    <2>2. PICK k \in 1..Len(stack) :
            stack[k].n = p[1] /\ Ahead(mObservers, Up[mParent[stack[k].at]], stack[k], p[2])
      BY <1>3, <2>1 DEF ToldOf
    <2>3. CASE k # Len(stack)
      <3>1. k \in 1..(Len(stack) - 1) BY <1>3, <2>2, <2>3
      <3> QED BY <1>2, <1>16, <2>2, <3>1 DEF ToldOf
    <2>4. CASE k = Len(stack)
      <3>1. top.n = p[1] /\ Ahead(mObservers, Up[mParent[top.at]], top, p[2])
        BY <2>2, <2>4 DEF top
      <3>2. p[2] # top.o BY <2>1, <3>1
      <3>3. ~gone /\ Ahead(mObservers, Up[mParent[last.at]], last, p[2]) BY <1>18, <3>1, <3>2
      <3>4. Len(stack) \in 1..Len(stack') /\ stack'[Len(stack)] = last /\ last.n = p[1]
        BY <1>4, <1>16, <1>17, <3>1, <3>3
      <3> QED BY <1>2, <3>3, <3>4 DEF ToldOf
    <2> QED BY <2>3, <2>4
  <1>21. Listed' BY <1>1, <1>2, <1>3 DEF Listed, Item
  <1>22. owed' \subseteq Nat \X Observer BY <1>2, <1>3
  <1> QED BY <1>16, <1>19, <1>20, <1>21, <1>22, TellFramed

LEMMA AddTell ==
  ASSUME IInv, TreeInv, TellInv, IInv', TreeInv', made <= made',
         \A j \in 1..made : mParent'[j] = mParent[j],
         NEW i \in Item, NEW o \in Observer, addObserver(i, o)
  PROVE  TellInv'
PROOF
  <1> DEFINE w == mObservers
             v == mObservers'
  <1>1. /\ made \in 0..MaxItems /\ made' \in 0..MaxItems /\ MaxItems \in Nat
        /\ i \in alive /\ i \in 1..made
    BY JsonDbAssumption DEF JsonDbAssumption, IInv, Shapes, addObserver
  <1>2. /\ ~Observed(o) /\ v = [w EXCEPT ![i] = Append(@, o)]
        /\ stack' = stack /\ owed' = owed
    BY DEF addObserver, MayObserve
  <1>3. /\ w \in [Item -> Seq(Observer)] /\ OneList(w)
        /\ \A j \in Item : j > made => w[j] = <<>>
    BY DEF TellInv, Listed
  <1>4. \A j \in Item : w[j] \in Seq(Observer) /\ Len(w[j]) \in Nat BY <1>3
  <1>5. \A j \in Item : \A k \in 1..Len(w[j]) : w[j][k] # o
    <2> TAKE j \in Item
    <2> TAKE k \in 1..Len(w[j])
    <2>1. w[j][k] \in S!ToSet(w[j]) BY <1>4 DEF S!ToSet
    <2> QED BY <1>2, <2>1 DEF Observed
  <1>6. /\ v \in [Item -> Seq(Observer)] /\ v[i] = Append(w[i], o)
        /\ \A j \in Item : j # i => v[j] = w[j]
    BY <1>2, <1>3
  <1>7. /\ Len(v[i]) = Len(w[i]) + 1 /\ v[i][Len(w[i]) + 1] = o
        /\ \A k \in 1..Len(w[i]) : v[i][k] = w[i][k]
    BY <1>4, <1>6
  <1>8. ASSUME NEW j \in Item
        PROVE  /\ \A k \in 1..Len(w[j]) : k \in 1..Len(v[j]) /\ v[j][k] = w[j][k]
               /\ \A k \in 1..Len(v[j]) :
                    \/ k \in 1..Len(w[j])
                    \/ j = i /\ k = Len(w[i]) + 1 /\ v[j][k] = o
    BY <1>4, <1>6, <1>7, SMTT(60)
  <1> HIDE DEF v, w
  <1>9. OneList(v)
    <2> SUFFICES ASSUME NEW j \in Item, NEW l \in Item, NEW a \in 1..Len(v[j]),
                        NEW b \in 1..Len(v[l]), v[j][a] = v[l][b]
                 PROVE  j = l /\ a = b
      BY DEF OneList
    <2>1. CASE a \in 1..Len(w[j]) /\ b \in 1..Len(w[l])
      <3>1. w[j][a] = w[l][b] BY <1>8, <2>1
      <3> QED BY <1>3, <2>1, <3>1 DEF OneList
    <2>2. CASE a \in 1..Len(w[j]) /\ b \notin 1..Len(w[l]) BY <1>5, <1>8, <2>2
    <2>3. CASE a \notin 1..Len(w[j]) /\ b \in 1..Len(w[l])
      <3>1. v[j][a] = o BY <1>8, <2>3
      <3>2. v[l][b] = w[l][b] BY <1>8, <2>3
      <3> QED BY <1>5, <2>3, <3>1, <3>2
    <2>4. CASE a \notin 1..Len(w[j]) /\ b \notin 1..Len(w[l]) BY <1>8, <2>4
    <2> QED BY <2>1, <2>2, <2>3, <2>4
  <1>10. Listed'
    <2>1. \A j \in Item : j > made' => v[j] = <<>> BY <1>1, <1>3, <1>6 DEF Item
    <2> QED BY <1>6, <1>9, <2>1 DEF Listed, v
  <1>11. /\ stack \in Seq(Frame) /\ \A k \in 1..Len(stack) : Watching(w, stack[k])
         /\ owed \subseteq Nat \X Observer /\ \A p \in owed : ToldOf(w, stack, p)
    BY DEF TellInv, w
  <1>12. \A k \in 1..Len(stack) : stack[k] \in Frame
    <2> HIDE DEF Frame
    <2> QED BY <1>11
  <1>13. \A k \in 1..Len(stack) : stack[k].at \in Item BY <1>12 DEF Frame
  <1>14. \A k \in 1..Len(stack) : Watching(v, stack[k])
    BY <1>8, <1>11, <1>13 DEF Watching
  <1>15. ASSUME NEW k \in 1..Len(stack), NEW q,
                Ahead(w, Up[mParent[stack[k].at]], stack[k], q)
         PROVE  Ahead(v, Up[mParent[stack[k].at]], stack[k], q)
    <2> DEFINE at == stack[k].at
               up == Up[mParent[at]]
    <2>1. at \in Item /\ Ordered BY <1>13, OrderedNow
    <2>2. mParent[at] \in 0..MaxItems BY <2>1 DEF Ordered
    <2>3. up \subseteq Item
      <3>1. CASE mParent[at] = 0
        <4>1. up = {} BY <2>1, <2>2, <3>1, UpDef
        <4> QED BY <4>1
      <3>2. CASE mParent[at] # 0
        <4>1. mParent[at] \in Item BY <1>1, <2>2, <3>2 DEF Item
        <4> QED BY <2>1, <4>1, UpWithin
      <3> QED BY <3>1, <3>2
    <2>4. CASE \E l \in 1..Len(w[at]) : w[at][l] = q /\ \E m \in 1..l : w[at][m] = stack[k].o
      <3>1. PICK l \in 1..Len(w[at]) : w[at][l] = q /\ \E m \in 1..l : w[at][m] = stack[k].o
        BY <2>4
      <3>2. PICK m \in 1..l : w[at][m] = stack[k].o BY <3>1
      <3>3. m \in 1..Len(w[at]) BY <1>4, <2>1, <3>1, <3>2
      <3>4. l \in 1..Len(v[at]) /\ v[at][l] = q /\ v[at][m] = stack[k].o
        BY <1>8, <2>1, <3>1, <3>2, <3>3
      <3> QED BY <3>2, <3>4 DEF Ahead
    <2>5. CASE \E j \in up : \E l \in 1..Len(w[j]) : w[j][l] = q
      <3>1. PICK j \in up : \E l \in 1..Len(w[j]) : w[j][l] = q BY <2>5
      <3>2. \E l \in 1..Len(v[j]) : v[j][l] = q BY <1>8, <2>3, <3>1
      <3> QED BY <3>1, <3>2 DEF Ahead
    <2> QED BY <1>15, <2>4, <2>5 DEF Ahead
  <1>16. \A p \in owed : ToldOf(v, stack, p) BY <1>11, <1>15 DEF ToldOf
  <1>17. /\ stack' \in Seq(Frame) /\ owed' \subseteq Nat \X Observer
         /\ \A k \in 1..Len(stack') : Watching(mObservers', stack'[k])
         /\ \A p \in owed' : ToldOf(mObservers', stack', p)
    BY <1>2, <1>11, <1>14, <1>16 DEF v
  <1> QED BY <1>10, <1>17, TellFramed

LEMMA RemoveTell ==
  ASSUME IInv, TreeInv, TellInv, IInv', TreeInv', made <= made',
         \A j \in 1..made : mParent'[j] = mParent[j],
         "remove" \notin Liberties,
         NEW i \in Item, NEW o \in Observer, removeObserver(i, o)
  PROVE  TellInv'
PROOF
  <1> DEFINE w == mObservers
             v == mObservers'
             here == Place(o, i)
             from(j, k) == IF j = i /\ k >= here THEN k + 1 ELSE k
             to(j, k) == IF j = i /\ k > here THEN k - 1 ELSE k
  <1>1. /\ made \in 0..MaxItems /\ made' \in 0..MaxItems /\ MaxItems \in Nat
        /\ i \in alive /\ i \in 1..made
    BY JsonDbAssumption DEF JsonDbAssumption, IInv, Shapes, removeObserver
  <1>2. /\ o \in S!ToSet(w[i]) /\ v = [w EXCEPT ![i] = S!RemoveAt(@, here)]
        /\ stack' = stack /\ owed' = {p \in owed : p[2] # o}
        /\ \A k \in DOMAIN stack : stack[k].o # o
    BY DEF removeObserver, MayRemove
  <1>3. /\ w \in [Item -> Seq(Observer)] /\ OneList(w) /\ Listed
        /\ \A j \in Item : j > made => w[j] = <<>>
    BY DEF TellInv, Listed
  <1>4. \A j \in Item : w[j] \in Seq(Observer) /\ Len(w[j]) \in Nat BY <1>3
  <1>5. PICK place \in 1..Len(w[i]) : w[i][place] = o BY <1>2, <1>4 DEF S!ToSet
  <1>6. /\ here \in 1..Len(w[i]) /\ w[i][here] = o
        /\ \A m \in 1..Len(w[i]) : w[i][m] = o => m = here
    BY <1>3, <1>5, PlaceIs
  <1> HIDE DEF here
  <1>7. LET r == S!RemoveAt(w[i], here)
        IN  /\ r \in Seq(Observer) /\ Len(r) = Len(w[i]) - 1
            /\ \A m \in 1..Len(r) : r[m] = w[i][IF m < here THEN m ELSE m + 1]
    BY <1>4, <1>6, RemoveAtIs
  <1>8. /\ v \in [Item -> Seq(Observer)] /\ v[i] = S!RemoveAt(w[i], here)
        /\ \A j \in Item : j # i => v[j] = w[j]
    BY <1>2, <1>3, <1>7
  <1>9. /\ Len(v[i]) = Len(w[i]) - 1
        /\ \A m \in 1..Len(v[i]) : v[i][m] = w[i][IF m < here THEN m ELSE m + 1]
    BY <1>7, <1>8
  <1> HIDE DEF v, w
  <1>10. ASSUME NEW j \in Item, NEW k \in 1..Len(v[j])
         PROVE  from(j, k) \in 1..Len(w[j]) /\ v[j][k] = w[j][from(j, k)]
    <2>1. CASE j = i BY <1>4, <1>6, <1>9, <2>1
    <2>2. CASE j # i BY <1>8, <2>2
    <2> QED BY <2>1, <2>2
  <1>11. ASSUME NEW j \in Item, NEW k \in 1..Len(w[j]), w[j][k] # o
         PROVE  to(j, k) \in 1..Len(v[j]) /\ v[j][to(j, k)] = w[j][k]
    <2>1. CASE j = i
      <3>1. k # here BY <1>6, <1>11, <2>1
      <3>2. Len(w[i]) \in Nat /\ here \in Nat /\ k \in Nat BY <1>4, <1>6
      <3>3. CASE k < here
        <4>1. to(j, k) = k /\ k \in 1..Len(v[i]) BY <1>6, <1>9, <2>1, <3>2, <3>3
        <4> QED BY <1>9, <2>1, <3>3, <4>1
      <3>4. CASE k > here
        <4>1. to(j, k) = k - 1 /\ k - 1 \in 1..Len(v[i]) /\ ~(k - 1 < here)
          BY <1>6, <1>9, <2>1, <3>2, <3>4
        <4>2. v[i][k - 1] = w[i][k - 1 + 1] BY <1>9, <4>1
        <4> QED BY <2>1, <3>2, <4>1, <4>2
      <3> QED BY <3>1, <3>2, <3>3, <3>4
    <2>2. CASE j # i BY <1>8, <2>2
    <2> QED BY <2>1, <2>2
  <1>12. \A j \in Item : \A k, l \in Nat : from(j, k) = from(j, l) => k = l
    BY <1>4, <1>6
  <1>13. \A j \in Item : \A k, l \in Nat : k <= l /\ (j = i => k # here) => to(j, k) <= to(j, l)
    BY <1>4, <1>6
  <1> HIDE DEF from
  <1>14. OneList(v)
    <2> SUFFICES ASSUME NEW j \in Item, NEW g \in Item, NEW a \in 1..Len(v[j]),
                        NEW b \in 1..Len(v[g]), v[j][a] = v[g][b]
                 PROVE  j = g /\ a = b
      BY DEF OneList
    <2>1. /\ from(j, a) \in 1..Len(w[j]) /\ from(g, b) \in 1..Len(w[g])
          /\ w[j][from(j, a)] = w[g][from(g, b)]
      BY <1>10
    <2>2. PICK x \in 1..Len(w[j]) : x = from(j, a) BY <2>1
    <2>3. PICK y \in 1..Len(w[g]) : y = from(g, b) BY <2>1
    <2>4. w[j][x] = w[g][y] BY <2>1, <2>2, <2>3
    <2>5. j = g /\ x = y
      <3>1. \A m, n \in Item : \A c \in 1..Len(w[m]), d \in 1..Len(w[n]) :
              w[m][c] = w[n][d] => m = n /\ c = d
        BY <1>3 DEF OneList
      <3> HIDE DEF to
      <3> QED BY <2>4, <3>1
    <2>6. a \in Nat /\ b \in Nat OBVIOUS
    <2> QED BY <1>12, <2>2, <2>3, <2>5, <2>6
  <1>15. Listed'
    <2>1. ASSUME NEW j \in Item, j > made' PROVE v[j] = <<>>
      <3>1. j # i /\ j > made BY <1>1, <2>1 DEF Item
      <3> QED BY <1>3, <1>8, <3>1
    <2> QED BY <1>8, <1>14, <2>1 DEF Listed, v
  <1>16. /\ stack \in Seq(Frame) /\ \A k \in 1..Len(stack) : Watching(w, stack[k])
         /\ owed \subseteq Nat \X Observer /\ \A p \in owed : ToldOf(w, stack, p)
    BY DEF TellInv, w
  <1>17. ASSUME NEW k \in 1..Len(stack) PROVE stack[k].at \in Item /\ stack[k].o # o
    <2>1. stack[k] \in Frame
      <3> HIDE DEF Frame
      <3> QED BY <1>16
    <2>2. k \in DOMAIN stack BY <1>16
    <2> QED BY <1>2, <2>1, <2>2 DEF Frame
  <1>18. ASSUME NEW k \in 1..Len(stack) PROVE Watching(v, stack[k])
    <2>1. PICK l \in 1..Len(w[stack[k].at]) : w[stack[k].at][l] = stack[k].o
      BY <1>16 DEF Watching
    <2>2. w[stack[k].at][l] # o BY <1>17, <2>1
    <2>3. to(stack[k].at, l) \in 1..Len(v[stack[k].at])
          /\ v[stack[k].at][to(stack[k].at, l)] = stack[k].o
      BY <1>11, <1>17, <2>1, <2>2
    <2> HIDE DEF to
    <2> QED BY <1>16, <2>3 DEF Watching
  <1>19. ASSUME NEW k \in 1..Len(stack), NEW q, q # o,
                Ahead(w, Up[mParent[stack[k].at]], stack[k], q)
         PROVE  Ahead(v, Up[mParent[stack[k].at]], stack[k], q)
    <2> DEFINE at == stack[k].at
               up == Up[mParent[at]]
    <2>1. at \in Item /\ Ordered /\ stack[k].o # o BY <1>17, OrderedNow
    <2>2. mParent[at] \in 0..MaxItems BY <2>1 DEF Ordered
    <2>3. up \subseteq Item
      <3>1. CASE mParent[at] = 0
        <4>1. up = {} BY <2>1, <2>2, <3>1, UpDef
        <4> QED BY <4>1
      <3>2. CASE mParent[at] # 0
        <4>1. mParent[at] \in Item BY <1>1, <2>2, <3>2 DEF Item
        <4> QED BY <2>1, <4>1, UpWithin
      <3> QED BY <3>1, <3>2
    <2> HIDE DEF up, at
    <2>4. CASE \E l \in 1..Len(w[at]) : w[at][l] = q /\ \E m \in 1..l : w[at][m] = stack[k].o
      <3>1. PICK l \in 1..Len(w[at]) : w[at][l] = q /\ \E m \in 1..l : w[at][m] = stack[k].o
        BY <2>4
      <3>2. PICK m \in 1..l : w[at][m] = stack[k].o BY <3>1
      <3>3. m \in 1..Len(w[at]) /\ m \in Nat /\ l \in Nat /\ m <= l /\ m >= 1
        BY <1>4, <2>1, <3>1, <3>2
      <3>4. /\ to(at, l) \in 1..Len(v[at]) /\ v[at][to(at, l)] = q
            /\ to(at, m) \in 1..Len(v[at]) /\ v[at][to(at, m)] = stack[k].o
        BY <1>11, <1>19, <2>1, <3>1, <3>2, <3>3
      <3>5. to(at, m) <= to(at, l)
        <4>1. at = i => m # here BY <1>6, <2>1, <3>2
        <4> HIDE DEF to
        <4> QED BY <1>13, <2>1, <3>3, <4>1
      <3> HIDE DEF to
      <3>6. to(at, m) \in 1..to(at, l)
        <4>1. Len(v[at]) \in Nat BY <1>8, <2>1
        <4> QED BY <3>4, <3>5, <4>1
      <3> QED BY <3>4, <3>6 DEF Ahead, at
    <2>5. CASE \E j \in up : \E l \in 1..Len(w[j]) : w[j][l] = q
      <3>1. PICK j \in up : \E l \in 1..Len(w[j]) : w[j][l] = q BY <2>5
      <3>2. PICK l \in 1..Len(w[j]) : w[j][l] = q BY <3>1
      <3>3. to(j, l) \in 1..Len(v[j]) /\ v[j][to(j, l)] = q BY <1>11, <1>19, <2>3, <3>2
      <3> HIDE DEF to
      <3> QED BY <3>3 DEF Ahead, up, at
    <2> QED BY <1>19, <2>4, <2>5 DEF Ahead, up, at
  <1>20. ASSUME NEW p \in owed' PROVE ToldOf(v, stack, p)
    <2>1. p \in owed /\ p[2] # o BY <1>2
    <2>2. PICK k \in 1..Len(stack) :
            stack[k].n = p[1] /\ Ahead(w, Up[mParent[stack[k].at]], stack[k], p[2])
      BY <1>16, <2>1 DEF ToldOf
    <2>3. Ahead(v, Up[mParent[stack[k].at]], stack[k], p[2]) BY <1>19, <2>1, <2>2
    <2> QED BY <2>2, <2>3 DEF ToldOf
  <1>21. /\ stack' \in Seq(Frame) /\ owed' \subseteq Nat \X Observer
         /\ \A k \in 1..Len(stack') : Watching(mObservers', stack'[k])
         /\ \A p \in owed' : ToldOf(mObservers', stack', p)
    BY <1>2, <1>16, <1>18, <1>20 DEF v
  <1> QED BY <1>15, <1>21, TellFramed

LEMMA TellInit ==
  Init => TellInv
PROOF
  <1> SUFFICES ASSUME Init PROVE TellInv OBVIOUS
  <1>1. mObservers \in [Item -> Seq(Observer)] /\ \A i \in Item : mObservers[i] = <<>>
    BY DEF Init
  <1>2. OneList(mObservers) BY <1>1 DEF OneList
  <1>3. stack = <<>> /\ owed = {} BY DEF Init
  <1> QED BY <1>1, <1>2, <1>3 DEF TellInv, Listed

LEMMA TellStep ==
  ASSUME "remove" \notin Liberties,
         IInv, TreeInv, TellInv, IInv', TreeInv', Next
  PROVE  TellInv'
PROOF
  <1>1. made <= made' /\ \A j \in 1..made : mParent'[j] = mParent[j] BY KeptMade
  <1>2. ASSUME NEW i \in Item, MayChange(i), Notify(i) PROVE TellInv'
    <2>1. i \in 1..made BY <1>2 DEF MayChange, IInv, Shapes
    <2> QED BY <1>1, <1>2, <2>1, NotifyTell
  <1>3. ASSUME UNCHANGED <<mObservers, stack, owed>> PROVE TellInv' BY <1>1, <1>3, TellSame
  <1>4. CASE Return BY <1>1, <1>4, ReturnTell
  <1>5. ASSUME NEW i \in Item, NEW o \in Observer, addObserver(i, o) \/ removeObserver(i, o)
        PROVE  TellInv'
    BY <1>1, <1>5, AddTell, RemoveTell
  <1>6. ASSUME NEW name \in RootName, createRoot(name) \/ deleteRoot(name) PROVE TellInv'
    BY <1>3, <1>6 DEF createRoot, deleteRoot, telling
  <1>7. CASE Destroy BY <1>3, <1>7 DEF Destroy, telling
  <1>8. ASSUME NEW i \in Item, NEW depth \in 0..SendDepth, send(i, depth) PROVE TellInv'
    BY <1>3, <1>8 DEF send, telling
  <1>9. ASSUME NEW i \in Item, NEW name \in Name, unset(i, name) \/ asString(i, name)
        PROVE  TellInv'
    BY <1>2, <1>3, <1>9 DEF unset, asString, telling
  <1>10. ASSUME NEW i \in Item, NEW name \in Name, NEW s \in Scalar, setScalar(i, name, s)
         PROVE  TellInv'
    BY <1>2, <1>10 DEF setScalar, Put
  <1>11. ASSUME NEW i \in Item, NEW name \in Name, NEW type \in Container,
                setContainer(i, name, type)
         PROVE  TellInv'
    BY <1>2, <1>11 DEF setContainer, Put
  <1>12. ASSUME NEW i \in Item, NEW s \in Scalar, appendScalar(i, s) PROVE TellInv'
    BY <1>2, <1>12 DEF appendScalar, Attach
  <1>13. ASSUME NEW i \in Item, NEW type \in Container, appendContainer(i, type)
         PROVE  TellInv'
    BY <1>2, <1>13 DEF appendContainer, Attach
  <1>14. ASSUME NEW i \in Item, NEW index \in 0..MaxChanges, remove(i, index) PROVE TellInv'
    BY <1>2, <1>14 DEF remove
  <1> QED
    BY <1>4, <1>5, <1>6, <1>7, <1>8, <1>9, <1>10, <1>11, <1>12, <1>13, <1>14 DEF Next

LEMMA TellInductive ==
  ASSUME "remove" \notin Liberties PROVE Spec => [](IInv /\ TreeInv /\ TellInv)
PROOF
  <1>1. IInv /\ TreeInv /\ TellInv /\ IInv' /\ TreeInv' /\ [Next]_vars => TellInv'
    <2> SUFFICES ASSUME IInv, TreeInv, TellInv, IInv', TreeInv', [Next]_vars
                 PROVE  TellInv'
      OBVIOUS
    <2>1. CASE Next BY <2>1, TellStep
    <2>2. CASE UNCHANGED vars
      <3>1. UNCHANGED <<made, mParent, mObservers, stack, owed>>
        BY <2>2 DEF vars, tree, telling
      <3>2. made \in Nat BY DEF IInv, Shapes
      <3>3. made <= made' /\ \A j \in 1..made : mParent'[j] = mParent[j] BY <3>1, <3>2
      <3> QED BY <3>1, <3>3, TellSame
    <2> QED BY <2>1, <2>2
  <1> QED BY TreeInductive, TellInit, <1>1, PTL DEF Spec

\* Whoever is to be told of a change is still ahead of a notification under
\* way, whatever those that are told do to the tree, and if they remove no
\* observer that is being told (jsonitem.cpp:38-82).
THEOREM NoObserverForgotten ==
  ASSUME "remove" \notin Liberties PROVE Spec => []NoneForgotten
PROOF
  <1>1. IInv /\ TreeInv /\ TellInv => NoneForgotten
    <2> SUFFICES ASSUME IInv, TreeInv, TellInv, NEW p \in owed
                 PROVE  \E k \in DOMAIN stack :
                          /\ stack[k].n = p[1]
                          /\ stack[k].o \in S!ToSet(mObservers[stack[k].at])
                          /\ \/ \E l \in DOMAIN mObservers[stack[k].at] :
                                  l >= Place(stack[k].o, stack[k].at)
                                  /\ mObservers[stack[k].at][l] = p[2]
                             \/ \E j \in Up[mParent[stack[k].at]] :
                                  p[2] \in S!ToSet(mObservers[j])
      BY DEF NoneForgotten
    <2>1. PICK k \in 1..Len(stack) :
            stack[k].n = p[1] /\ Ahead(mObservers, Up[mParent[stack[k].at]], stack[k], p[2])
      BY DEF TellInv, ToldOf
    <2> DEFINE at == stack[k].at
               o == stack[k].o
               s == mObservers[at]
    <2>2. /\ stack \in Seq(Frame) /\ Listed /\ Ordered /\ MaxItems \in Nat
          /\ mObservers \in [Item -> Seq(Observer)]
      BY OrderedNow, JsonDbAssumption DEF JsonDbAssumption, TellInv, Listed
    <2>3. k \in DOMAIN stack BY <2>2
    <2>4. at \in Item
      <3>1. stack[k] \in Frame
        <4> HIDE DEF Frame
        <4> QED BY <2>2
      <3> QED BY <3>1 DEF Frame
    <2>5. s \in Seq(Observer) /\ DOMAIN s = 1..Len(s) /\ Len(s) \in Nat BY <2>2, <2>4
    <2>8. o \in S!ToSet(s)
      <3>1. Watching(mObservers, stack[k]) BY <2>1 DEF TellInv
      <3> QED BY <2>5, <3>1 DEF Watching, S!ToSet
    <2>6. CASE \E l \in 1..Len(s) : s[l] = p[2] /\ \E m \in 1..l : s[m] = o
      <3>1. PICK l \in 1..Len(s) : s[l] = p[2] /\ \E m \in 1..l : s[m] = o BY <2>6
      <3>2. PICK m \in 1..l : s[m] = o BY <3>1
      <3>3. m \in 1..Len(s) BY <2>5, <3>1, <3>2
      <3>4. Place(o, at) = m BY <2>2, <2>4, <3>2, <3>3, PlaceIs
      <3>5. l >= Place(o, at) BY <2>5, <3>1, <3>2, <3>4
      <3> QED BY <2>1, <2>3, <2>5, <2>8, <3>1, <3>5
    <2>7. CASE \E j \in Up[mParent[at]] :
                 \E l \in 1..Len(mObservers[j]) : mObservers[j][l] = p[2]
      <3>1. PICK j \in Up[mParent[at]] :
              \E l \in 1..Len(mObservers[j]) : mObservers[j][l] = p[2]
        BY <2>7
      <3>2. mParent[at] \in 0..MaxItems BY <2>2, <2>4 DEF Ordered
      <3>3. mParent[at] # 0
        <4>1. 0 \in 0..MaxItems BY <2>2
        <4>2. Up[0] = {} BY <2>2, <4>1, UpDef
        <4> QED BY <3>1, <4>2
      <3>4. mParent[at] \in Item BY <2>2, <3>2, <3>3 DEF Item
      <3>5. j \in Item BY <2>2, <3>1, <3>4, UpWithin
      <3>6. mObservers[j] \in Seq(Observer) BY <2>2, <3>5
      <3>7. p[2] \in S!ToSet(mObservers[j]) BY <3>1, <3>6 DEF S!ToSet
      <3> QED BY <2>1, <2>3, <2>8, <3>1, <3>7
    <2> QED BY <2>1, <2>6, <2>7 DEF Ahead
  <1> QED BY TellInductive, <1>1, PTL

-----------------------------------------------------------------------------
(* The tree of the JSON adapters, module JsonStore *)

\* No item is twice in a list.
NoneTwice(s) == \A k, l \in 1..Len(s) : s[k] = s[l] => k = l

In(items, o) == Seqs!ToSet(items[o])

Lists == [Object -> Seq(JsonItem)]

\* No item is in two lists or twice in one.
OnceListed(items) ==
  /\ \A o \in Object : NoneTwice(items[o])
  /\ \A o, p \in Object : o # p => In(items, o) \cap In(items, p) = {}

\* What is in a list is below the root, and not the root.
HeldByRoot(items) ==
  \A o \in Object : In(items, o) \subseteq Below(items, Root) \ {Root}

\* A set holds what is in the lists of its objects.
Holds(items, X) == \A o \in X \cap Object : In(items, o) \subseteq X

Message ==
  [type : {"get"}, path : Path]
    \cup [type : {"set"}, path : Path, text : Texts]
    \cup [type : {"add"}, path : Path, item : JsonItem \ {Root}]

StoreInv ==
  /\ mItems \in Lists /\ queue \in Seq(Message)
  /\ OnceListed(mItems) /\ HeldByRoot(mItems)
  /\ \A o \in Object : In(firstItems, o) \subseteq Below(mItems, Root)

LEMMA InIs ==
  ASSUME NEW items \in Lists, NEW o \in Object
  PROVE  /\ items[o] \in Seq(JsonItem) /\ Len(items[o]) \in Nat
         /\ In(items, o) = {items[o][k] : k \in 1..Len(items[o])}
         /\ In(items, o) \subseteq JsonItem
PROOF
  <1>1. items[o] \in Seq(JsonItem) BY DEF Lists
  <1>2. DOMAIN items[o] = 1..Len(items[o]) BY <1>1
  <1>3. In(items, o) = {items[o][k] : k \in 1..Len(items[o])} BY <1>2 DEF In, Seqs!ToSet
  <1>4. \A k \in 1..Len(items[o]) : items[o][k] \in JsonItem BY <1>1, ElementOfSeq
  <1> QED BY <1>1, <1>3, <1>4

\* A set that holds 0, and with a number the next one, holds all up to n.
LEMMA AllUpTo ==
  ASSUME NEW n \in Nat, NEW T, 0 \in T, \A k \in Nat : k < n /\ k \in T => k + 1 \in T
  PROVE  \A k \in 0..n : k \in T
PROOF
  <1> DEFINE missing == {k \in 0..n : k \notin T}
  <1>1. SUFFICES ASSUME missing # {} PROVE FALSE OBVIOUS
  <1>2. PICK x \in missing : \A y \in missing : x <= y
    <2>1. missing \in SUBSET Nat OBVIOUS
    <2> HIDE DEF missing
    <2> QED BY <1>1, <2>1, Least
  <1>3. x \in 1..n /\ x - 1 \in 0..n BY <1>2
  <1>4. x - 1 \in T BY <1>2, <1>3
  <1>5. x \in T BY <1>3, <1>4
  <1> QED BY <1>2, <1>5

\* f repeats a step, the k-th of n, from a base.
Repeats(f, n, base, step) == f[0] = base /\ \A k \in 1..n : f[k] = step[k][f[k - 1]]

\* A step can be repeated: the function that a recursion over the numbers up
\* to n defines exists.
LEMMA Repeated ==
  ASSUME NEW n \in Nat, NEW Point, NEW base \in Point, NEW step \in [1..n -> [Point -> Point]]
  PROVE  \E f \in [0..n -> Point] : Repeats(f, n, base, step)
PROOF
  <1> DEFINE Upto(m) == \E f \in [0..m -> Point] : Repeats(f, m, base, step)
             T == {m \in 0..n : Upto(m)}
  <1>1. 0 \in T
    <2> DEFINE f == [k \in 0..0 |-> base]
    <2>1. f \in [0..0 -> Point] /\ Repeats(f, 0, base, step) BY DEF Repeats
    <2> HIDE DEF f
    <2>2. Upto(0) BY <2>1
    <2> QED BY <2>2
  <1>2. ASSUME NEW m \in Nat, m < n, m \in T PROVE m + 1 \in T
    <2>1. PICK f \in [0..m -> Point] : Repeats(f, m, base, step) BY <1>2
    <2> DEFINE last == step[m + 1][f[m]]
               g == [k \in 0..(m + 1) |-> IF k = m + 1 THEN last ELSE f[k]]
    <2>2. last \in Point /\ last = step[m + 1][f[m]]
      <3>1. m + 1 \in 1..n /\ f[m] \in Point BY <1>2
      <3>2. step[m + 1] \in [Point -> Point] BY <3>1
      <3> QED BY <3>1, <3>2
    <2> HIDE DEF last
    <2>3. g \in [0..(m + 1) -> Point] BY <2>2
    <2>4. \A k \in 0..m : g[k] = f[k] OBVIOUS
    <2>5. g[m + 1] = last OBVIOUS
    <2> HIDE DEF g
    <2>6. ASSUME NEW k \in 1..(m + 1) PROVE g[k] = step[k][g[k - 1]]
      <3>1. CASE k = m + 1
        <4>1. k - 1 = m /\ m \in 0..m BY <3>1
        <4> QED BY <2>2, <2>4, <2>5, <3>1, <4>1
      <3>2. CASE k # m + 1
        <4>1. k \in 1..m /\ k \in 0..m /\ k - 1 \in 0..m BY <3>2
        <4> QED BY <2>1, <2>4, <4>1 DEF Repeats
      <3> QED BY <3>1, <3>2
    <2>7. g[0] = base BY <2>1, <2>4 DEF Repeats
    <2>8. Repeats(g, m + 1, base, step) BY <2>6, <2>7 DEF Repeats
    <2> QED BY <1>2, <2>3, <2>8
  <1>3. n \in T
    <2> HIDE DEF T
    <2>1. \A k \in 0..n : k \in T BY <1>1, <1>2, AllUpTo
    <2> QED BY <2>1
  <1> QED BY <1>3

\* A set with what is in the lists of its objects.
With(items, X) == X \cup UNION {In(items, o) : o \in X \cap Object}

\* The recursion of Below, unfolded.
LEMMA BelowDef ==
  ASSUME NEW items \in Lists, NEW object \in JsonItem
  PROVE  \E f \in [0..Cardinality(Object) -> SUBSET JsonItem] :
           /\ Cardinality(Object) \in Nat
           /\ f[0] = {object} /\ Below(items, object) = f[Cardinality(Object)]
           /\ \A k \in 1..Cardinality(Object) : f[k] = With(items, f[k - 1])
PROOF
  <1> DEFINE n == Cardinality(Object)
             below == CHOOSE f : f = [k \in 0..n |-> IF k = 0 THEN {object}
                        ELSE f[k - 1] \cup UNION {Seqs!ToSet(items[o]) : o \in f[k - 1] \cap Object}]
             step == [k \in 1..n |-> [X \in SUBSET JsonItem |-> With(items, X)]]
  <1>1. n \in Nat
    BY FirstTreeAssumption, FS_Subset, FS_CardinalityType DEF FirstTreeAssumption, Object
  <1>2. \A X \in SUBSET JsonItem : With(items, X) \in SUBSET JsonItem
    BY InIs DEF With
  <1>3. step \in [1..n -> [SUBSET JsonItem -> SUBSET JsonItem]] BY <1>2
  <1>4. \A k \in 1..n : \A X \in SUBSET JsonItem : step[k][X] = With(items, X) OBVIOUS
  <1>5. {object} \in SUBSET JsonItem OBVIOUS
  <1> HIDE DEF n, step
  <1>6. PICK f \in [0..n -> SUBSET JsonItem] : Repeats(f, n, {object}, step)
    BY <1>1, <1>3, <1>5, Repeated
  <1>7. \A k \in 1..n : k - 1 \in 0..n BY <1>1
  <1>8. f[0] = {object} /\ \A k \in 1..n : f[k] = With(items, f[k - 1])
    BY <1>4, <1>6, <1>7 DEF Repeats
  <1>9. ASSUME NEW k \in 0..n
        PROVE  f[k] = IF k = 0 THEN {object}
                      ELSE f[k - 1] \cup UNION {Seqs!ToSet(items[o]) : o \in f[k - 1] \cap Object}
    <2>1. CASE k = 0 BY <1>8, <2>1
    <2>2. CASE k # 0
      <3>1. k \in 1..n BY <1>1, <2>2
      <3> QED BY <1>8, <2>2, <3>1 DEF With, In
    <2> QED BY <2>1, <2>2
  <1>10. f = [k \in 0..n |-> IF k = 0 THEN {object}
                ELSE f[k - 1] \cup UNION {Seqs!ToSet(items[o]) : o \in f[k - 1] \cap Object}]
    BY <1>6, <1>9
  <1>11. below = [k \in 0..n |-> IF k = 0 THEN {object}
                ELSE below[k - 1] \cup UNION {Seqs!ToSet(items[o]) : o \in below[k - 1] \cap Object}]
    BY <1>10
  <1>12. Below(items, object) = below[n] BY DEF Below, n
  <1> DEFINE same == {k \in 0..n : below[k] = f[k]}
  <1>13. 0 \in 0..n /\ n \in 0..n BY <1>1
  <1> HIDE DEF below
  <1>14. 0 \in same
    <2>1. below[0] = {object} BY <1>11, <1>13
    <2> QED BY <1>8, <1>13, <2>1
  <1>15. ASSUME NEW k \in Nat, k < n, k \in same PROVE k + 1 \in same
    <2>1. k + 1 \in 0..n /\ k + 1 # 0 /\ (k + 1) - 1 = k BY <1>1, <1>15
    <2>2. below[k + 1] = below[k] \cup UNION {Seqs!ToSet(items[o]) : o \in below[k] \cap Object}
      BY <1>11, <2>1
    <2>3. f[k + 1] = f[k] \cup UNION {Seqs!ToSet(items[o]) : o \in f[k] \cap Object}
      BY <1>9, <2>1
    <2> QED BY <1>15, <2>1, <2>2, <2>3
  <1>16. below[n] = f[n]
    <2> HIDE DEF same
    <2>1. \A k \in 0..n : k \in same BY <1>1, <1>14, <1>15, AllUpTo
    <2> QED BY <1>13, <2>1 DEF same
  <1> QED BY <1>1, <1>6, <1>8, <1>12, <1>16 DEF n

\* An item and what is below it hold the lists of the objects among them.
LEMMA BelowHolds ==
  ASSUME NEW items \in Lists, NEW object \in JsonItem
  PROVE  /\ object \in Below(items, object) /\ Below(items, object) \subseteq JsonItem
         /\ Holds(items, Below(items, object))
PROOF
  <1> DEFINE n == Cardinality(Object)
  <1>1. PICK f \in [0..n -> SUBSET JsonItem] :
          /\ n \in Nat /\ f[0] = {object} /\ Below(items, object) = f[n]
          /\ \A k \in 1..n : f[k] = With(items, f[k - 1])
    BY BelowDef
  <1>2. IsFiniteSet(Object) BY FirstTreeAssumption, FS_Subset DEF FirstTreeAssumption, Object
  <1> HIDE DEF n
  <1> DEFINE T == {k \in 0..n : /\ object \in f[k]
                                /\ \/ Holds(items, f[k])
                                   \/ Cardinality(f[k] \cap Object) >= k + 1}
  <1>3. 0 \in T
    <2>1. 0 \in 0..n /\ object \in f[0] BY <1>1
    <2>2. CASE object \in Object
      <3>1. f[0] \cap Object = {object} BY <1>1, <2>2
      <3>2. Cardinality(f[0] \cap Object) = 1 BY <3>1, FS_Singleton
      <3> QED BY <2>1, <3>2
    <2>3. CASE object \notin Object
      <3>1. Holds(items, f[0]) BY <1>1, <2>3 DEF Holds
      <3> QED BY <2>1, <3>1
    <2> QED BY <2>2, <2>3
  <1>4. ASSUME NEW k \in Nat, k < n, k \in T PROVE k + 1 \in T
    <2>1. k + 1 \in 1..n /\ k + 1 \in 0..n /\ (k + 1) - 1 = k BY <1>1, <1>4
    <2>2. f[k + 1] = With(items, f[k]) BY <1>1, <2>1
    <2> DEFINE X == f[k]
               Y == f[k + 1]
    <2>3. Y = X \cup UNION {In(items, o) : o \in X \cap Object} BY <2>2 DEF With
    <2>4. object \in X /\ (Holds(items, X) \/ Cardinality(X \cap Object) >= k + 1) BY <1>4
    <2> HIDE DEF X, Y
    <2>5. object \in Y BY <2>3, <2>4
    <2>6. CASE Y \cap Object = X \cap Object
      <3>1. Holds(items, Y) BY <2>3, <2>6 DEF Holds
      <3> QED BY <2>1, <2>5, <3>1 DEF Y
    <2>7. CASE Y \cap Object # X \cap Object
      <3>1. ~Holds(items, X) BY <2>3, <2>7 DEF Holds
      <3>2. X \cap Object \subseteq Y \cap Object BY <2>3
      <3>3. IsFiniteSet(X \cap Object) /\ IsFiniteSet(Y \cap Object) BY <1>2, FS_Subset
      <3>4. Cardinality(X \cap Object) < Cardinality(Y \cap Object)
        <4>1. Cardinality(X \cap Object) \in Nat /\ Cardinality(Y \cap Object) \in Nat
          BY <3>3, FS_CardinalityType
        <4>2. /\ Cardinality(X \cap Object) <= Cardinality(Y \cap Object)
              /\ Cardinality(X \cap Object) # Cardinality(Y \cap Object)
          BY <2>7, <3>2, <3>3, FS_Subset
        <4> QED BY <4>1, <4>2
      <3>5. Cardinality(X \cap Object) \in Nat /\ Cardinality(Y \cap Object) \in Nat
        BY <3>3, FS_CardinalityType
      <3>6. Cardinality(Y \cap Object) >= (k + 1) + 1 BY <2>4, <3>1, <3>4, <3>5
      <3> QED BY <2>1, <2>5, <3>6 DEF Y
    <2> QED BY <2>6, <2>7
  <1>5. n \in T
    <2> HIDE DEF T
    <2>1. \A k \in 0..n : k \in T BY <1>1, <1>3, <1>4, AllUpTo
    <2> QED BY <1>1, <2>1
  <1>6. f[n] \in SUBSET JsonItem BY <1>1
  <1>7. ~(Cardinality(f[n] \cap Object) >= n + 1)
    <2>1. Cardinality(f[n] \cap Object) <= Cardinality(Object) BY <1>2, FS_Subset
    <2>2. Cardinality(f[n] \cap Object) \in Nat BY <1>2, FS_Subset, FS_CardinalityType
    <2> QED BY <1>1, <2>1, <2>2 DEF n
  <1> QED BY <1>1, <1>5, <1>6, <1>7

\* They are the fewest that do.
LEMMA BelowLeast ==
  ASSUME NEW items \in Lists, NEW object \in JsonItem,
         NEW X, object \in X, Holds(items, X)
  PROVE  Below(items, object) \subseteq X
PROOF
  <1> DEFINE n == Cardinality(Object)
  <1>1. PICK f \in [0..n -> SUBSET JsonItem] :
          /\ n \in Nat /\ f[0] = {object} /\ Below(items, object) = f[n]
          /\ \A k \in 1..n : f[k] = With(items, f[k - 1])
    BY BelowDef
  <1> HIDE DEF n
  <1> DEFINE T == {k \in 0..n : f[k] \subseteq X}
  <1>2. 0 \in T BY <1>1
  <1>3. ASSUME NEW k \in Nat, k < n, k \in T PROVE k + 1 \in T
    <2>1. k + 1 \in 1..n /\ k + 1 \in 0..n /\ (k + 1) - 1 = k BY <1>1, <1>3
    <2>2. f[k + 1] = With(items, f[k]) BY <1>1, <2>1
    <2>3. f[k] \subseteq X BY <1>3
    <2>4. f[k + 1] \subseteq X BY <2>2, <2>3 DEF With, Holds
    <2> QED BY <2>1, <2>4
  <1>4. n \in T
    <2> HIDE DEF T
    <2>1. \A k \in 0..n : k \in T BY <1>1, <1>2, <1>3, AllUpTo
    <2> QED BY <1>1, <2>1
  <1> QED BY <1>1, <1>4

\* What is below the root, other than it, is in a list.
LEMMA BelowListed ==
  ASSUME NEW items \in Lists, NEW i \in Below(items, Root) \ {Root}
  PROVE  \E o \in Object : i \in In(items, o)
PROOF
  <1> DEFINE B == Below(items, Root)
             X == {j \in B : j = Root \/ \E o \in Object : j \in In(items, o)}
  <1>1. Root \in JsonItem BY JsonStoreAssumption DEF JsonStoreAssumption, Object
  <1>2. Root \in B /\ Holds(items, B) BY <1>1, BelowHolds
  <1>3. Holds(items, X) BY <1>2 DEF Holds
  <1>4. Root \in X BY <1>2
  <1> HIDE DEF X
  <1>5. B \subseteq X BY <1>1, <1>3, <1>4, BelowLeast
  <1> QED BY <1>5 DEF X

-----------------------------------------------------------------------------
(* Trees *)

LEMMA PlacesAre ==
  ASSUME NEW items \in Lists, NEW i \in JsonItem
  PROVE  /\ IsFiniteSet(Places(items, i))
         /\ \A p : p \in Places(items, i) <=>
              \E o \in Object : \E k \in 1..Len(items[o]) : p = <<o, k>> /\ items[o][k] = i
PROOF
  <1> DEFINE At(o) == {o} \X {k \in DOMAIN items[o] : items[o][k] = i}
             Ats == {At(o) : o \in Object}
             at == [o \in Object |-> At(o)]
  <1>1. Places(items, i) = UNION Ats BY DEF Places
  <1>2. \A o \in Object : DOMAIN items[o] = 1..Len(items[o]) /\ Len(items[o]) \in Nat
    BY InIs
  <1>3. IsFiniteSet(Object) BY FirstTreeAssumption, FS_Subset DEF FirstTreeAssumption, Object
  <1>4. at \in Surjection(Object, Ats) BY DEF Surjection
  <1>5. IsFiniteSet(Ats)
    <2> HIDE DEF at, Ats
    <2> QED BY <1>3, <1>4, FS_Surjection
  <1>6. ASSUME NEW o \in Object PROVE IsFiniteSet(At(o))
    <2> DEFINE ks == {k \in DOMAIN items[o] : items[o][k] = i}
    <2>1. IsFiniteSet(1..Len(items[o])) BY <1>2, FS_Interval
    <2>2. ks \in SUBSET (1..Len(items[o])) BY <1>2
    <2> HIDE DEF ks
    <2>3. IsFiniteSet(ks) BY <2>1, <2>2, FS_Subset
    <2>4. IsFiniteSet({o}) BY FS_Singleton
    <2>5. IsFiniteSet({o} \X ks) BY <2>3, <2>4, FS_Product
    <2> QED BY <2>5 DEF ks
  <1>7. IsFiniteSet(UNION Ats)
    <2>1. \A s \in Ats : IsFiniteSet(s) BY <1>6
    <2> HIDE DEF Ats
    <2> QED BY <1>5, <2>1, FS_UNION
  <1>8. ASSUME NEW p
        PROVE  p \in UNION Ats <=>
                 \E o \in Object : \E k \in 1..Len(items[o]) : p = <<o, k>> /\ items[o][k] = i
    <2>1. p \in UNION Ats <=> \E o \in Object : p \in At(o) OBVIOUS
    <2>2. \A o \in Object : p \in At(o) <=>
            \E k \in 1..Len(items[o]) : p = <<o, k>> /\ items[o][k] = i
      BY <1>2
    <2> QED BY <2>1, <2>2
  <1> QED BY <1>1, <1>7, <1>8

\* The lists make a tree if no item is listed twice and what is listed is
\* below the root.
LEMMA TreeIs ==
  ASSUME NEW items \in Lists
  PROVE  IsTree(items) <=> OnceListed(items) /\ HeldByRoot(items)
PROOF
  <1> DEFINE B == Below(items, Root) \ {Root}
             At(o, k, i) == o \in Object /\ k \in 1..Len(items[o]) /\ items[o][k] = i
  <1>0. Root \in JsonItem BY JsonStoreAssumption DEF JsonStoreAssumption, Object
  <1>1. \A o \in Object : /\ In(items, o) = {items[o][k] : k \in 1..Len(items[o])}
                          /\ In(items, o) \subseteq JsonItem
    BY InIs
  <1>2. IsTree(items) <=> \A i \in JsonItem : Cardinality(Places(items, i)) = IF i \in B THEN 1 ELSE 0
    BY DEF IsTree
  <1>3. B \subseteq JsonItem BY <1>0, BelowHolds
  <1> HIDE DEF B
  <1>4. ASSUME IsTree(items) PROVE OnceListed(items) /\ HeldByRoot(items)
    <2>1. ASSUME NEW i \in JsonItem, NEW o, NEW k, At(o, k, i), NEW p, NEW l, At(p, l, i)
          PROVE  i \in B /\ o = p /\ k = l
      <3>1. <<o, k>> \in Places(items, i) /\ <<p, l>> \in Places(items, i)
        BY <2>1, PlacesAre
      <3>2. IsFiniteSet(Places(items, i)) BY PlacesAre
      <3>3. Cardinality(Places(items, i)) # 0 BY <3>1, <3>2, FS_EmptySet
      <3>4. i \in B /\ Cardinality(Places(items, i)) = 1 BY <1>2, <1>4, <3>3
      <3>5. PICK x : Places(items, i) = {x} BY <3>2, <3>4, FS_Singleton
      <3>6. <<o, k>> = <<p, l>> BY <3>1, <3>5
      <3> QED BY <3>4, <3>6
    <2>2. ASSUME NEW o \in Object PROVE NoneTwice(items[o])
      <3>1. ASSUME NEW k \in 1..Len(items[o]), NEW l \in 1..Len(items[o]), items[o][k] = items[o][l]
            PROVE  k = l
        <4>1. items[o][k] \in JsonItem BY <1>1
        <4> QED BY <2>1, <3>1, <4>1
      <3> QED BY <3>1 DEF NoneTwice
    <2>3. ASSUME NEW o \in Object, NEW p \in Object, NEW i \in In(items, o), i \in In(items, p)
          PROVE  o = p
      <3>1. PICK k \in 1..Len(items[o]) : items[o][k] = i BY <1>1
      <3>2. PICK l \in 1..Len(items[p]) : items[p][l] = i BY <1>1, <2>3
      <3>3. i \in JsonItem BY <1>1
      <3> QED BY <2>1, <3>1, <3>2, <3>3
    <2>4. ASSUME NEW o \in Object, NEW i \in In(items, o) PROVE i \in B
      <3>1. PICK k \in 1..Len(items[o]) : items[o][k] = i BY <1>1
      <3>2. i \in JsonItem BY <1>1
      <3> QED BY <2>1, <3>1, <3>2
    <2>5. OnceListed(items) BY <2>2, <2>3 DEF OnceListed
    <2>6. HeldByRoot(items) BY <2>4 DEF HeldByRoot, B
    <2> QED BY <2>5, <2>6
  <1>5. ASSUME OnceListed(items), HeldByRoot(items) PROVE IsTree(items)
    <2>1. ASSUME NEW i \in JsonItem, i \in B PROVE Cardinality(Places(items, i)) = 1
      <3>1. PICK o \in Object : i \in In(items, o) BY <2>1, BelowListed DEF B
      <3>2. PICK k \in 1..Len(items[o]) : items[o][k] = i BY <1>1, <3>1
      <3>3. ASSUME NEW p \in Object, NEW l \in 1..Len(items[p]), items[p][l] = i
            PROVE  p = o /\ l = k
        <4>1. i \in In(items, p) BY <1>1, <3>3
        <4>2. p = o BY <1>5, <3>1, <4>1 DEF OnceListed
        <4> QED BY <1>5, <3>2, <3>3, <4>2 DEF OnceListed, NoneTwice
      <3>4. \A x : x \in Places(items, i) <=> x = <<o, k>> BY <3>2, <3>3, PlacesAre
      <3>5. Places(items, i) = {<<o, k>>} BY <3>4
      <3> QED BY <3>5, FS_Singleton
    <2>2. ASSUME NEW i \in JsonItem, i \notin B PROVE Cardinality(Places(items, i)) = 0
      <3>1. ASSUME NEW o \in Object, NEW k \in 1..Len(items[o]), items[o][k] = i PROVE FALSE
        <4>1. i \in In(items, o) BY <1>1, <3>1
        <4> QED BY <1>5, <2>2, <4>1 DEF HeldByRoot, B
      <3>2. Places(items, i) = {} BY <3>1, PlacesAre
      <3> QED BY <3>2, FS_EmptySet
    <2> QED BY <1>2, <2>1, <2>2
  <1> QED BY <1>4, <1>5

-----------------------------------------------------------------------------
(* Following a path *)

\* find() finds nothing, or an item of the object's list.
LEMMA FoundListed ==
  ASSUME NEW items \in Lists, NEW o \in Object, NEW token
  PROVE  find(items, o, token) \in In(items, o) \cup {None}
PROOF
  <1> DEFINE at == {k \in DOMAIN items[o] : mKey[items[o][k]] = token}
  <1>1. find(items, o, token) = IF at = {} THEN None
                                ELSE items[o][CHOOSE k \in at : \A l \in at : k <= l]
    BY DEF find
  <1>2. DOMAIN items[o] = 1..Len(items[o]) /\ Len(items[o]) \in Nat BY InIs
  <1>3. at \in SUBSET Nat /\ at \subseteq 1..Len(items[o]) BY <1>2
  <1> HIDE DEF at
  <1>4. CASE at # {}
    <2>1. \E k \in at : \A l \in at : k <= l BY <1>3, <1>4, Least
    <2>2. (CHOOSE k \in at : \A l \in at : k <= l) \in at BY <2>1
    <2> QED BY <1>1, <1>3, <1>4, <2>2, InIs
  <1> QED BY <1>1, <1>4

\* The recursion of Trail, unfolded: tokens lead from item to item below the
\* root.
LEMMA TrailIs ==
  ASSUME NEW items \in Lists, NEW path \in Path
  PROVE  LET trail == Trail(items, path)
         IN  /\ path \in Seq(STRING) /\ Len(path) \in Nat /\ trail[0] = None
             /\ \A k \in 1..Len(path) :
                  trail[k] = IF trail[k - 1] \in Object \cup {None}
                             THEN Followed(items, trail[k - 1], path[k]) ELSE trail[k - 1]
             /\ \A k \in 0..Len(path) : trail[k] \in Below(items, Root) \cup {None}
PROOF
  <1> DEFINE B == Below(items, Root)
             V == B \cup {None}
             n == Len(path)
             Turned(test, token) == IF test \in Object \cup {None}
                                    THEN Followed(items, test, token) ELSE test
             turns == [k \in 1..n |-> [test \in V |-> Turned(test, path[k])]]
             trail == CHOOSE f : f = [k \in 0..n |-> IF k = 0 THEN None
                        ELSE IF f[k - 1] \in Object \cup {None}
                          THEN Followed(items, f[k - 1], path[k])
                        ELSE f[k - 1]]
  <1>1. Root \in Object /\ Root \in JsonItem /\ path \in Seq(STRING) /\ n \in Nat
    BY JsonStoreAssumption DEF JsonStoreAssumption, Object
  <1>2. Root \in B /\ Holds(items, B) BY <1>1, BelowHolds
  <1>3. ASSUME NEW test \in V, NEW token PROVE Turned(test, token) \in V
    <2> DEFINE object == IF test = None THEN Root ELSE test
    <2>1. CASE test \in Object \cup {None}
      <3>1. object \in B \cap Object BY <1>1, <1>2, <2>1
      <3>2. find(items, object, token) \in In(items, object) \cup {None} BY <3>1, FoundListed
      <3>3. In(items, object) \subseteq B BY <1>2, <3>1 DEF Holds
      <3> HIDE DEF object, B
      <3>4. find(items, object, token) \in V BY <3>2, <3>3
      <3> QED BY <2>1, <3>4 DEF Followed, object
    <2> QED BY <2>1
  <1> HIDE DEF B, n
  <1>4. turns \in [1..n -> [V -> V]] BY <1>3
  <1>5. \A k \in 1..n : \A test \in V : turns[k][test] = Turned(test, path[k]) OBVIOUS
  <1>6. None \in V OBVIOUS
  <1> HIDE DEF V, turns
  <1>7. PICK f \in [0..n -> V] : Repeats(f, n, None, turns) BY <1>1, <1>4, <1>6, Repeated
  <1>8. ASSUME NEW k \in 0..n
        PROVE  f[k] = IF k = 0 THEN None
                      ELSE IF f[k - 1] \in Object \cup {None}
                        THEN Followed(items, f[k - 1], path[k])
                      ELSE f[k - 1]
    <2>1. CASE k = 0 BY <1>7, <2>1 DEF Repeats
    <2>2. CASE k # 0
      <3>1. k \in 1..n /\ k - 1 \in 0..n BY <1>1, <2>2
      <3>2. f[k - 1] \in V BY <1>7, <3>1
      <3>3. f[k] = Turned(f[k - 1], path[k]) BY <1>5, <1>7, <3>1, <3>2 DEF Repeats
      <3> QED BY <2>2, <3>3
    <2> QED BY <2>1, <2>2
  <1>9. f = [k \in 0..n |-> IF k = 0 THEN None
               ELSE IF f[k - 1] \in Object \cup {None} THEN Followed(items, f[k - 1], path[k])
               ELSE f[k - 1]]
    BY <1>7, <1>8
  <1>10. trail = [k \in 0..n |-> IF k = 0 THEN None
               ELSE IF trail[k - 1] \in Object \cup {None} THEN Followed(items, trail[k - 1], path[k])
               ELSE trail[k - 1]]
    BY <1>9
  <1>11. Trail(items, path) = trail BY DEF Trail, n
  <1> HIDE DEF trail
  <1> DEFINE inV == {k \in 0..n : trail[k] \in V}
  <1>12. trail[0] = None
    <2>1. 0 \in 0..n BY <1>1
    <2> QED BY <1>10, <2>1
  <1>13. \A k \in 1..n : trail[k] = Turned(trail[k - 1], path[k])
    <2>1. \A k \in 1..n : k \in 0..n /\ k # 0 BY <1>1
    <2> QED BY <1>10, <2>1
  <1>14. 0 \in inV BY <1>1, <1>6, <1>12
  <1>15. ASSUME NEW k \in Nat, k < n, k \in inV PROVE k + 1 \in inV
    <2>1. k + 1 \in 0..n /\ k + 1 \in 1..n /\ (k + 1) - 1 = k BY <1>1, <1>15
    <2>2. trail[k + 1] = Turned(trail[k], path[k + 1]) BY <1>13, <2>1
    <2>3. trail[k] \in V BY <1>15
    <2>4. trail[k + 1] \in V BY <1>3, <2>2, <2>3 DEF V
    <2> QED BY <2>1, <2>4
  <1>16. \A k \in 0..n : trail[k] \in V
    <2> HIDE DEF inV
    <2>1. \A k \in 0..n : k \in inV BY <1>1, <1>14, <1>15, AllUpTo
    <2> QED BY <2>1 DEF inV
  <1> QED BY <1>1, <1>11, <1>12, <1>13, <1>16 DEF n, V, B

\* What a path leads to is the root or below it.
LEMMA GetBelow ==
  ASSUME NEW items \in Lists, NEW path \in Path
  PROVE  get(items, path) \in Below(items, Root) \cup {None}
PROOF
  <1> DEFINE last == Trail(items, path)[Len(path)]
  <1>1. last \in Below(items, Root) \cup {None}
    <2>1. Len(path) \in 0..Len(path) BY TrailIs
    <2> QED BY <2>1, TrailIs
  <1>2. get(items, path) = IF mKey[last] = Seqs!Last(path) THEN last ELSE None BY DEF get
  <1> HIDE DEF last
  <1> QED BY <1>1, <1>2

\* The recursion of NamedItem, unfolded.
LEMMA NamedIs ==
  ASSUME mItems \in Lists, NEW path \in Path
  PROVE  \E named :
           /\ named[0] = Root /\ NamedItem(path) = named[Len(path)]
           /\ \A k \in 1..Len(path) :
                named[k] = IF named[k - 1] \in Object
                           THEN find(mItems, named[k - 1], path[k]) ELSE None
PROOF
  <1> DEFINE V == JsonItem \cup {None}
             n == Len(path)
             Found(item, token) == IF item \in Object THEN find(mItems, item, token) ELSE None
             turns == [k \in 1..n |-> [item \in V |-> Found(item, path[k])]]
             named == CHOOSE f : f = [k \in 0..n |-> IF k = 0 THEN Root
                        ELSE IF f[k - 1] \in Object THEN find(mItems, f[k - 1], path[k])
                        ELSE None]
  <1>1. Root \in V /\ n \in Nat BY TrailIs, JsonStoreAssumption DEF JsonStoreAssumption, Object
  <1>2. ASSUME NEW item \in V, NEW token PROVE Found(item, token) \in V
    <2>1. CASE item \in Object
      <3>1. find(mItems, item, token) \in In(mItems, item) \cup {None} BY <2>1, FoundListed
      <3>2. In(mItems, item) \subseteq JsonItem BY <2>1, InIs
      <3> QED BY <2>1, <3>1, <3>2
    <2> QED BY <2>1
  <1> HIDE DEF n
  <1>3. turns \in [1..n -> [V -> V]] BY <1>2
  <1>4. \A k \in 1..n : \A item \in V : turns[k][item] = Found(item, path[k]) OBVIOUS
  <1> HIDE DEF V, turns
  <1>5. PICK f \in [0..n -> V] : Repeats(f, n, Root, turns) BY <1>1, <1>3, Repeated
  <1>6. ASSUME NEW k \in 0..n
        PROVE  f[k] = IF k = 0 THEN Root
                      ELSE IF f[k - 1] \in Object THEN find(mItems, f[k - 1], path[k]) ELSE None
    <2>1. CASE k = 0 BY <1>5, <2>1 DEF Repeats
    <2>2. CASE k # 0
      <3>1. k \in 1..n /\ k - 1 \in 0..n BY <1>1, <2>2
      <3>2. f[k - 1] \in V BY <1>5, <3>1
      <3>3. f[k] = Found(f[k - 1], path[k]) BY <1>4, <1>5, <3>1, <3>2 DEF Repeats
      <3> QED BY <2>2, <3>3
    <2> QED BY <2>1, <2>2
  <1>7. f = [k \in 0..n |-> IF k = 0 THEN Root
               ELSE IF f[k - 1] \in Object THEN find(mItems, f[k - 1], path[k]) ELSE None]
    BY <1>5, <1>6
  <1>8. named = [k \in 0..n |-> IF k = 0 THEN Root
               ELSE IF named[k - 1] \in Object THEN find(mItems, named[k - 1], path[k]) ELSE None]
    BY <1>7
  <1>9. NamedItem(path) = named[n] BY DEF NamedItem, n
  <1> HIDE DEF named
  <1>10. named[0] = Root
    <2>1. 0 \in 0..n BY <1>1
    <2> QED BY <1>8, <2>1
  <1>11. \A k \in 1..n : named[k] = Found(named[k - 1], path[k])
    <2>1. \A k \in 1..n : k \in 0..n /\ k # 0 BY <1>1
    <2> QED BY <1>8, <2>1
  <1> QED BY <1>9, <1>10, <1>11 DEF n

\* What find() finds has the key.
LEMMA FoundKey ==
  ASSUME NEW items \in Lists, NEW o \in Object, NEW token, find(items, o, token) # None
  PROVE  mKey[find(items, o, token)] = token
PROOF
  <1> DEFINE at == {k \in DOMAIN items[o] : mKey[items[o][k]] = token}
             least == CHOOSE k \in at : \A l \in at : k <= l
  <1>1. find(items, o, token) = IF at = {} THEN None ELSE items[o][least] BY DEF find
  <1>2. DOMAIN items[o] = 1..Len(items[o]) /\ Len(items[o]) \in Nat BY InIs
  <1>3. at \in SUBSET Nat BY <1>2
  <1>4. at # {} BY <1>1
  <1>5. \A k \in at : mKey[items[o][k]] = token OBVIOUS
  <1> HIDE DEF at
  <1>6. least \in at
    <2>1. \E k \in at : \A l \in at : k <= l BY <1>3, <1>4, Least
    <2> QED BY <2>1
  <1> HIDE DEF least
  <1> QED BY <1>1, <1>4, <1>5, <1>6

\* What a path names is what get() finds.
LEMMA GetNamed ==
  ASSUME mItems \in Lists, NEW path \in Path, NamedItem(path) # None
  PROVE  get(mItems, path) = NamedItem(path)
PROOF
  <1> DEFINE n == Len(path)
             trail == Trail(mItems, path)
  <1>1. PICK named :
          /\ named[0] = Root /\ NamedItem(path) = named[n]
          /\ \A k \in 1..n :
               named[k] = IF named[k - 1] \in Object
                          THEN find(mItems, named[k - 1], path[k]) ELSE None
    BY NamedIs
  <1>2. /\ n \in Nat \ {0} /\ trail[0] = None
        /\ \A k \in 1..n :
             trail[k] = IF trail[k - 1] \in Object \cup {None}
                        THEN Followed(mItems, trail[k - 1], path[k]) ELSE trail[k - 1]
    <2>1. path \in Seq(STRING) \ {<<>>} BY JsonStoreAssumption DEF JsonStoreAssumption
    <2>2. Len(path) # 0 BY <2>1
    <2> QED BY <2>2, TrailIs
  <1>3. None \notin Object /\ Root \in Object
    BY JsonStoreAssumption DEF JsonStoreAssumption, Object
  <1> HIDE DEF n, trail
  <1>4. \A k \in 0..n : named[k] # None
    <2> DEFINE T == {k \in 0..n : named[n - k] # None}
    <2>1. 0 \in T BY <1>1, <1>2
    <2>2. ASSUME NEW k \in Nat, k < n, k \in T PROVE k + 1 \in T
      <3>1. n - k \in 1..n /\ (n - k) - 1 = n - (k + 1) /\ k + 1 \in 0..n BY <1>2, <2>2
      <3>2. named[n - k] # None BY <2>2
      <3>3. named[n - (k + 1)] \in Object BY <1>1, <3>1, <3>2
      <3> QED BY <1>3, <3>1, <3>3
    <2>3. \A k \in 0..n : k \in T
      <3> HIDE DEF T
      <3> QED BY <1>2, <2>1, <2>2, AllUpTo
    <2>4. ASSUME NEW k \in 0..n PROVE named[k] # None
      <3>1. n - k \in 0..n /\ n - (n - k) = k BY <1>2
      <3>2. n - k \in T BY <2>3, <3>1
      <3> QED BY <3>1, <3>2
    <2> QED BY <2>4
  <1>5. \A k \in 1..n : /\ named[k - 1] \in Object /\ named[k] # None
                        /\ named[k] = find(mItems, named[k - 1], path[k])
    <2>1. \A k \in 1..n : k \in 0..n BY <1>2
    <2> QED BY <1>1, <1>4, <2>1
  <1> DEFINE T == {k \in 0..n : IF k = 0 THEN trail[k] = None ELSE trail[k] = named[k]}
  <1>6. 0 \in T BY <1>2
  <1>7. ASSUME NEW k \in Nat, k < n, k \in T PROVE k + 1 \in T
    <2>1. k + 1 \in 1..n /\ k + 1 \in 0..n /\ (k + 1) - 1 = k /\ k + 1 # 0 BY <1>2, <1>7
    <2>2. named[k] \in Object /\ named[k + 1] # None
          /\ named[k + 1] = find(mItems, named[k], path[k + 1])
      BY <1>5, <2>1
    <2>3. (IF trail[k] = None THEN Root ELSE trail[k]) = named[k] BY <1>1, <1>3, <1>7, <2>2
    <2>4. trail[k] \in Object \cup {None} BY <2>2, <2>3
    <2>5. trail[k + 1] = Followed(mItems, trail[k], path[k + 1]) BY <1>2, <2>1, <2>4
    <2>6. trail[k + 1] = named[k + 1] BY <2>2, <2>3, <2>5 DEF Followed
    <2> QED BY <2>1, <2>6
  <1>8. trail[n] = named[n] /\ n \in 1..n
    <2> HIDE DEF T
    <2>1. \A k \in 0..n : k \in T BY <1>2, <1>6, <1>7, AllUpTo
    <2> QED BY <1>2, <2>1 DEF T
  <1>9. mKey[named[n]] = path[n] BY <1>5, <1>8, FoundKey
  <1> QED BY <1>1, <1>8, <1>9 DEF get, Seqs!Last, n, trail

-----------------------------------------------------------------------------
(* Moving an item *)

\* A list without an item that was in it once at most.
LEMMA FirstRemoved ==
  ASSUME NEW T, NEW c \in Seq(T), NoneTwice(c), NEW x
  PROVE  LET d == Seqs!RemoveFirst(c, x)
         IN  /\ d \in Seq(T) /\ NoneTwice(d)
             /\ Seqs!ToSet(d) = Seqs!ToSet(c) \ {x}
PROOF
  <1> DEFINE d == Seqs!RemoveFirst(c, x)
  <1>1. DOMAIN c = 1..Len(c) /\ Len(c) \in Nat OBVIOUS
  <1>2. CASE \A k \in 1..Len(c) : c[k] # x
    <2>1. d = c BY <1>2 DEF Seqs!RemoveFirst
    <2>2. x \notin Seqs!ToSet(c) BY <1>1, <1>2 DEF Seqs!ToSet
    <2> HIDE DEF d
    <2>3. Seqs!ToSet(c) \ {x} = Seqs!ToSet(c) BY <2>2
    <2> QED BY <2>1, <2>3 DEF d
  <1>3. CASE \E k \in 1..Len(c) : c[k] = x
    <2>1. PICK j \in 1..Len(c) : c[j] = x BY <1>3
    <2> DEFINE places == {k \in 1..Len(c) : c[k] = x}
    <2>2. places = {j} BY <2>1 DEF NoneTwice
    <2>3. Seqs!SelectInSeq(c, LAMBDA v : v = x) = IF places # {} THEN Seqs!Min(places) ELSE 0
      BY DEF Seqs!SelectInSeq
    <2>4. Seqs!Min({j}) = j BY DEF Seqs!Min
    <2>5. d = Seqs!RemoveAt(c, Seqs!SelectInSeq(c, LAMBDA v : v = x))
      BY <1>3, SMTT(60) DEF Seqs!RemoveFirst
    <2> HIDE DEF places, d
    <2>6. d = S!RemoveAt(c, j)
      <3>1. Seqs!SelectInSeq(c, LAMBDA v : v = x) = j BY <2>2, <2>3, <2>4
      <3>2. Seqs!RemoveAt(c, j) = S!RemoveAt(c, j) BY DEF Seqs!RemoveAt, S!RemoveAt
      <3> QED BY <2>5, <3>1, <3>2
    <2>7. /\ d \in Seq(T) /\ Len(d) = Len(c) - 1
          /\ \A l \in 1..Len(d) : d[l] = c[IF l < j THEN l ELSE l + 1]
      BY <2>6, RemoveAtIs
    <2>8. Len(d) \in Nat /\ DOMAIN d = 1..Len(d) BY <2>7
    <2>9. NoneTwice(d)
      <3>1. ASSUME NEW k \in 1..Len(d), NEW l \in 1..Len(d), d[k] = d[l] PROVE k = l
        <4> DEFINE p == IF k < j THEN k ELSE k + 1
                   q == IF l < j THEN l ELSE l + 1
        <4>1. p \in 1..Len(c) /\ q \in 1..Len(c) BY <1>1, <2>7, <2>8
        <4>2. c[p] = c[q] BY <2>7, <3>1
        <4>3. p = q
          <5> HIDE DEF p, q
          <5> QED BY <4>1, <4>2 DEF NoneTwice
        <4> QED BY <2>8, <4>3
      <3> QED BY <3>1 DEF NoneTwice
    <2>10. ASSUME NEW l \in 1..Len(d) PROVE d[l] \in Seqs!ToSet(c) \ {x}
      <3> DEFINE p == IF l < j THEN l ELSE l + 1
      <3>1. p \in 1..Len(c) /\ p # j BY <1>1, <2>7, <2>8
      <3>2. d[l] = c[p] BY <2>7
      <3> HIDE DEF p
      <3>3. c[p] # x BY <2>1, <3>1 DEF NoneTwice
      <3> QED BY <1>1, <3>1, <3>2, <3>3 DEF Seqs!ToSet
    <2>11. ASSUME NEW k \in 1..Len(c), c[k] # x PROVE c[k] \in Seqs!ToSet(d)
      <3> DEFINE p == IF k < j THEN k ELSE k - 1
      <3>1. k # j BY <2>1, <2>11
      <3>2. p \in 1..Len(d) /\ k = IF p < j THEN p ELSE p + 1 BY <1>1, <2>7, <3>1
      <3> HIDE DEF p
      <3>3. d[p] = c[k] BY <2>7, <3>2
      <3> QED BY <2>8, <3>2, <3>3 DEF Seqs!ToSet
    <2>12. Seqs!ToSet(d) \subseteq Seqs!ToSet(c) \ {x} BY <2>8, <2>10 DEF Seqs!ToSet
    <2>13. Seqs!ToSet(c) \ {x} \subseteq Seqs!ToSet(d) BY <1>1, <2>11 DEF Seqs!ToSet
    <2> QED BY <2>7, <2>9, <2>12, <2>13 DEF d
  <1> QED BY <1>2, <1>3

LEMMA AppendedOnce ==
  ASSUME NEW T, NEW c \in Seq(T), NoneTwice(c), NEW x \in T, x \notin Seqs!ToSet(c)
  PROVE  /\ Append(c, x) \in Seq(T) /\ NoneTwice(Append(c, x))
         /\ Seqs!ToSet(Append(c, x)) = Seqs!ToSet(c) \cup {x}
PROOF
  <1> DEFINE d == Append(c, x)
  <1>1. /\ d \in Seq(T) /\ Len(c) \in Nat /\ Len(d) = Len(c) + 1
        /\ DOMAIN c = 1..Len(c) /\ DOMAIN d = 1..Len(d)
        /\ \A k \in 1..Len(c) : d[k] = c[k]
        /\ d[Len(c) + 1] = x
    OBVIOUS
  <1> HIDE DEF d
  <1>2. \A k \in 1..Len(c) : d[k] # x BY <1>1 DEF Seqs!ToSet
  <1>3. \A k \in 1..Len(d) : k \in 1..Len(c) \/ k = Len(c) + 1 BY <1>1
  <1>4. NoneTwice(d)
    <2>1. ASSUME NEW k \in 1..Len(d), NEW l \in 1..Len(d), d[k] = d[l] PROVE k = l
      <3>1. CASE k \in 1..Len(c) /\ l \in 1..Len(c) BY <1>1, <2>1, <3>1 DEF NoneTwice
      <3>2. CASE k = Len(c) + 1 \/ l = Len(c) + 1 BY <1>1, <1>2, <1>3, <2>1, <3>2
      <3> QED BY <1>3, <3>1, <3>2
    <2> QED BY <2>1 DEF NoneTwice
  <1>5. Seqs!ToSet(d) \subseteq Seqs!ToSet(c) \cup {x} BY <1>1, <1>3 DEF Seqs!ToSet
  <1>6. Seqs!ToSet(c) \cup {x} \subseteq Seqs!ToSet(d)
    <2>1. \A k \in 1..Len(c) : k \in 1..Len(d) BY <1>1
    <2>2. Len(c) + 1 \in 1..Len(d) BY <1>1
    <2> QED BY <1>1, <2>1, <2>2 DEF Seqs!ToSet
  <1> QED BY <1>1, <1>4, <1>5, <1>6 DEF d

\* An item that is added to an object of the tree, which is not below it, is
\* in the tree then, and all that was.
LEMMA MovedTree ==
  ASSUME mItems \in Lists, OnceListed(mItems), HeldByRoot(mItems),
         NEW x \in JsonItem \ {Root}, NEW o \in Object, o \in Below(mItems, Root),
         MayAdd(x, o)
  PROVE  LET new == Moved(x, o)
         IN  /\ new \in Lists /\ OnceListed(new) /\ HeldByRoot(new)
             /\ Below(mItems, Root) \subseteq Below(new, Root)
PROOF
  <1> DEFINE new == Moved(x, o)
             rest(p) == Seqs!RemoveFirst(mItems[p], x)
  <1>1. ASSUME NEW p \in Object
        PROVE  /\ rest(p) \in Seq(JsonItem) /\ NoneTwice(rest(p))
               /\ Seqs!ToSet(rest(p)) = In(mItems, p) \ {x}
    <2>1. mItems[p] \in Seq(JsonItem) /\ NoneTwice(mItems[p]) BY InIs DEF OnceListed
    <2> QED BY <2>1, FirstRemoved DEF In
  <1>2. new = [p \in Object |-> IF p = o THEN Append(rest(p), x) ELSE rest(p)]
    BY DEF Moved
  <1>3. /\ Append(rest(o), x) \in Seq(JsonItem) /\ NoneTwice(Append(rest(o), x))
        /\ Seqs!ToSet(Append(rest(o), x)) = (In(mItems, o) \ {x}) \cup {x}
    BY <1>1, AppendedOnce
  <1> HIDE DEF new, rest
  <1>4. \A p \in Object : new[p] = IF p = o THEN Append(rest(p), x) ELSE rest(p)
    BY <1>2
  <1>5. new \in Lists BY <1>1, <1>2, <1>3 DEF Lists
  <1>6. /\ \A p \in Object : p # o => In(new, p) = In(mItems, p) \ {x}
        /\ In(new, o) = In(mItems, o) \cup {x}
    BY <1>1, <1>3, <1>4 DEF In
  <1>7. OnceListed(new)
    <2>1. \A p \in Object : NoneTwice(new[p]) BY <1>1, <1>3, <1>4
    <2>2. \A p, q \in Object : p # q => In(new, p) \cap In(new, q) = {}
      BY <1>6 DEF OnceListed
    <2> QED BY <2>1, <2>2 DEF OnceListed
  <1> DEFINE B == Below(mItems, Root)
             C == Below(new, Root)
             W == Below(mItems, x)
  <1>8. Root \in JsonItem BY JsonStoreAssumption DEF JsonStoreAssumption, Object
  <1>9. Root \in C /\ Holds(new, C) BY <1>5, <1>8, BelowHolds
  <1>10. x \in W /\ Holds(mItems, W) BY BelowHolds
  <1>11. o \notin W
    <2>1. CASE x \in Object BY <2>1 DEF MayAdd
    <2>2. CASE x \notin Object
      <3>1. Holds(mItems, {x}) BY <2>2 DEF Holds
      <3>2. W \subseteq {x} BY <3>1, BelowLeast
      <3> QED BY <2>2, <3>2
    <2> QED BY <2>1, <2>2
  <1>12. \A p \in Object : In(mItems, p) \subseteq In(new, p) \cup {x} BY <1>6
  <1> HIDE DEF B, C, W
  <1>13. B \subseteq C \cup W
    <2>1. Holds(mItems, C \cup W) BY <1>9, <1>10, <1>12 DEF Holds
    <2> QED BY <1>8, <1>9, <2>1, BelowLeast DEF B
  <1>14. o \in C BY <1>11, <1>13 DEF B
  <1>15. x \in C BY <1>6, <1>9, <1>14 DEF Holds
  <1>16. B \subseteq C
    <2>1. Holds(mItems, C) BY <1>9, <1>12, <1>15 DEF Holds
    <2> QED BY <1>8, <1>9, <2>1, BelowLeast DEF B
  <1>17. HeldByRoot(new)
    <2>1. \A p \in Object : In(mItems, p) \subseteq B \ {Root} BY DEF HeldByRoot, B
    <2>2. \A p \in Object : In(new, p) \subseteq C \ {Root} BY <1>6, <1>15, <1>16, <2>1
    <2> QED BY <2>2 DEF HeldByRoot, C
  <1> QED BY <1>5, <1>7, <1>16, <1>17 DEF new, B, C

-----------------------------------------------------------------------------
(* The tree is kept *)

LEMMA StoreInitHolds == StoreInit => StoreInv
PROOF
  <1> SUFFICES ASSUME StoreInit PROVE StoreInv OBVIOUS
  <1>1. mItems = firstItems /\ queue = <<>> BY DEF StoreInit
  <1>2. firstItems \in [Object -> Seq(JsonItem \ {Root})]
    BY JsonStoreAssumption DEF JsonStoreAssumption
  <1>3. mItems \in Lists
    <2>1. \A o \in Object : firstItems[o] \in Seq(JsonItem) BY <1>2
    <2> QED BY <1>1, <1>2, <2>1 DEF Lists
  <1>4. OnceListed(mItems) /\ HeldByRoot(mItems)
    BY <1>1, <1>3, FirstTreeAssumption, TreeIs DEF FirstTreeAssumption
  <1>5. \A o \in Object : In(firstItems, o) \subseteq Below(mItems, Root)
    BY <1>1, <1>4 DEF HeldByRoot
  <1>6. queue \in Seq(Message) BY <1>1
  <1> QED BY <1>3, <1>4, <1>5, <1>6 DEF StoreInv

LEMMA TreeSpared ==
  ASSUME StoreInv, mItems' = mItems, queue' \in Seq(Message)
  PROVE  StoreInv'
PROOF
  <1>1. /\ mItems' \in Lists /\ OnceListed(mItems') /\ HeldByRoot(mItems')
        /\ \A o \in Object : In(firstItems, o) \subseteq Below(mItems', Root)
    BY DEF StoreInv
  <1> QED BY <1>1 DEF StoreInv, OnceListed, HeldByRoot, Below, In

LEMMA HandleKeepsTree ==
  ASSUME StoreInv, handle
  PROVE  StoreInv'
PROOF
  <1> DEFINE m == Head(queue)
  <1>1. queue \in Seq(Message) /\ queue # <<>> /\ queue' = Tail(queue) BY DEF StoreInv, handle
  <1>2. m \in Message /\ queue' \in Seq(Message)
    <2> HIDE DEF Message
    <2> QED BY <1>1
  <1> HIDE DEF m
  <1>3. CASE mItems' = mItems BY <1>2, <1>3, TreeSpared
  <1>4. CASE m.type = "add" /\ Add(m)
    <2> DEFINE o == get(mItems, m.path)
               x == m.item
    <2>1. o \in Object /\ MayAdd(x, o) /\ mItems' = Moved(x, o) BY <1>4 DEF Add, MayAdd
    <2>2. x \in JsonItem \ {Root} /\ m.path \in Path BY <1>2, <1>4 DEF Message
    <2>3. mItems \in Lists /\ OnceListed(mItems) /\ HeldByRoot(mItems) BY DEF StoreInv
    <2>4. o \in Below(mItems, Root) \cup {None} BY <2>2, <2>3, GetBelow
    <2>5. o # None BY <2>1, JsonStoreAssumption DEF JsonStoreAssumption, Object
    <2> HIDE DEF o, x
    <2>6. /\ mItems' \in Lists /\ OnceListed(mItems') /\ HeldByRoot(mItems')
          /\ Below(mItems, Root) \subseteq Below(mItems', Root)
      BY <2>1, <2>2, <2>3, <2>4, <2>5, MovedTree
    <2>7. \A p \in Object : In(firstItems, p) \subseteq Below(mItems', Root)
      BY <2>6 DEF StoreInv
    <2> QED BY <1>2, <2>6, <2>7 DEF StoreInv, OnceListed, HeldByRoot, Below, In
  <1>5. mItems' = mItems \/ (m.type = "add" /\ Add(m)) BY DEF handle, Get, Set, m
  <1> QED BY <1>3, <1>4, <1>5

LEMMA QueueKeepsTree ==
  ASSUME StoreInv, NEW m \in Message, Queue(m)
  PROVE  StoreInv'
PROOF
  <1>1. mItems' = mItems /\ queue' = Append(queue, m) BY DEF Queue
  <1>2. queue' \in Seq(Message)
    <2> HIDE DEF Message
    <2> QED BY <1>1 DEF StoreInv
  <1> QED BY <1>1, <1>2, TreeSpared

\* Every item has a key and a value.
Keyed == DOMAIN mKey = JsonItem /\ DOMAIN mValue = JsonItem

LEMMA HandleKeepsKeys ==
  ASSUME Keyed, handle
  PROVE  Keyed'
PROOF
  <1>1. CASE UNCHANGED <<mKey, mValue>> BY <1>1 DEF Keyed
  <1>2. ASSUME NEW item, NEW text, Changed(item, text) PROVE Keyed'
    <2>1. \/ mKey' = [mKey EXCEPT ![item] = text] /\ UNCHANGED mValue
          \/ mValue' = [mValue EXCEPT ![item] = Assigned(item, text)] /\ UNCHANGED mKey
          \/ UNCHANGED <<mKey, mValue>>
      BY <1>2 DEF Changed
    <2> QED BY <2>1 DEF Keyed
  <1> QED BY <1>1, <1>2 DEF handle, Get, Set, Add

LEMMA StoreInductive == StoreSpec => [](StoreInv /\ Keyed)
PROOF
  <1>1. ASSUME StoreInv, Keyed, StoreNext PROVE (StoreInv /\ Keyed)'
    <2>1. CASE handle BY <1>1, <2>1, HandleKeepsTree, HandleKeepsKeys
    <2>2. ASSUME NEW m \in Message, Queue(m) PROVE (StoreInv /\ Keyed)'
      <3>1. Keyed' BY <1>1, <2>2 DEF Queue, Keyed
      <3> QED BY <1>1, <2>2, <3>1, QueueKeepsTree
    <2>3. ASSUME NEW path \in Path, getRootObject(path) PROVE (StoreInv /\ Keyed)'
      <3>1. [type |-> "get", path |-> path] \in Message BY DEF Message
      <3> QED BY <2>2, <2>3, <3>1 DEF getRootObject
    <2>4. ASSUME NEW path \in Path, NEW text \in Texts, setJsonObject(path, text)
          PROVE  (StoreInv /\ Keyed)'
      <3>1. [type |-> "set", path |-> path, text |-> text] \in Message BY DEF Message
      <3> QED BY <2>2, <2>4, <3>1 DEF setJsonObject
    <2>5. ASSUME NEW path \in Path, NEW item \in JsonItem \ {Root}, addJson(path, item)
          PROVE  (StoreInv /\ Keyed)'
      <3>1. [type |-> "add", path |-> path, item |-> item] \in Message BY DEF Message
      <3> QED BY <2>2, <2>5, <3>1 DEF addJson
    <2> QED BY <1>1, <2>1, <2>3, <2>4, <2>5 DEF StoreNext
  <1>2. ASSUME StoreInv, Keyed, UNCHANGED storeVars PROVE (StoreInv /\ Keyed)'
    <2>1. mItems' = mItems /\ queue' = queue /\ UNCHANGED <<mKey, mValue>>
      BY <1>2 DEF storeVars
    <2>2. queue' \in Seq(Message) BY <1>2, <2>1 DEF StoreInv
    <2>3. Keyed' BY <1>2, <2>1 DEF Keyed
    <2> QED BY <1>2, <2>1, <2>2, <2>3, TreeSpared
  <1>3. StoreInit => Keyed BY JsonStoreAssumption DEF JsonStoreAssumption, StoreInit, Keyed
  <1> QED BY <1>1, <1>2, <1>3, StoreInitHolds, PTL DEF StoreSpec

\* Whatever clients get, set, add and add again, in whatever order: no item of
\* the JSON adapters is in two lists or twice in one, and what was once in the
\* tree stays below the root (jsonobject.cpp:37, 132).
THEOREM TreeAlwaysKept == StoreSpec => []TreeKept
PROOF
  <1>1. ASSUME StoreInv PROVE TreeKept
    <2>1. IsTree(mItems) BY <1>1, TreeIs DEF StoreInv
    <2> QED BY <1>1, <2>1 DEF StoreInv, TreeKept, In
  <1> QED BY <1>1, StoreInductive, PTL

\* What get() finds is meant, and what a path names it finds.
LEMMA GetMeant ==
  ASSUME StoreInv, NEW path \in Path
  PROVE  /\ get(mItems, path) # None => get(mItems, path) \in Meant(path)
         /\ NamedItem(path) # None => get(mItems, path) # None
PROOF
  <1> DEFINE got == get(mItems, path)
  <1>1. mItems \in Lists /\ OnceListed(mItems) /\ HeldByRoot(mItems) BY DEF StoreInv
  <1>2. NamedItem(path) # None => got = NamedItem(path) BY <1>1, GetNamed
  <1>3. got # None => got \in JsonItem
    <2>1. got \in Below(mItems, Root) \cup {None} BY <1>1, GetBelow
    <2>2. Root \in JsonItem BY JsonStoreAssumption DEF JsonStoreAssumption, Object
    <2>3. Below(mItems, Root) \subseteq JsonItem BY <1>1, <2>2, BelowHolds
    <2> HIDE DEF got
    <2> QED BY <2>1, <2>3
  <1>4. got # None => mKey[got] = Seqs!Last(path) BY DEF get
  <1> HIDE DEF got
  <1>5. got # None => got \in Meant(path) BY <1>2, <1>3, <1>4 DEF Meant
  <1> QED BY <1>2, <1>5 DEF got

\* Of the message that is handled: what is meant is the answer, the only one
\* changed, or the one added to.
LEMMA HandledNamed ==
  ASSUME StoreInv, Keyed, handle
  PROVE  LET m == Head(queue)
         IN  /\ m.type = "get" =>
                  answer' \in Meant(m.path) \/ (answer' = None /\ NamedItem(m.path) = None)
             /\ \A i \in JsonItem :
                  mKey'[i] # mKey[i] \/ mValue'[i] # mValue[i] =>
                    m.type = "set" /\ i \in Meant(m.path)
             /\ mItems' # mItems => m.type = "add"
             /\ m.type = "add" =>
                  \E o \in Meant(m.path) \cap Object : Seqs!Last(mItems'[o]) = m.item
PROOF
  <1> DEFINE m == Head(queue)
             item == get(mItems, m.path)
  <1>1. queue \in Seq(Message) /\ queue # <<>> BY DEF StoreInv, handle
  <1>2. m \in Message
    <2> HIDE DEF Message
    <2> QED BY <1>1
  <1>3. \/ m.type = "get" /\ Get(m)
        \/ m.type = "set" /\ Set(m)
        \/ m.type = "add" /\ Add(m)
    BY DEF handle
  <1> HIDE DEF m
  <1>5. m.path \in Path BY <1>2 DEF Message
  <1>7. /\ item # None => item \in Meant(m.path)
        /\ NamedItem(m.path) # None => item # None
    BY <1>5, GetMeant
  <1>8. CASE m.type = "get" /\ Get(m)
    <2>1. answer' = item /\ UNCHANGED <<mKey, mValue, mItems>> BY <1>8 DEF Get
    <2> HIDE DEF item
    <2> QED BY <1>7, <1>8, <2>1 DEF m
  <1>9. CASE m.type = "set" /\ Set(m)
    <2>3. UNCHANGED mItems BY <1>9 DEF Set
    <2>1. CASE item = None
      <3>1. UNCHANGED <<mKey, mValue>> BY <1>9, <2>1 DEF Set
      <3> QED BY <1>9, <2>3, <3>1 DEF m
    <2>2. CASE item # None
      <3>1. Changed(item, m.text) BY <1>9, <2>2 DEF Set
      <3> HIDE DEF item
      <3>2. \/ mKey' = [mKey EXCEPT ![item] = m.text] /\ UNCHANGED mValue
            \/ mValue' = [mValue EXCEPT ![item] = Assigned(item, m.text)] /\ UNCHANGED mKey
            \/ UNCHANGED <<mKey, mValue>>
        BY <3>1 DEF Changed
      <3>3. \A i \in JsonItem : i # item => mKey'[i] = mKey[i] /\ mValue'[i] = mValue[i]
        BY <3>2 DEF Keyed
      <3> QED BY <1>7, <1>9, <2>2, <2>3, <3>3 DEF m
    <2> QED BY <2>1, <2>2
  <1>10. CASE m.type = "add" /\ Add(m)
    <2>1. item \in Object /\ mItems' = Moved(m.item, item) /\ UNCHANGED <<mKey, mValue>>
      BY <1>10 DEF Add, MayAdd
    <2>6. item # None BY <2>1, JsonStoreAssumption DEF JsonStoreAssumption, Object
    <2> DEFINE rest == Seqs!RemoveFirst(mItems[item], m.item)
    <2>2. mItems'[item] = Append(rest, m.item) BY <2>1 DEF Moved
    <2>3. rest \in Seq(JsonItem)
      <3>1. mItems[item] \in Seq(JsonItem) /\ NoneTwice(mItems[item])
        BY <2>1, InIs DEF StoreInv, OnceListed
      <3> QED BY <3>1, FirstRemoved
    <2> HIDE DEF rest
    <2>4. Seqs!Last(Append(rest, m.item)) = m.item BY <2>3 DEF Seqs!Last
    <2>5. Seqs!Last(mItems'[item]) = m.item BY <2>2, <2>4
    <2> HIDE DEF item
    <2> QED BY <1>7, <1>10, <2>1, <2>5, <2>6 DEF m
  <1> QED BY <1>3, <1>8, <1>9, <1>10

\* A path is followed in the tree that the messages before it have left: what
\* it names then is got, changed or added to, and nothing else; if it names
\* nothing, an item with the key it ends with may be
\* (jsonobject.cpp:177, 240, jsondbactor.h:126).
THEOREM AlwaysHandledAsNamed == StoreSpec => HandledAsNamed
PROOF
  <1> DEFINE AsNamed == handled' # handled =>
               LET m == Head(queue)
               IN  /\ m.type = "get" =>
                        answer' \in Meant(m.path) \/ (answer' = None /\ NamedItem(m.path) = None)
                   /\ \A i \in JsonItem :
                        mKey'[i] # mKey[i] \/ mValue'[i] # mValue[i] =>
                          m.type = "set" /\ i \in Meant(m.path)
                   /\ mItems' # mItems => m.type = "add"
                   /\ m.type = "add" =>
                        \E o \in Meant(m.path) \cap Object : Seqs!Last(mItems'[o]) = m.item
  <1>1. ASSUME StoreInv, Keyed, [StoreNext]_storeVars PROVE [AsNamed]_storeVars
    <2>1. CASE handled' = handled BY <2>1
    <2>2. CASE handled' # handled
      <3>1. handle
        <4>1. StoreNext BY <1>1, <2>2 DEF storeVars
        <4>2. \A m : Queue(m) => handled' = handled BY DEF Queue
        <4> QED BY <2>2, <4>1, <4>2 DEF StoreNext, getRootObject, setJsonObject, addJson
      <3>2. AsNamed BY <1>1, <3>1, HandledNamed
      <3> QED BY <3>2
    <2> QED BY <2>1, <2>2
  <1> HIDE DEF AsNamed
  <1>2. StoreSpec => [][AsNamed]_storeVars BY <1>1, StoreInductive, PTL DEF StoreSpec
  <1>3. StoreSpec => HandledAsNamed BY <1>2 DEF AsNamed, HandledAsNamed
  <1> QED BY <1>3
=============================================================================

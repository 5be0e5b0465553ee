------------------------------- MODULE JsonDb -------------------------------
(***************************************************************************)
(* The JSON database, jsondb/*: the roots of a JsonDbActor, objects and    *)
(* arrays below them, the cached texts of members, and observers, which    *)
(* are told of every change in the item they observe or below it.  An      *)
(* observer that is told may call the database in turn; `stack' holds the  *)
(* notifications under way.                                                *)
(* Items are numbered as they are made and numbers are not used again, so  *)
(* that a child's number is above its parent's.  Strings are values: who   *)
(* passes a name or a string keeps it until the call returns.              *)
(***************************************************************************)
EXTENDS Integers, Sequences

CONSTANTS Name,        \* names of members
          RootName,
          Scalar,      \* values that are no items: [type, value]
          Observer,
          MaxItems,    \* bound: items ever made
          MaxChanges,  \* bound: calls that change something
          MaxDepth,    \* bound: notifications within notifications
          SendDepth,   \* bound: the depth given to send()
          Liberties    \* rules that observers do not keep

Item == 1..MaxItems
Container == {"OBJECT", "ARRAY"}
Invalid == [type |-> "INVALID", value |-> 0]
Cached == {"INTEGER", "DECIMAL", "STRING"}

ASSUME JsonDbAssumption ==
  /\ 0 \notin Name            \* a member of an array has no name
  /\ \A s \in Scalar :
       s \in [type : {"NULL", "INTEGER", "DECIMAL", "STRING", "BOOLEAN"}, value : {s.value}]
  /\ {MaxItems, MaxChanges, MaxDepth, SendDepth} \subseteq Nat
  /\ Liberties \subseteq {"remove"}

S == INSTANCE SequencesExt

VARIABLES
  mRoots,      \* [name, object], as in the list
  alive,       \* the items that exist
  made,        \* how many were made
  itsType,     \* type() of an item
  mParent,     \* 0 for a root
  mMembers,    \* of objects and arrays: [name, type, value, escaped]
  mLength,     \* of arrays
  torn,        \* objects that keep a deleted member in their list
  mObservers,
  stack,       \* notifications: the observer o of item at is told of change n
  changes,     \* how many there were
  owed,        \* <<n, o>>: o is still to be told of change n
  fields,      \* what was set last in objects,
  elements     \* and what the arrays should hold

tree == <<mRoots, alive, made, itsType, mParent, mMembers, mLength, torn>>
telling == <<mObservers, stack, changes, owed>>
history == <<fields, elements>>
vars == <<tree, telling, history>>

Init ==
  /\ mRoots = <<>> /\ alive = {} /\ made = 0
  /\ itsType = [i \in Item |-> "NULL"]
  /\ mParent = [i \in Item |-> 0]
  /\ mMembers = [i \in Item |-> <<>>] /\ mLength = [i \in Item |-> 0]
  /\ torn = {}
  /\ mObservers = [i \in Item |-> <<>>] /\ stack = <<>> /\ changes = 0 /\ owed = {}
  /\ fields = [i \in Item |-> [n \in Name |-> Invalid]]
  /\ elements = [i \in Item |-> <<>>]

-----------------------------------------------------------------------------
(* Items *)

ValueOf(m) == [type |-> m.type, value |-> m.value]

Children(i) ==
  {m.value : m \in {x \in S!ToSet(mMembers[i]) : x.type \in Container}}

\* The destructors: an item with all below it.
Subtree[i \in Item] == {i} \cup UNION {Subtree[c] : c \in Children(i)}

Up[i \in 0..MaxItems] == IF i = 0 THEN {} ELSE {i} \cup Up[mParent[i]]

\* member(): the first of that name, 0 if there is none.
member(i, name) ==
  LET at == {k \in DOMAIN mMembers[i] : mMembers[i][k].name = name}
  IN  IF at = {} THEN 0 ELSE CHOOSE k \in at : \A l \in at : k <= l

\* type(), and integer() to boolean(), object() and array(), which return
\* the value if it is of their type and otherwise a default.
read(i, name) ==
  IF member(i, name) = 0 THEN Invalid ELSE ValueOf(mMembers[i][member(i, name)])

readAt(i, index) ==
  IF index >= mLength[i] THEN Invalid ELSE ValueOf(mMembers[i][index + 1])

\* A slip: only objects are deleted.
FreedObjects(v) == IF v.type = "OBJECT" THEN Subtree[v.value] ELSE {}

\* What freeMemberValue() deletes with a value.
Freed(v) == IF v.type \in Container THEN Subtree[v.value] ELSE {}

Member(name, v) == [name |-> name, type |-> v.type, value |-> v.value, escaped |-> <<>>]

\* A slip: freeMemberValue() leaves mEscaped.
KeptEscaped(i, name, v) ==
  IF member(i, name) = 0 THEN Append(mMembers[i], Member(name, v))
  ELSE [mMembers[i] EXCEPT ![member(i, name)] =
          [Member(name, v) EXCEPT !.escaped = mMembers[i][member(i, name)].escaped]]

replaceMember(i, name, v) ==
  IF member(i, name) = 0 THEN Append(mMembers[i], Member(name, v))
  ELSE [mMembers[i] EXCEPT ![member(i, name)] = Member(name, v)]

\* escapeMember(): of an object's or array's, the name alone.
Escape(m) ==
  IF m.type \in Container THEN <<m.name>> ELSE <<m.name, m.type, m.value>>

\* In objects all members have their text cached, in arrays some.
Escaped(i, m) ==
  IF m.escaped = <<>> /\ (itsType[i] = "OBJECT" \/ m.type \in Cached)
    THEN [m EXCEPT !.escaped = Escape(m)] ELSE m

\* The items that send() writes in full.
Shown[depth \in 0..SendDepth] ==
  [i \in Item |-> IF depth = 0 THEN {}
                  ELSE {i} \cup UNION {Shown[depth - 1][c] : c \in Children(i)}]

-----------------------------------------------------------------------------
(* Rules for callers *)

\* unset() deletes a member that stays in the list, which must not be walked
\* again.
MayWalk(items) == torn \cap items = {}

\* A notification goes on to the next observer and the parent: what it is at,
\* and what is above, stays.
MayDelete(items) ==
  /\ MayWalk(items)
  /\ \A k \in DOMAIN stack : Up[stack[k].at] \cap items = {}

Observed(o) == \E i \in Item : o \in S!ToSet(mObservers[i])

\* An observer is one item of a list: it observes one item at a time, and one
\* of an item that was deleted is still linked there and not used again.
MayObserve(o) == ~Observed(o) /\ \A k \in DOMAIN stack : stack[k].o # o

\* An observer is not removed while it is told of a change: remove() makes it
\* its own next(), and the loop that told it never goes on (jsonitem.cpp:43,
\* list.h:181).
MayRemove(o) == "remove" \in Liberties \/ \A k \in DOMAIN stack : stack[k].o # o

MayChange(i) ==
  i \in alive /\ MayWalk({i}) /\ changes < MaxChanges /\ Len(stack) < MaxDepth

-----------------------------------------------------------------------------
(* Notifications *)

\* A slip: only the observers of the item itself.
ClimbNot(i) == IF i = 0 \/ mObservers[i] = <<>> THEN 0 ELSE i

\* The next item up that has observers, 0 if none has; a parent's number is
\* below its child's.
Climb(i) ==
  LET observed == {j \in Up[i] : mObservers[j] # <<>>}
  IN  IF observed = {} THEN 0 ELSE CHOOSE j \in observed : \A l \in observed : l <= j

\* notifyMemberSet() and the like begin, on item i.
Notify(i) ==
  LET at == Climb(i)
  IN  /\ changes' = changes + 1
      /\ owed' = owed \cup {<<changes', o>> : o \in UNION {S!ToSet(mObservers[j]) : j \in Up[i]}}
      /\ stack' = IF at = 0 THEN stack
                  ELSE Append(stack, [n |-> changes', at |-> at, o |-> mObservers[at][1]])
      /\ UNCHANGED mObservers

Place(o, i) == CHOOSE k \in DOMAIN mObservers[i] : mObservers[i][k] = o

\* The observer that was called returns; next() of one that is in no list is
\* that observer.
Return ==
  LET top == stack[Len(stack)]
      next == Place(top.o, top.at) + 1
      at == Climb(mParent[top.at])
  IN  /\ stack # <<>>
      /\ owed' = owed \ {<<top.n, top.o>>}
      /\ stack' =
           IF top.o \notin S!ToSet(mObservers[top.at]) THEN stack
           ELSE IF next <= Len(mObservers[top.at])
             THEN [stack EXCEPT ![Len(stack)].o = mObservers[top.at][next]]
           ELSE IF at # 0
             THEN [stack EXCEPT ![Len(stack)] = [@ EXCEPT !.at = at, !.o = mObservers[at][1]]]
           ELSE S!Front(stack)
      /\ UNCHANGED <<tree, mObservers, changes, history>>

addObserver(i, o) ==
  /\ i \in alive /\ MayObserve(o)
  /\ mObservers' = [mObservers EXCEPT ![i] = Append(@, o)]
  /\ UNCHANGED <<tree, stack, changes, owed, history>>

\* remove() of an observer
removeObserver(i, o) ==
  /\ i \in alive /\ o \in S!ToSet(mObservers[i]) /\ MayRemove(o)
  /\ mObservers' = [mObservers EXCEPT ![i] = S!RemoveAt(@, Place(o, i))]
  /\ owed' = {p \in owed : p[2] # o}
  /\ UNCHANGED <<tree, stack, changes, history>>

-----------------------------------------------------------------------------
(* Objects and arrays *)

\* The items `dead' go.  itemDeleted() tells their observers one by one, in the
\* middle of the deletion, and they call nothing of the database: a rule for
\* applications that this module has no liberty for (jsonitem.cpp:33).
Without(dead, new) == alive' = (alive \ dead) \cup new

Created(i, type) ==
  /\ made < MaxItems /\ made' = made + 1
  /\ itsType' = [itsType EXCEPT ![made'] = type]
  /\ mParent' = [mParent EXCEPT ![made'] = i]

Put(i, name, v, new) ==
  /\ itsType[i] = "OBJECT" /\ MayChange(i) /\ MayDelete(Freed(read(i, name)))
  /\ Without(Freed(read(i, name)), new)
  /\ mMembers' = [mMembers EXCEPT ![i] = replaceMember(i, name, v)]
  /\ fields' = [fields EXCEPT ![i][name] = v]
  /\ Notify(i)
  /\ UNCHANGED <<mRoots, mLength, torn, elements>>

\* setInteger() to setNull()
setScalar(i, name, s) ==
  Put(i, name, s, {}) /\ UNCHANGED <<made, itsType, mParent>>

\* setObject() and setArray(): the item is made before the old one is freed.
setContainer(i, name, type) ==
  /\ Created(i, type)
  /\ Put(i, name, [type |-> type, value |-> made'], {made'})

unset(i, name) ==
  /\ itsType[i] = "OBJECT" /\ MayChange(i) /\ MayDelete(Freed(read(i, name)))
  /\ member(i, name) # 0
  /\ Without(Freed(read(i, name)), {})
  /\ mMembers' = [mMembers EXCEPT ![i] = S!RemoveAt(@, member(i, name))]
  /\ torn' = torn \cup {i}
  /\ fields' = [fields EXCEPT ![i][name] = Invalid]
  /\ Notify(i)
  /\ UNCHANGED <<mRoots, made, itsType, mParent, mLength, elements>>

Attach(i, v, new) ==
  /\ itsType[i] = "ARRAY" /\ MayChange(i)
  /\ Without({}, new)
  /\ mMembers' = [mMembers EXCEPT ![i] = Append(@, Member(0, v))]
  /\ mLength' = [mLength EXCEPT ![i] = @ + 1]
  /\ elements' = [elements EXCEPT ![i] = Append(@, v)]
  /\ Notify(i)
  /\ UNCHANGED <<mRoots, torn, fields>>

\* appendInteger() to appendNull()
appendScalar(i, s) == Attach(i, s, {}) /\ UNCHANGED <<made, itsType, mParent>>

\* appendObject() and appendArray()
appendContainer(i, type) ==
  Created(i, type) /\ Attach(i, [type |-> type, value |-> made'], {made'})

\* A slip: the list's head goes, whatever the index.
RemovedHead(i, index) == Tail(mMembers[i])

Removed(i, index) == S!RemoveAt(mMembers[i], index + 1)

remove(i, index) ==
  /\ itsType[i] = "ARRAY" /\ MayChange(i) /\ index < mLength[i]
  /\ MayDelete(Freed(readAt(i, index)))
  /\ Without(Freed(readAt(i, index)), {})
  /\ mMembers' = [mMembers EXCEPT ![i] = Removed(i, index)]
  /\ mLength' = [mLength EXCEPT ![i] = @ - 1]
  /\ elements' = [elements EXCEPT ![i] = S!RemoveAt(@, index + 1)]
  /\ Notify(i)
  /\ UNCHANGED <<mRoots, made, itsType, mParent, torn, fields>>

asString(i, name) ==
  /\ i \in alive /\ itsType[i] = "OBJECT" /\ MayWalk({i}) /\ member(i, name) # 0
  /\ mMembers' = [mMembers EXCEPT ![i][member(i, name)] = Escaped(i, @)]
  /\ UNCHANGED <<mRoots, alive, made, itsType, mParent, mLength, torn, telling, history>>

send(i, depth) ==
  LET shown == Shown[depth][i]
  IN  /\ i \in alive /\ MayWalk(shown)
      /\ mMembers' = [j \in Item |->
           IF j \in shown THEN [k \in DOMAIN mMembers[j] |-> Escaped(j, mMembers[j][k])]
           ELSE mMembers[j]]
      /\ UNCHANGED <<mRoots, alive, made, itsType, mParent, mLength, torn, telling, history>>

-----------------------------------------------------------------------------
(* JsonDbActor *)

RootAt(name) == {k \in DOMAIN mRoots : mRoots[k].name = name}

\* It returns 0 if there is a root of that name.
createRoot(name) ==
  /\ RootAt(name) = {}
  /\ Created(0, "OBJECT")
  /\ mRoots' = Append(mRoots, [name |-> name, object |-> made'])
  /\ Without({}, {made'})
  /\ UNCHANGED <<mMembers, mLength, torn, telling, history>>

deleteRoot(name) ==
  \E k \in RootAt(name) :
    /\ MayDelete(Subtree[mRoots[k].object])
    /\ mRoots' = S!RemoveAt(mRoots, k)
    /\ Without(Subtree[mRoots[k].object], {})
    /\ UNCHANGED <<made, itsType, mParent, mMembers, mLength, torn, telling, history>>

\* The destructor, with an iterator that has gone on before each deletion.
Destroy ==
  LET dead == UNION {Subtree[r.object] : r \in S!ToSet(mRoots)}
  IN  /\ mRoots # <<>> /\ MayDelete(dead)
      /\ mRoots' = <<>>
      /\ Without(dead, {})
      /\ UNCHANGED <<made, itsType, mParent, mMembers, mLength, torn, telling, history>>

-----------------------------------------------------------------------------
(* The specification *)

Next ==
  \/ Return \/ Destroy
  \/ \E name \in RootName : createRoot(name) \/ deleteRoot(name)
  \/ \E i \in Item, o \in Observer : addObserver(i, o) \/ removeObserver(i, o)
  \/ \E i \in Item, depth \in 0..SendDepth : send(i, depth)
  \/ \E i \in Item, name \in Name : unset(i, name) \/ asString(i, name)
  \/ \E i \in Item, name \in Name, s \in Scalar : setScalar(i, name, s)
  \/ \E i \in Item, name \in Name, type \in Container : setContainer(i, name, type)
  \/ \E i \in Item, s \in Scalar : appendScalar(i, s)
  \/ \E i \in Item, type \in Container : appendContainer(i, type)
  \/ \E i \in Item, index \in 0..MaxChanges : remove(i, index)

Spec == Init /\ [][Next]_vars

-----------------------------------------------------------------------------
(* Properties *)

Holders(i) ==
  {h \in alive \X (1..MaxChanges) :
     /\ h[2] \in DOMAIN mMembers[h[1]]
     /\ ValueOf(mMembers[h[1]][h[2]]) \in [type : Container, value : {i}]}

\* What exists is a tree: every item but the roots is held by one member, of
\* the item that is its parent, and of its type; no member holds what was
\* deleted, and nothing that is held nowhere was left (jsonobject.cpp:62,
\* jsonarray.cpp:44, jsondbactor.cpp:41).
TreeIntact ==
  /\ \A i \in alive :
       IF mParent[i] = 0
         THEN Holders(i) = {} /\ \E r \in S!ToSet(mRoots) : r.object = i
         ELSE \E j \in alive, k \in 1..MaxChanges :
                /\ Holders(i) = {<<j, k>>} /\ mParent[i] = j
                /\ mMembers[j][k].type = itsType[i]
  /\ \A i \in alive : Children(i) \subseteq alive

\* Reading gives what was set last under a name, and what was appended at an
\* index and not removed, and nothing else, whichever observers called the
\* database in between (jsonobject.cpp:37-60, jsonarray.cpp:35, 142).
ReadsLastWritten ==
  \A i \in alive \ torn :
    /\ \A n \in Name : read(i, n) = fields[i][n]
    /\ mLength[i] = Len(elements[i])
    /\ \A k \in DOMAIN elements[i] : readAt(i, k - 1) = elements[i][k]

\* The cached text of a member is that of its present value, so that send()
\* and asString() write what reading gives (jsonobject.cpp:70, 225;
\* jsonarray.cpp:167).
EscapedCurrent ==
  \A i \in alive : \A k \in DOMAIN mMembers[i] :
    mMembers[i][k].escaped \in {<<>>, Escape(mMembers[i][k])}

\* Whoever observes an item when it, or an item below it, changes is told of
\* the change: the notification still has to come to the observer, also when
\* observers change the tree, add observers or remove others, by the rule
\* MayRemove not those that are being told (jsonitem.cpp:38-82).
NoneForgotten ==
  \A p \in owed : \E k \in DOMAIN stack :
    /\ stack[k].n = p[1] /\ stack[k].o \in S!ToSet(mObservers[stack[k].at])
    /\ \/ \E l \in DOMAIN mObservers[stack[k].at] :
            l >= Place(stack[k].o, stack[k].at) /\ mObservers[stack[k].at][l] = p[2]
       \/ \E j \in Up[mParent[stack[k].at]] : p[2] \in S!ToSet(mObservers[j])
=============================================================================

----------------------------- MODULE JsonStore -----------------------------
(***************************************************************************)
(* The JSON adapters, json/*: a tree of items below a JsonObject, and the  *)
(* messages of a JsonDbActor that get, set and add by path.  Clients queue *)
(* messages at any time; the actor handles them in order, each at once     *)
(* (modules DispatchLoop and Dispatch), so that a path is followed in a    *)
(* tree that has changed since it was asked for.                           *)
(* mRefcount, which nothing sets and no decision reads, is left out; texts *)
(* are members of a small set, with what the conversions make of them.     *)
(***************************************************************************)
EXTENDS Integers, Sequences, FiniteSets

CONSTANTS JsonItem, Root,  \* Root is in JsonItem, too
          None,            \* NULL
          mType,           \* of each
          Key, Texts,      \* keys; texts that can be set
          firstKey, firstValue, firstItems,  \* the tree that is built before
          Digits,          \* the texts of digits only
          toInteger,       \* what operator>> and
          toDouble,        \* strtod() make of a text, the latter in tenths
          Path,            \* the paths of clients: sequences of tokens
          MaxWaiting,      \* bound: messages in the queue
          MaxHandled       \* bound: messages handled

Seqs == INSTANCE SequencesExt

Object == {i \in JsonItem : mType[i] = "OBJECT"}

ASSUME JsonStoreAssumption ==
  /\ Root \in Object /\ None \notin JsonItem
  /\ mType \in [JsonItem -> {"STRING", "NUMBER", "BOOL", "DOUBLE", "OBJECT"}]
  /\ Path \subseteq Seq(STRING) \ {<<>>}
  /\ Digits \subseteq Texts
  /\ toInteger \in [Digits -> Int] /\ toDouble \in [Texts -> Int]
  /\ firstKey \in [JsonItem -> Key] /\ DOMAIN firstValue = JsonItem
  /\ firstItems \in [Object -> Seq(JsonItem \ {Root})]
  /\ MaxWaiting \in Nat /\ MaxHandled \in Nat

\* The items of an object, of those, and so on, in the tree that lists `items'
\* make.
Below(items, object) ==
  LET below[n \in 0..Cardinality(Object)] ==
        IF n = 0 THEN {object}
        ELSE below[n - 1] \cup UNION {Seqs!ToSet(items[o]) : o \in below[n - 1] \cap Object}
  IN  below[Cardinality(Object)]

\* Where an item is.
Places(items, i) ==
  UNION {{o} \X {k \in DOMAIN items[o] : items[o][k] = i} : o \in Object}

\* The items below the root are in one list, once, and all others in none.
IsTree(items) ==
  \A i \in JsonItem :
    Cardinality(Places(items, i)) = IF i \in Below(items, Root) \ {Root} THEN 1 ELSE 0

ASSUME FirstTreeAssumption == IsFiniteSet(JsonItem) /\ IsTree(firstItems)

VARIABLES
  mKey, mValue,
  mItems,   \* of each object
  queue,    \* the messages of the actor
  handled,  \* how many were handled
  answer    \* the item the last callback was given, None for NULL

storeVars == <<mKey, mValue, mItems, queue, handled, answer>>

StoreInit ==
  /\ mKey = firstKey /\ mValue = firstValue /\ mItems = firstItems
  /\ queue = <<>> /\ handled = 0 /\ answer = None

-----------------------------------------------------------------------------
(* Paths, in the tree that lists `items' make *)

\* find(): the first of that key.
find(items, object, token) ==
  LET at == {k \in DOMAIN items[object] : mKey[items[object][k]] = token}
  IN  IF at = {} THEN None
      ELSE items[object][CHOOSE k \in at : \A l \in at : k <= l]

\* A slip: looked for in the root, whatever was found.
FollowedFromRoot(items, test, token) ==
  LET item == find(items, Root, token) IN IF item = None THEN test ELSE item

\* One turn of get()'s loop: a token that is not found is passed over.
Followed(items, test, token) ==
  LET item == find(items, IF test = None THEN Root ELSE test, token)
  IN  IF item = None THEN test ELSE item

\* What the first n tokens lead to.  Only an object has items to look in.
Trail(items, path) ==
  LET trail[n \in 0..Len(path)] ==
        IF n = 0 THEN None
        ELSE IF trail[n - 1] \in Object \cup {None} THEN Followed(items, trail[n - 1], path[n])
        ELSE trail[n - 1]
  IN  trail

\* get() would follow NULL below an item that is no object, and if it has
\* found none of the tokens.
MayGet(items, path) ==
  LET trail == Trail(items, path)
  IN  /\ \A n \in 1..(Len(path) - 1) : trail[n] \in Object \cup {None}
      /\ trail[Len(path)] # None

\* It compares the last token with the key of what it has found.
get(items, path) ==
  LET test == Trail(items, path)[Len(path)]
  IN  IF mKey[test] = Seqs!Last(path) THEN test ELSE None

-----------------------------------------------------------------------------
(* The messages, handled *)

Get(m) ==
  /\ answer' = get(mItems, m.path)
  /\ UNCHANGED <<mKey, mValue, mItems>>

\* What a setter is called with; the texts that it is not called with are
\* refused.
Fits(item, text) ==
  CASE mType[item] = "NUMBER" -> text \in Digits
    [] mType[item] = "DOUBLE" -> toDouble[text] # 0
    [] mType[item] = "BOOL" -> text \in {"true", "false"}
    [] OTHER -> TRUE

Assigned(item, text) ==
  CASE mType[item] = "NUMBER" -> toInteger[text]
    [] mType[item] = "DOUBLE" -> toDouble[text]
    [] mType[item] = "BOOL" -> text = "true"
    [] OTHER -> text

\* set() has no return statement behind its switch: it returns what the last
\* call has left, the item or 0 - but anything after strcmp() has refused the
\* text, which is not asked for here.
MaySet(item, text) == mType[item] = "BOOL" => Fits(item, text)

Changed(item, text) ==
  /\ MaySet(item, text)
  /\ IF item \in Object
       THEN mKey' = [mKey EXCEPT ![item] = text] /\ UNCHANGED mValue
     ELSE IF Fits(item, text)
       THEN mValue' = [mValue EXCEPT ![item] = Assigned(item, text)] /\ UNCHANGED mKey
     ELSE UNCHANGED <<mKey, mValue>>
  /\ answer' \in {item, None}

Set(m) ==
  LET item == get(mItems, m.path)
  IN  /\ IF item = None THEN answer' = None /\ UNCHANGED <<mKey, mValue>>
         ELSE Changed(item, m.text)
      /\ UNCHANGED mItems

\* A slip: the item stays in the list it is in.
Copied(item, object) == [mItems EXCEPT ![object] = Append(@, item)]

\* addTail() takes an item out of the list it is in.
Moved(item, object) ==
  [o \in Object |->
     LET rest == Seqs!RemoveFirst(mItems[o], item)
     IN  IF o = object THEN Append(rest, item) ELSE rest]

\* Added to what is no object or was not found, an item is added to NULL
\* (jsonobject.cpp:54); added to the list it is the last of, it is lost for the
\* list; added below itself, it is lost for the tree.
MayAdd(item, object) ==
  /\ object \in Object
  /\ \A k \in DOMAIN mItems[object] :
       mItems[object][k] = item => k < Len(mItems[object])
  /\ item \in Object => object \notin Below(mItems, item)

\* The path, which ends with a delimiter, has the new item's key written
\* behind it; the memory there is taken to be free.
Add(m) ==
  LET object == get(mItems, m.path)
      path == Append(m.path, mKey[m.item])
  IN  /\ MayAdd(m.item, object)
      /\ mItems' = Moved(m.item, object)
      /\ MayGet(mItems', path)
      /\ answer' = get(mItems', path)
      /\ UNCHANGED <<mKey, mValue>>

\* handle(), of the first message, and the client's callback
handle ==
  /\ queue # <<>> /\ handled < MaxHandled
  /\ LET m == Head(queue)
     IN  /\ MayGet(mItems, m.path)
         /\ \/ m.type = "get" /\ Get(m)
            \/ m.type = "set" /\ Set(m)
            \/ m.type = "add" /\ Add(m)
  /\ queue' = Tail(queue)
  /\ handled' = handled + 1

-----------------------------------------------------------------------------
(* The clients *)

Queue(m) ==
  /\ Len(queue) < MaxWaiting
  /\ queue' = Append(queue, m)
  /\ UNCHANGED <<mKey, mValue, mItems, handled, answer>>

getRootObject(path) == Queue([type |-> "get", path |-> path])

setJsonObject(path, text) == Queue([type |-> "set", path |-> path, text |-> text])

addJson(path, item) == Queue([type |-> "add", path |-> path, item |-> item])

-----------------------------------------------------------------------------
(* The specification *)

StoreNext ==
  \/ handle
  \/ \E path \in Path :
       \/ getRootObject(path)
       \/ \E text \in Texts : setJsonObject(path, text)
       \/ \E item \in JsonItem \ {Root} : addJson(path, item)

StoreSpec == StoreInit /\ [][StoreNext]_storeVars

-----------------------------------------------------------------------------
(* Properties *)

\* The item at the path as a client means it: each token names the first item
\* of that key in the object that the tokens before it name.
NamedItem(path) ==
  LET named[n \in 0..Len(path)] ==
        IF n = 0 THEN Root
        ELSE IF named[n - 1] \in Object THEN find(mItems, named[n - 1], path[n])
        ELSE None
  IN  named[Len(path)]

\* What the client means: the item its path names, and if it names none - get()
\* passes over the missing tokens - at least one with the key it ends with.
Meant(path) ==
  {i \in JsonItem :
     IF NamedItem(path) = None THEN mKey[i] = Seqs!Last(path) ELSE i = NamedItem(path)}

\* A path is followed in the tree as it is when its message is handled, after
\* all that was queued before it.  If it names an item then, that item is what
\* a get answers with, the only one that a set changes, and the one whose list
\* an add adds to.  If it names none, what is got, set or added to has the key
\* that the path ends with.  And no message of another kind does any of this
\* (jsonobject.cpp:177, 240, jsondbactor.h:126).
HandledAsNamed ==
  [][handled' # handled =>
       LET m == Head(queue)
       IN  /\ m.type = "get" =>
                answer' \in Meant(m.path) \/ (answer' = None /\ NamedItem(m.path) = None)
           /\ \A i \in JsonItem :
                mKey'[i] # mKey[i] \/ mValue'[i] # mValue[i] =>
                  m.type = "set" /\ i \in Meant(m.path)
           /\ mItems' # mItems => m.type = "add"
           /\ m.type = "add" =>
                \E o \in Meant(m.path) \cap Object : Seqs!Last(mItems'[o]) = m.item]_storeVars

\* If the path of a get names nothing when it is handled, then the answer is
\* NULL.  It is not if the tokens that are found lead to an item whose key is
\* the last token: those that are missing are passed over
\* (jsonobject.cpp:173, 207).
MissingIsNull ==
  [][handled' # handled /\ Head(queue).type = "get" /\ NamedItem(Head(queue).path) = None =>
       answer' = None]_storeVars

\* The lists make a tree, whatever clients add or add again: no item is in
\* two lists or twice in one, and what was once in the tree stays below the
\* root, so that deleting the root deletes each item once
\* (jsonobject.cpp:37, 132).
TreeKept ==
  /\ IsTree(mItems)
  /\ \A o \in Object : Seqs!ToSet(firstItems[o]) \subseteq Below(mItems, Root)
=============================================================================

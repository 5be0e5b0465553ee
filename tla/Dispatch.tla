------------------------------ MODULE Dispatch ------------------------------
(***************************************************************************)
(* Several dispatchers, each in a thread of its own: what they share in    *)
(* stateplex/core/dispatcher.cpp and dispatcher.h.  That is the dispatch   *)
(* lock, the recycled allocator and, because messages cross from one       *)
(* dispatcher to another, the queues, the activity flag and the place in   *)
(* the lists of actors of each receiver.                                   *)
(*                                                                         *)
(* A call that moves a list item, or appends to a list, is one step; the   *)
(* tests and assignments around it are not.  That is what the code does    *)
(* where OneThreadRule holds: a list is then used by one thread, or with   *)
(* the lock.  The lock is the mutex that module Spinlock implements.       *)
(* Timeouts, which a dispatcher has for itself, are in DispatchLoop.       *)
(***************************************************************************)
EXTENDS Naturals, Sequences, FiniteSets

CONSTANTS Dispatcher, Actor,
          Null,
          Home,          \* the mDispatcher of each actor
          Rooted,        \* actors with code in the setup or the sources of Home
          Routes,        \* which actor sends to which, by whose queueMessage()
          MaxMessages,   \* bound: messages queued in a behaviour
          MaxEvents      \* bound: callbacks of sources in a behaviour

ASSUME DispatchAssumption ==
  /\ Null \notin Dispatcher \cup Actor
  /\ Home \in [Actor -> Dispatcher]
  /\ Rooted \subseteq Actor
  /\ Routes \subseteq [from : Actor, to : Actor, via : {"sender", "receiver"}]
  /\ MaxMessages \in Nat /\ MaxEvents \in Nat

S == INSTANCE SequencesExt

VARIABLES
  sDispatchLock,       \* the dispatcher whose thread holds it, or Null
  sRecycledAllocator,  \* an allocator, by its number; 0 before there is one
  made,                \* the number of allocators made so far
  mAllocator,          \* each dispatcher's allocator
  allocator,           \* run()'s local variable of that name
  mActiveActors,
  actors,              \* run()'s local list
  mOutgoingMessages,
  mActive,             \* of each actor
  mQueuedMessages,
  mIncomingMessages,
  pc,                  \* where each thread is
  cursor,              \* its iterator over messages: is there a current, a subsequent
  iterator,            \* its iterator over actors
  running,             \* the actor whose code it runs, or Null
  activating,          \* what activateActor() has in hand after it read a clear
                       \* mActive, and whether it has linked the actor
  events,
  sent,                \* every message queued so far: its route
  handled              \* the numbers of the messages whose handle() has been called

recycling == <<sDispatchLock, sRecycledAllocator, made, mAllocator, allocator>>
activity == <<mActiveActors, actors, mActive>>
queues == <<mOutgoingMessages, mQueuedMessages, mIncomingMessages>>
control == <<cursor, iterator, running, activating, events>>
record == <<sent, handled>>
vars == <<recycling, activity, queues, pc, control, record>>

\* Dispatcher():   "new", "newLock", "newCheck", "newRecycled", "newUnlock"
\* before run():   "setup"
\* run():          "top", "lockOutgoing", "outgoing", "collect",
\*                 "lockIncoming", "incoming",
\*                 "readRecycled", "writeRecycled", "writeAllocator", "unlock"
\*                 "poll" in epoll_wait, "sources" in a callback
\* handleMessages: "messages"
\* after it:       "requeue", "retire", "putAway"
\* "lost":         the loop over the actors has come into another list;
\*                 what it does there is not modelled
Location ==
  {"new", "newLock", "newCheck", "newRecycled", "newUnlock", "setup", "top",
   "lockOutgoing", "outgoing", "collect", "lockIncoming", "incoming",
   "readRecycled", "writeRecycled", "writeAllocator", "unlock",
   "poll", "sources", "messages", "requeue", "retire", "putAway", "lost"}

Nothing == [actor |-> Null, list |-> Null, linked |-> FALSE]
NoCursor == [current |-> FALSE, subsequent |-> FALSE]
Nowhere == [current |-> Null, subsequent |-> Null]

Init ==
  /\ sDispatchLock = Null
  /\ sRecycledAllocator = 0
  /\ made = 0
  /\ mAllocator = [d \in Dispatcher |-> 0]
  /\ allocator = [d \in Dispatcher |-> 0]
  /\ mActiveActors = [d \in Dispatcher |-> <<>>]
  /\ actors = [d \in Dispatcher |-> <<>>]
  /\ mOutgoingMessages = [d \in Dispatcher |-> <<>>]
  /\ mActive = [a \in Actor |-> FALSE]
  /\ mQueuedMessages = [a \in Actor |-> <<>>]
  /\ mIncomingMessages = [a \in Actor |-> <<>>]
  /\ pc = [d \in Dispatcher |-> "new"]
  /\ cursor = [d \in Dispatcher |-> NoCursor]
  /\ iterator = [d \in Dispatcher |-> Nowhere]
  /\ running = [d \in Dispatcher |-> Null]
  /\ activating = [d \in Dispatcher |-> Nothing]
  /\ events = 0
  /\ sent = <<>>
  /\ handled = {}

Goto(d, from, to) ==
  /\ pc[d] = from
  /\ activating[d] = Nothing
  /\ pc' = [pc EXCEPT ![d] = to]

-----------------------------------------------------------------------------
(* The lock *)

\* A slip: tryLock() called and its result ignored.
AcquireRegardless(d) == sDispatchLock' = d

Acquire(d) ==
  /\ sDispatchLock = Null
  /\ sDispatchLock' = d

Release(d) ==
  /\ sDispatchLock = d
  /\ sDispatchLock' = Null

-----------------------------------------------------------------------------
(* Dispatcher::Dispatcher *)

OwnAllocator(d) ==
  /\ Goto(d, "new", "newLock")
  /\ made' = made + 1
  /\ mAllocator' = [mAllocator EXCEPT ![d] = made']
  /\ UNCHANGED <<sDispatchLock, sRecycledAllocator, allocator,
                 activity, queues, control, record>>

LockConstructor(d) ==
  /\ Goto(d, "newLock", "newCheck")
  /\ Acquire(d)
  /\ UNCHANGED <<sRecycledAllocator, made, mAllocator, allocator,
                 activity, queues, control, record>>

CheckRecycled(d) ==
  /\ Goto(d, "newCheck", IF sRecycledAllocator = 0 THEN "newRecycled" ELSE "newUnlock")
  /\ UNCHANGED <<recycling, activity, queues, control, record>>

NewRecycled(d) ==
  /\ Goto(d, "newRecycled", "newUnlock")
  /\ made' = made + 1
  /\ sRecycledAllocator' = made'
  /\ UNCHANGED <<sDispatchLock, mAllocator, allocator,
                 activity, queues, control, record>>

UnlockConstructor(d) ==
  /\ Goto(d, "newUnlock", "setup")
  /\ Release(d)
  /\ UNCHANGED <<sRecycledAllocator, made, mAllocator, allocator,
                 activity, queues, control, record>>

StartRun(d) ==
  /\ Goto(d, "setup", "top")
  /\ UNCHANGED <<recycling, activity, queues, control, record>>

-----------------------------------------------------------------------------
(* addTail: it takes an item out of any list the item is in.  A message is   *)
(* in one at most, its own.                                                  *)

\* A slip: addHead for addTail.
QueuedAtHead(messages, m) == S!Cons(m, messages)

Queued(messages, m) == Append(messages, m)

\* An actor is in a list once at most.
PlaceOf(list, a) == CHOOSE k \in DOMAIN list : list[k] = a

Without(lists, a) ==
  [d \in Dispatcher |-> IF S!Contains(lists[d], a)
                        THEN S!RemoveAt(lists[d], PlaceOf(lists[d], a))
                        ELSE lists[d]]

AddActive(a, d) ==
  /\ mActiveActors' = [Without(mActiveActors, a) EXCEPT ![d] = Append(@, a)]
  /\ actors' = Without(actors, a)

\* activateActor() of dispatcher list, called by the thread of d, comes in three
\* steps: the test of mActive and, when it is clear, the list and the flag.
TestActive(d, a, list) ==
  activating' = [activating EXCEPT ![d] =
    IF mActive[a] THEN Nothing ELSE [actor |-> a, list |-> list, linked |-> FALSE]]

AddActivated(d) ==
  /\ activating[d] # Nothing /\ ~activating[d].linked
  /\ AddActive(activating[d].actor, activating[d].list)
  /\ activating' = [activating EXCEPT ![d].linked = TRUE]
  /\ UNCHANGED <<recycling, mActive, queues, pc, cursor, iterator, running, events, record>>

\* A slip: the flag forgotten.
LeaveUnmarked(d) ==
  /\ activating[d] # Nothing /\ activating[d].linked
  /\ activating' = [activating EXCEPT ![d] = Nothing]
  /\ UNCHANGED <<recycling, activity, queues, pc, cursor, iterator, running, events, record>>

MarkActive(d) ==
  /\ activating[d] # Nothing /\ activating[d].linked
  /\ mActive' = [mActive EXCEPT ![activating[d].actor] = TRUE]
  /\ activating' = [activating EXCEPT ![d] = Nothing]
  /\ UNCHANGED <<recycling, mActiveActors, actors, queues, pc, cursor, iterator,
                 running, events, record>>

-----------------------------------------------------------------------------
(* run(): outgoing and incoming messages *)

CursorOf(messages) == [current |-> Len(messages) > 0, subsequent |-> Len(messages) > 1]

\* The node fetched before, and the one behind it.
CursorAdvanced(c, rest) ==
  [current |-> c.subsequent, subsequent |-> c.subsequent /\ Len(rest) > 1]

BeginCycle(d) ==
  /\ Goto(d, "top", IF mOutgoingMessages[d] = <<>> THEN "collect" ELSE "lockOutgoing")
  /\ UNCHANGED <<recycling, activity, queues, control, record>>

LockOutgoing(d) ==
  /\ Goto(d, "lockOutgoing", "outgoing")
  /\ Acquire(d)
  /\ cursor' = [cursor EXCEPT ![d] = CursorOf(mOutgoingMessages[d])]
  /\ UNCHANGED <<sRecycledAllocator, made, mAllocator, allocator,
                 activity, queues, iterator, running, activating, events, record>>

\* A slip: the receiver not activated.
QueueOutgoingAsleep(d) ==
  /\ Goto(d, "outgoing", "outgoing")
  /\ cursor[d].current
  /\ LET m == Head(mOutgoingMessages[d])
         rest == Tail(mOutgoingMessages[d])
     IN  /\ mQueuedMessages' = [mQueuedMessages EXCEPT ![sent[m].to] = Queued(@, m)]
         /\ mOutgoingMessages' = [mOutgoingMessages EXCEPT ![d] = rest]
         /\ cursor' = [cursor EXCEPT ![d] = CursorAdvanced(@, rest)]
  /\ UNCHANGED <<recycling, activity, mIncomingMessages, iterator, running,
                 activating, events, record>>

QueueOutgoing(d) ==
  /\ Goto(d, "outgoing", "outgoing")
  /\ cursor[d].current
  /\ LET m == Head(mOutgoingMessages[d])
         rest == Tail(mOutgoingMessages[d])
         receiver == sent[m].to
     IN  /\ mQueuedMessages' = [mQueuedMessages EXCEPT ![receiver] = Queued(@, m)]
         /\ mOutgoingMessages' = [mOutgoingMessages EXCEPT ![d] = rest]
         /\ cursor' = [cursor EXCEPT ![d] = CursorAdvanced(@, rest)]
         /\ TestActive(d, receiver, d)
  /\ UNCHANGED <<recycling, activity, mIncomingMessages, iterator, running, events, record>>

OutgoingDone(d) ==
  /\ Goto(d, "outgoing", "collect")
  /\ ~cursor[d].current
  /\ UNCHANGED <<recycling, activity, queues, control, record>>

\* actors is empty here: the last cycle has put every actor elsewhere.
Collect(d) ==
  LET all == actors[d] \o mActiveActors[d]
      next == IF sDispatchLock = d THEN "incoming"
              ELSE IF all # <<>> THEN "lockIncoming"
              ELSE "poll"
  IN  /\ Goto(d, "collect", next)
      /\ actors' = [actors EXCEPT ![d] = all]
      /\ mActiveActors' = [mActiveActors EXCEPT ![d] = <<>>]
      /\ UNCHANGED <<recycling, mActive, queues, control, record>>

LockIncoming(d) ==
  /\ Goto(d, "lockIncoming", "incoming")
  /\ Acquire(d)
  /\ UNCHANGED <<sRecycledAllocator, made, mAllocator, allocator,
                 activity, queues, control, record>>

\* A slip: the queued messages added to the incoming ones, and kept.
TakeQueuedCopying(d) ==
  /\ Goto(d, "incoming", "readRecycled")
  /\ mIncomingMessages' = [a \in Actor |->
       IF S!Contains(actors[d], a) THEN mIncomingMessages[a] \o mQueuedMessages[a]
       ELSE mIncomingMessages[a]]
  /\ UNCHANGED <<recycling, activity, mOutgoingMessages, mQueuedMessages, control, record>>

TakeQueued(d) ==
  /\ Goto(d, "incoming", "readRecycled")
  /\ LET takes(a) == S!Contains(actors[d], a)
     IN  /\ mIncomingMessages' = [a \in Actor |->
              IF takes(a) THEN mIncomingMessages[a] \o mQueuedMessages[a]
              ELSE mIncomingMessages[a]]
         /\ mQueuedMessages' = [a \in Actor |-> IF takes(a) THEN <<>> ELSE mQueuedMessages[a]]
  /\ UNCHANGED <<recycling, activity, mOutgoingMessages, control, record>>

-----------------------------------------------------------------------------
(* run(): the allocators are swapped *)

ReadRecycled(d) ==
  /\ Goto(d, "readRecycled", "writeRecycled")
  /\ allocator' = [allocator EXCEPT ![d] = sRecycledAllocator]
  /\ UNCHANGED <<sDispatchLock, sRecycledAllocator, made, mAllocator,
                 activity, queues, control, record>>

WriteRecycled(d) ==
  /\ Goto(d, "writeRecycled", "writeAllocator")
  /\ sRecycledAllocator' = mAllocator[d]
  /\ UNCHANGED <<sDispatchLock, made, mAllocator, allocator,
                 activity, queues, control, record>>

WriteAllocator(d) ==
  /\ Goto(d, "writeAllocator", "unlock")
  /\ mAllocator' = [mAllocator EXCEPT ![d] = allocator[d]]
  /\ UNCHANGED <<sDispatchLock, sRecycledAllocator, made, allocator,
                 activity, queues, control, record>>

Unlock(d) ==
  /\ Goto(d, "unlock", "poll")
  /\ Release(d)
  /\ UNCHANGED <<sRecycledAllocator, made, mAllocator, allocator,
                 activity, queues, control, record>>

-----------------------------------------------------------------------------
(* epoll_wait, the sources, and the loop over the actors *)

Following(list, a) ==
  IF PlaceOf(list, a) < Len(list) THEN list[PlaceOf(list, a) + 1] ELSE Null

\* The loop over the actors goes on at node, in the list of actors given.
Come(d, from, node, list) ==
  /\ Goto(d, from, IF node = Null THEN "top"
                   ELSE IF S!Contains(list, node) THEN "messages" ELSE "lost")
  /\ iterator' = [iterator EXCEPT ![d] =
       IF node = Null \/ ~S!Contains(list, node) THEN Nowhere
       ELSE [current |-> node, subsequent |-> Following(list, node)]]
  /\ cursor' = [cursor EXCEPT ![d] =
       IF node = Null THEN NoCursor ELSE CursorOf(mIncomingMessages[node])]

Begin(d, from) ==
  Come(d, from, IF actors[d] = <<>> THEN Null ELSE Head(actors[d]), actors[d])

PollReturns(d) ==
  /\ actors[d] # <<>>
  /\ Begin(d, "poll")
  /\ UNCHANGED <<recycling, activity, queues, running, activating, events, record>>

\* A signal ends the call, and the loop goes on as after a timeout.
PollInterrupted(d) ==
  /\ Begin(d, "poll")
  /\ UNCHANGED <<recycling, activity, queues, running, activating, events, record>>

SourceReady(d, a) ==
  /\ a \in Rooted /\ Home[a] = d
  /\ running[d] = Null
  /\ events < MaxEvents
  /\ \/ Goto(d, "poll", "sources")
     \/ Goto(d, "sources", "sources")
  /\ running' = [running EXCEPT ![d] = a]
  /\ events' = events + 1
  /\ UNCHANGED <<recycling, activity, queues, cursor, iterator, activating, record>>

SourceReturns(d) ==
  /\ Goto(d, "sources", "sources")
  /\ running[d] # Null
  /\ running' = [running EXCEPT ![d] = Null]
  /\ UNCHANGED <<recycling, activity, queues, cursor, iterator, activating, events, record>>

SourcesDone(d) ==
  /\ running[d] = Null
  /\ Begin(d, "sources")
  /\ UNCHANGED <<recycling, activity, queues, running, activating, events, record>>

-----------------------------------------------------------------------------
(* Actor::handleMessages and what run() does after it *)

\* A thread that is at a message which another thread has taken - under
\* OneThreadRule none is - does not get on.
HandleMessage(d) ==
  /\ Goto(d, "messages", "messages")
  /\ running[d] = Null
  /\ cursor[d].current
  /\ mIncomingMessages[iterator[d].current] # <<>>
  /\ running' = [running EXCEPT ![d] = iterator[d].current]
  /\ handled' = handled \cup {Head(mIncomingMessages[iterator[d].current])}
  /\ UNCHANGED <<recycling, activity, queues, cursor, iterator, activating, events, sent>>

MessageReturns(d) ==
  /\ Goto(d, "messages", "messages")
  /\ running[d] # Null
  /\ mIncomingMessages[running[d]] # <<>>
  /\ LET rest == Tail(mIncomingMessages[running[d]])
     IN  /\ mIncomingMessages' = [mIncomingMessages EXCEPT ![running[d]] = rest]
         /\ cursor' = [cursor EXCEPT ![d] = CursorAdvanced(@, rest)]
  /\ running' = [running EXCEPT ![d] = Null]
  /\ UNCHANGED <<recycling, activity, mOutgoingMessages, mQueuedMessages,
                 iterator, activating, events, record>>

\* The test of mIncomingMessages; what follows from it are steps of their own.
MessagesDone(d) ==
  /\ Goto(d, "messages",
          IF mIncomingMessages[iterator[d].current] # <<>> THEN "requeue" ELSE "retire")
  /\ running[d] = Null
  /\ ~cursor[d].current
  /\ UNCHANGED <<recycling, activity, queues, control, record>>

Requeue(d) ==
  /\ AddActive(iterator[d].current, d)
  /\ Come(d, "requeue", iterator[d].subsequent, actors'[d])
  /\ UNCHANGED <<recycling, mActive, queues, running, activating, events, record>>

Retire(d) ==
  /\ Goto(d, "retire", "putAway")
  /\ mActive' = [mActive EXCEPT ![iterator[d].current] = FALSE]
  /\ UNCHANGED <<recycling, mActiveActors, actors, queues, control, record>>

\* To mPassiveActors, out of any list of active actors.
PutAway(d) ==
  /\ mActiveActors' = Without(mActiveActors, iterator[d].current)
  /\ actors' = Without(actors, iterator[d].current)
  /\ Come(d, "putAway", iterator[d].subsequent, actors'[d])
  /\ UNCHANGED <<recycling, mActive, queues, running, activating, events, record>>

-----------------------------------------------------------------------------
(* Application code in the thread of d *)

CodeOf(d, a) ==
  \/ running[d] = a
  \/ pc[d] = "setup" /\ Home[a] = d /\ a \in Rooted

\* Dispatcher::queueMessage of the sender's or of the receiver's dispatcher.
queueMessage(d, route) ==
  LET queue == Home[IF route.via = "sender" THEN route.from ELSE route.to]
      m == Len(sent) + 1
  IN  /\ CodeOf(d, route.from)
      /\ activating[d] = Nothing
      /\ Len(sent) < MaxMessages
      /\ sent' = Append(sent, route)
      /\ IF Home[route.from] = Home[route.to]
         THEN /\ mIncomingMessages' = [mIncomingMessages EXCEPT ![route.to] = Queued(@, m)]
              /\ TestActive(d, route.to, queue)
              /\ UNCHANGED mOutgoingMessages
         ELSE /\ mOutgoingMessages' = [mOutgoingMessages EXCEPT ![queue] = Queued(@, m)]
              /\ UNCHANGED <<mIncomingMessages, activating>>
      /\ UNCHANGED <<recycling, activity, mQueuedMessages, pc, cursor, iterator,
                     running, events, handled>>

Thread(d) ==
  \/ OwnAllocator(d) \/ LockConstructor(d) \/ CheckRecycled(d) \/ NewRecycled(d)
  \/ UnlockConstructor(d) \/ StartRun(d)
  \/ BeginCycle(d) \/ LockOutgoing(d) \/ QueueOutgoing(d) \/ OutgoingDone(d)
  \/ AddActivated(d) \/ MarkActive(d)
  \/ Collect(d) \/ LockIncoming(d) \/ TakeQueued(d)
  \/ ReadRecycled(d) \/ WriteRecycled(d) \/ WriteAllocator(d) \/ Unlock(d)
  \/ PollReturns(d) \/ SourceReturns(d) \/ SourcesDone(d)
  \/ HandleMessage(d) \/ MessageReturns(d) \/ MessagesDone(d)
  \/ Requeue(d) \/ Retire(d) \/ PutAway(d)

Next ==
  \E d \in Dispatcher :
    \/ Thread(d)
    \/ PollInterrupted(d)
    \/ \E a \in Actor : SourceReady(d, a)
    \/ \E route \in Routes : queueMessage(d, route)

Spec == Init /\ [][Next]_vars

\* Every thread runs and every callback returns.  No event need come, no
\* signal, and no application code need send anything.
FairSpec == Spec /\ \A d \in Dispatcher : WF_vars(Thread(d))

-----------------------------------------------------------------------------
TypeOK ==
  /\ sDispatchLock \in Dispatcher \cup {Null}
  /\ sRecycledAllocator \in 0..made
  /\ made \in Nat
  /\ mAllocator \in [Dispatcher -> 0..made]
  /\ allocator \in [Dispatcher -> 0..made]
  /\ mActive \in [Actor -> BOOLEAN]
  /\ pc \in [Dispatcher -> Location]
  /\ \A d \in Dispatcher : pc[d] # "new" => mAllocator[d] # 0

\* Application code allocates and frees memory without a lock: outside the
\* three assignments that swap it, a dispatcher's allocator is nobody else's,
\* and not the one that the next dispatcher will take.
AllocatorsDisjoint ==
  \A d \in Dispatcher : mAllocator[d] # 0 =>
    /\ \A e \in Dispatcher \ {d} : mAllocator[e] # mAllocator[d]
    /\ sDispatchLock # d => sRecycledAllocator # mAllocator[d]

\* The actors whose code, queue or flag the thread of d is in the middle of.
InHand(d) == {iterator[d].current, running[d]} \ {Null}

\* The rule for Routes: actors that send to each other run in one thread, and
\* queue with its dispatcher.  The outgoing messages of another are appended to
\* without a lock while their owner may walk them, and a dispatcher that
\* sleeps is not woken (dispatcher.h:131).  To itself an actor may send by
\* either, being active.
Crosses(route) == Home[route.from] # Home[route.to]

QueueOf(route) == Home[IF route.via = "sender" THEN route.from ELSE route.to]

OneThreadRule(runs) ==
  /\ runs \in [Actor -> Dispatcher]
  /\ \A a \in Rooted : runs[a] = Home[a]
  /\ \A route \in Routes :
       /\ runs[route.to] = runs[route.from]
       /\ route.from # route.to => QueueOf(route) = runs[route.from]

\* No two threads run one actor: actors need no locks of their own.
OneThread ==
  \A d, e \in Dispatcher : d # e => InHand(d) \cap InHand(e) = {}

Numbers == DOMAIN sent

Places(m) ==
  LET in(queue, name, owner) ==
        {<<name, owner, k>> : k \in {i \in DOMAIN queue : queue[i] = m}}
  IN  (UNION {in(mOutgoingMessages[d], "outgoing", d) : d \in Dispatcher})
      \cup (UNION {in(mQueuedMessages[a], "queued", a) : a \in Actor})
      \cup (UNION {in(mIncomingMessages[a], "incoming", a) : a \in Actor})

BeingHandled(m) ==
  \E d \in Dispatcher :
    /\ pc[d] = "messages" /\ running[d] # Null
    /\ Head(mIncomingMessages[running[d]]) = m

\* On its way to an actor of the other dispatcher a message is in exactly one
\* queue, its receiver's once it has left the dispatcher that queued it, until
\* its handler has returned.
MessagesConserved ==
  \A m \in Numbers :
    /\ Cardinality(Places(m)) = IF m \in handled /\ ~BeingHandled(m) THEN 0 ELSE 1
    /\ \A p \in Places(m) : p[1] # "outgoing" => p[2] = sent[m].to

\* Messages of one sender to one receiver are handled in the order in which
\* they were queued, across the three queues.
FirstInFirstHandled ==
  \A m \in handled : \A k \in 1..(m - 1) : sent[k] = sent[m] => k \in handled

\* However threads interleave at the lock, a message to an actor of the same or
\* of another dispatcher is handled once, after those before it, and lost
\* nowhere on its way (dispatcher.cpp:90-112, actor.cpp:58).
HandledOnceInOrder == MessagesConserved /\ FirstInFirstHandled

\* Every message queued to an actor is eventually handled.
EventuallyHandled ==
  \A m \in 1..MaxMessages : (m \in Numbers) ~> (m \in handled)
=============================================================================

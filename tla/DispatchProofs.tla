--------------------------- MODULE DispatchProofs ---------------------------
(***************************************************************************)
(* For every number of dispatchers and actors: allocators change hands     *)
(* without ever being shared, whatever the actors send to each other; and  *)
(* where each actor is sent messages in one thread, it runs in one, and a  *)
(* message is lost nowhere, handled once and in order.                     *)
(***************************************************************************)
EXTENDS Dispatch, Spinlock, TLAPS, SequenceTheorems, FiniteSetTheorems

Critical == {"newCheck", "newRecycled", "newUnlock", "outgoing", "incoming",
             "readRecycled", "writeRecycled", "writeAllocator", "unlock"}
Building == {"new", "newLock", "newCheck", "newRecycled"}

\* TypeOK but for mActive, which has no part in this.
Typed ==
  /\ sDispatchLock \in Dispatcher \cup {Null}
  /\ made \in Nat
  /\ sRecycledAllocator \in 0..made
  /\ mAllocator \in [Dispatcher -> 0..made]
  /\ allocator \in [Dispatcher -> 0..made]
  /\ pc \in [Dispatcher -> Location]

\* The critical sections are inside the lock.
Locked == \A d \in Dispatcher : pc[d] \in Critical => sDispatchLock = d

\* From the constructor's end on there is an allocator to take.
Present ==
  \A d \in Dispatcher :
    /\ pc[d] # "new" => mAllocator[d] # 0
    /\ pc[d] \notin Building => sRecycledAllocator # 0

Distinct ==
  \A d, e \in Dispatcher : d # e /\ mAllocator[d] # 0 => mAllocator[e] # mAllocator[d]

\* Between its last two assignments a swapping dispatcher shares its old
\* allocator with sRecycledAllocator; nobody else has the one it takes.
Unshared ==
  \A d \in Dispatcher :
    mAllocator[d] # 0 /\ pc[d] # "writeAllocator" => sRecycledAllocator # mAllocator[d]

Swapping ==
  \A d \in Dispatcher :
    /\ pc[d] = "writeRecycled" => allocator[d] = sRecycledAllocator
    /\ pc[d] = "writeAllocator" =>
         /\ allocator[d] # 0
         /\ sRecycledAllocator = mAllocator[d]
         /\ \A e \in Dispatcher : mAllocator[e] # allocator[d]

IInv == Typed /\ Locked /\ Present /\ Distinct /\ Unshared /\ Swapping

-----------------------------------------------------------------------------
\* A step that leaves the recycling alone and moves the thread of d to a
\* place where it has nothing new to rely on keeps the invariant.
LEMMA QuietStep ==
  ASSUME IInv, UNCHANGED recycling,
         NEW d \in Dispatcher, NEW to \in Location,
         pc' = [pc EXCEPT ![d] = to],
         pc[d] \notin {"new", "writeAllocator"},
         pc[d] \in Building => to \in Building \/ sRecycledAllocator # 0,
         to \notin {"new", "writeRecycled", "writeAllocator"},
         to \in Critical => sDispatchLock = d
  PROVE  IInv'
<1>1. Typed'
  BY DEF IInv, Typed, recycling
<1>2. Locked'
  BY DEF IInv, Typed, Locked, recycling
<1>3. Present'
  BY DEF IInv, Typed, Present, recycling, Building
<1>4. Distinct'
  BY DEF IInv, Distinct, recycling
<1>5. Unshared'
  BY DEF IInv, Typed, Unshared, recycling
<1>6. Swapping'
  BY DEF IInv, Typed, Swapping, recycling
<1>. QED
  BY <1>1, <1>2, <1>3, <1>4, <1>5, <1>6 DEF IInv

\* A step that moves no thread and leaves the recycling alone.
LEMMA StillStep ==
  ASSUME IInv, UNCHANGED <<recycling, pc>>
  PROVE  IInv'
BY DEF IInv, Typed, Locked, Present, Distinct, Unshared, Swapping, recycling

\* Taking the lock: nobody else is in a critical section.
LEMMA AcquireStep ==
  ASSUME IInv, NEW d \in Dispatcher, Acquire(d),
         UNCHANGED <<sRecycledAllocator, made, mAllocator, allocator>>,
         NEW to \in Critical \cap Location,
         pc' = [pc EXCEPT ![d] = to],
         pc[d] \notin {"new", "writeAllocator"},
         pc[d] \in Building => to \in Building,
         to \notin {"writeRecycled", "writeAllocator"}
  PROVE  IInv'
<1>0. \A e \in Dispatcher : pc[e] \notin Critical
  BY DispatchAssumption DEF IInv, Locked, Acquire
<1>1. Typed'
  BY DEF IInv, Typed, Acquire
<1>2. Locked'
  BY <1>0 DEF IInv, Typed, Locked, Acquire
<1>3. Present'
  BY DEF IInv, Typed, Present, Building, Critical
<1>4. Distinct'
  BY DEF IInv, Distinct
<1>5. Unshared'
  BY DEF IInv, Typed, Unshared
<1>6. Swapping'
  BY DEF IInv, Typed, Swapping
<1>. QED
  BY <1>1, <1>2, <1>3, <1>4, <1>5, <1>6 DEF IInv

\* Leaving the lock.
LEMMA ReleaseStep ==
  ASSUME IInv, NEW d \in Dispatcher, Release(d),
         UNCHANGED <<sRecycledAllocator, made, mAllocator, allocator>>,
         NEW to \in Location \ (Critical \cup Building),
         pc' = [pc EXCEPT ![d] = to],
         pc[d] \in {"newUnlock", "unlock"}
  PROVE  IInv'
<1>1. Typed'
  BY DEF IInv, Typed, Release
<1>2. Locked'
  BY DEF IInv, Typed, Locked, Release
<1>3. Present'
  BY DEF IInv, Typed, Present, Building
<1>4. Distinct'
  BY DEF IInv, Distinct
<1>5. Unshared'
  BY DEF IInv, Typed, Unshared, Critical
<1>6. Swapping'
  BY DEF IInv, Typed, Swapping, Critical
<1>. QED
  BY <1>1, <1>2, <1>3, <1>4, <1>5, <1>6 DEF IInv

-----------------------------------------------------------------------------
\* The steps of the protocol proper.
LEMMA OwnAllocatorStep ==
  ASSUME IInv, NEW d \in Dispatcher, OwnAllocator(d) PROVE IInv'
<1>. USE DEF OwnAllocator, Goto
<1>1. Typed'
  BY DEF IInv, Typed, Location
<1>2. Locked'
  BY DEF IInv, Typed, Locked, Critical
<1>3. Present'
  BY DEF IInv, Typed, Present, Building
<1>4. Distinct'
  BY DEF IInv, Typed, Distinct
<1>5. Unshared'
  BY DEF IInv, Typed, Unshared
<1>6. Swapping'
  BY DEF IInv, Typed, Swapping
<1>. QED
  BY <1>1, <1>2, <1>3, <1>4, <1>5, <1>6 DEF IInv

LEMMA NewRecycledStep ==
  ASSUME IInv, NEW d \in Dispatcher, NewRecycled(d) PROVE IInv'
<1>. USE DEF NewRecycled, Goto
<1>0. \A e \in Dispatcher : e # d => pc[e] \notin Critical
  BY DEF IInv, Locked, Critical
<1>1. Typed'
  BY DEF IInv, Typed, Location
<1>2. Locked'
  BY DEF IInv, Typed, Locked, Critical
<1>3. Present'
  BY DEF IInv, Typed, Present, Building
<1>4. Distinct'
  BY DEF IInv, Typed, Distinct
<1>5. Unshared'
  BY DEF IInv, Typed, Unshared
<1>6. Swapping'
  BY <1>0 DEF IInv, Typed, Swapping, Critical
<1>. QED
  BY <1>1, <1>2, <1>3, <1>4, <1>5, <1>6 DEF IInv

LEMMA ReadRecycledStep ==
  ASSUME IInv, NEW d \in Dispatcher, ReadRecycled(d) PROVE IInv'
<1>. USE DEF ReadRecycled, Goto
<1>1. Typed'
  BY DEF IInv, Typed, Location
<1>2. Locked'
  BY DEF IInv, Typed, Locked, Critical
<1>3. Present'
  BY DEF IInv, Typed, Present, Building
<1>4. Distinct'
  BY DEF IInv, Typed, Distinct
<1>5. Unshared'
  BY DEF IInv, Typed, Unshared
<1>6. Swapping'
  BY DEF IInv, Typed, Swapping
<1>. QED
  BY <1>1, <1>2, <1>3, <1>4, <1>5, <1>6 DEF IInv

\* What the thread is about to take is nobody's: all the others have theirs.
LEMMA WriteRecycledStep ==
  ASSUME IInv, NEW d \in Dispatcher, WriteRecycled(d) PROVE IInv'
<1>. USE DEF WriteRecycled, Goto
<1>0. \A e \in Dispatcher : e # d => pc[e] \notin Critical
  BY DEF IInv, Locked, Critical
<1>1. Typed'
  BY DEF IInv, Typed, Location
<1>2. Locked'
  BY DEF IInv, Typed, Locked, Critical
<1>3. Present'
  BY DEF IInv, Typed, Present, Building
<1>4. Distinct'
  BY DEF IInv, Typed, Distinct
<1>5. Unshared'
  BY DEF IInv, Typed, Distinct, Present, Unshared
<1>6. Swapping'
  <2>1. allocator[d] # 0 /\ \A e \in Dispatcher : mAllocator[e] # allocator[d]
    BY <1>0 DEF IInv, Present, Building, Swapping, Unshared, Critical
  <2>2. QED
    BY <1>0, <2>1 DEF IInv, Typed, Swapping, Critical
<1>. QED
  BY <1>1, <1>2, <1>3, <1>4, <1>5, <1>6 DEF IInv

LEMMA WriteAllocatorStep ==
  ASSUME IInv, NEW d \in Dispatcher, WriteAllocator(d) PROVE IInv'
<1>. USE DEF WriteAllocator, Goto
<1>0. \A e \in Dispatcher : e # d => pc[e] \notin Critical
  BY DEF IInv, Locked, Critical
<1>1. Typed'
  BY DEF IInv, Typed, Location
<1>2. Locked'
  BY DEF IInv, Typed, Locked, Critical
<1>3. Present'
  BY DEF IInv, Typed, Present, Building, Swapping
<1>4. Distinct'
  BY DEF IInv, Typed, Distinct, Swapping
<1>5. Unshared'
  BY <1>0 DEF IInv, Typed, Unshared, Swapping, Critical
<1>6. Swapping'
  BY <1>0 DEF IInv, Typed, Swapping, Critical
<1>. QED
  BY <1>1, <1>2, <1>3, <1>4, <1>5, <1>6 DEF IInv

-----------------------------------------------------------------------------
LEMMA InitialState == Init => IInv
BY DEF Init, IInv, Typed, Locked, Present, Distinct, Unshared, Swapping,
       Location, Critical, Building

\* The thread of one dispatcher, action by action.
LEMMA ThreadStep ==
  ASSUME IInv, NEW d \in Dispatcher, Thread(d) PROVE IInv'
<1>. USE DEF Goto, Location
<1>1. CASE OwnAllocator(d)
  BY <1>1, OwnAllocatorStep
<1>2. CASE LockConstructor(d)
  <2>1. "newCheck" \in Critical \cap Location
    BY DEF Critical
  <2>. QED
    BY <1>2, <2>1, AcquireStep DEF LockConstructor, Building
<1>3. CASE CheckRecycled(d)
  <2>1. sDispatchLock = d
    BY <1>3 DEF CheckRecycled, IInv, Locked, Critical
  <2>2. CASE sRecycledAllocator = 0
    BY <1>3, <2>1, <2>2, QuietStep DEF CheckRecycled, Building
  <2>3. CASE sRecycledAllocator # 0
    BY <1>3, <2>1, <2>3, QuietStep DEF CheckRecycled, Building
  <2>. QED
    BY <2>2, <2>3
<1>4. CASE NewRecycled(d)
  BY <1>4, NewRecycledStep
<1>5. CASE UnlockConstructor(d)
  BY <1>5, ReleaseStep DEF UnlockConstructor, Critical, Building
<1>6. CASE StartRun(d)
  BY <1>6, QuietStep DEF StartRun, Building, Critical
<1>7. CASE BeginCycle(d)
  BY <1>7, QuietStep DEF BeginCycle, Building, Critical
<1>8. CASE LockOutgoing(d)
  <2>1. "outgoing" \in Critical \cap Location
    BY DEF Critical
  <2>. QED
    BY <1>8, <2>1, AcquireStep DEF LockOutgoing, Building
<1>9. CASE QueueOutgoing(d)
  <2>1. sDispatchLock = d
    BY <1>9 DEF QueueOutgoing, IInv, Locked, Critical
  <2>. QED
    BY <1>9, <2>1, QuietStep DEF QueueOutgoing, Building
<1>10. CASE AddActivated(d) \/ MarkActive(d)
  BY <1>10, StillStep DEF AddActivated, MarkActive
<1>11. CASE OutgoingDone(d)
  BY <1>11, QuietStep DEF OutgoingDone, Building, Critical
<1>12. CASE Collect(d)
  <2>. DEFINE next == IF sDispatchLock = d THEN "incoming"
                      ELSE IF actors[d] \o mActiveActors[d] # <<>> THEN "lockIncoming"
                      ELSE "poll"
  <2>1. /\ pc[d] = "collect"
        /\ pc' = [pc EXCEPT ![d] = next]
        /\ UNCHANGED recycling
    BY <1>12 DEF Collect
  <2>2. /\ next \in {"incoming", "lockIncoming", "poll"}
        /\ next \in Critical => sDispatchLock = d
    BY DEF Critical
  <2>. HIDE DEF next
  <2>. QED
    BY <2>1, <2>2, QuietStep, ZenonT(60) DEF Building
<1>13. CASE LockIncoming(d)
  <2>1. "incoming" \in Critical \cap Location
    BY DEF Critical
  <2>. QED
    BY <1>13, <2>1, AcquireStep DEF LockIncoming, Building
<1>14. CASE TakeQueued(d)
  <2>1. sDispatchLock = d
    BY <1>14 DEF TakeQueued, IInv, Locked, Critical
  <2>. QED
    BY <1>14, <2>1, QuietStep DEF TakeQueued, Building
<1>15. CASE ReadRecycled(d)
  BY <1>15, ReadRecycledStep
<1>16. CASE WriteRecycled(d)
  BY <1>16, WriteRecycledStep
<1>17. CASE WriteAllocator(d)
  BY <1>17, WriteAllocatorStep
<1>18. CASE Unlock(d)
  BY <1>18, ReleaseStep DEF Unlock, Critical, Building
<1>19. CASE SourceReturns(d)
  BY <1>19, QuietStep DEF SourceReturns, Building, Critical
<1>20. CASE PollReturns(d) \/ SourcesDone(d) \/ Requeue(d) \/ PutAway(d)
  <2>1. PICK to \in {"top", "messages", "lost"} :
          /\ pc[d] \in {"poll", "sources", "requeue", "putAway"}
          /\ pc' = [pc EXCEPT ![d] = to]
          /\ UNCHANGED recycling
    BY <1>20 DEF PollReturns, SourcesDone, Requeue, PutAway, Begin, Come
  <2>. QED
    BY <2>1, QuietStep DEF Building, Critical
<1>21. CASE HandleMessage(d) \/ MessageReturns(d)
  BY <1>21, QuietStep DEF HandleMessage, MessageReturns, Building, Critical
<1>22. CASE MessagesDone(d) \/ Retire(d)
  BY <1>22, QuietStep DEF MessagesDone, Retire, Building, Critical
<1>. QED
  BY <1>1, <1>2, <1>3, <1>4, <1>5, <1>6, <1>7, <1>8, <1>9, <1>10, <1>11, <1>12,
     <1>13, <1>14, <1>15, <1>16, <1>17, <1>18, <1>19, <1>20, <1>21, <1>22
  DEF Thread

\* The environment and the applications never touch an allocator.
LEMMA NextStep == IInv /\ [Next]_vars => IInv'
<1>. SUFFICES ASSUME IInv, [Next]_vars PROVE IInv'
  OBVIOUS
<1>1. ASSUME NEW d \in Dispatcher, Thread(d) PROVE IInv'
  BY <1>1, ThreadStep
<1>2. ASSUME NEW d \in Dispatcher, PollInterrupted(d) PROVE IInv'
  <2>1. PICK to \in {"top", "messages", "lost"} :
          /\ pc[d] = "poll"
          /\ pc' = [pc EXCEPT ![d] = to]
          /\ UNCHANGED recycling
    BY <1>2 DEF PollInterrupted, Begin, Come, Goto
  <2>. QED
    BY <2>1, QuietStep DEF Building, Critical, Location
<1>3. ASSUME NEW d \in Dispatcher, NEW a \in Actor, SourceReady(d, a) PROVE IInv'
  <2>1. /\ pc[d] \in {"poll", "sources"}
        /\ pc' = [pc EXCEPT ![d] = "sources"]
        /\ UNCHANGED recycling
    BY <1>3 DEF SourceReady, Goto
  <2>. QED
    BY <2>1, QuietStep DEF Building, Critical, Location
<1>4. ASSUME NEW d \in Dispatcher, NEW route \in Routes, queueMessage(d, route) PROVE IInv'
  BY <1>4, StillStep DEF queueMessage
<1>5. CASE UNCHANGED vars
  BY <1>5, StillStep DEF vars
<1>. QED
  BY <1>1, <1>2, <1>3, <1>4, <1>5 DEF Next

LEMMA Inductive == Spec => []IInv
BY InitialState, NextStep, PTL DEF Spec

\* Outside the swap a dispatcher's allocator is its own: objects are made and
\* destroyed without a lock, by any number of threads.
THEOREM AllocatorsNeverShared == Spec => []AllocatorsDisjoint
<1>1. IInv => AllocatorsDisjoint
  BY DEF IInv, Locked, Distinct, Unshared, Critical, AllocatorsDisjoint
<1>. QED
  BY <1>1, Inductive, PTL

\* The variables keep their types, and no dispatcher that has been
\* constructed is without an allocator.
THEOREM TypeCorrect == Spec => []TypeOK
<1>. DEFINE Flags == mActive \in [Actor -> BOOLEAN]
<1>1. Init => Flags
  BY DEF Init
<1>2. Flags /\ [Next]_vars => Flags'
  <2>. SUFFICES ASSUME Flags, [Next]_vars PROVE Flags'
    OBVIOUS
  <2>1. CASE UNCHANGED mActive
    BY <2>1
  <2>2. ASSUME NEW d \in Dispatcher, MarkActive(d) PROVE Flags'
    BY <2>2 DEF MarkActive
  <2>3. ASSUME NEW d \in Dispatcher, Retire(d) PROVE Flags'
    BY <2>3 DEF Retire
  <2>4. ASSUME NEW d \in Dispatcher, Thread(d) PROVE Flags'
    BY <2>1, <2>2, <2>3, <2>4
    DEF Thread, activity, OwnAllocator, LockConstructor, CheckRecycled, NewRecycled,
        UnlockConstructor, StartRun, BeginCycle, LockOutgoing, QueueOutgoing,
        OutgoingDone, AddActivated, Collect, LockIncoming, TakeQueued, ReadRecycled,
        WriteRecycled, WriteAllocator, Unlock, PollReturns, SourceReturns, SourcesDone,
        HandleMessage, MessageReturns, MessagesDone, Requeue, PutAway
  <2>5. ASSUME NEW d \in Dispatcher, PollInterrupted(d) PROVE Flags'
    BY <2>1, <2>5 DEF PollInterrupted, activity
  <2>6. ASSUME NEW d \in Dispatcher, NEW a \in Actor, SourceReady(d, a) PROVE Flags'
    BY <2>1, <2>6 DEF SourceReady, activity
  <2>7. ASSUME NEW d \in Dispatcher, NEW route \in Routes, queueMessage(d, route) PROVE Flags'
    BY <2>1, <2>7 DEF queueMessage, activity
  <2>8. CASE UNCHANGED vars
    BY <2>1, <2>8 DEF vars, activity
  <2>. QED
    BY <2>4, <2>5, <2>6, <2>7, <2>8 DEF Next
<1>3. IInv /\ Flags => TypeOK
  BY DEF IInv, Typed, Present, TypeOK
<1>. QED
  BY <1>1, <1>2, <1>3, Inductive, PTL DEF Spec

-----------------------------------------------------------------------------
(* Actors that are each sent messages in one thread run in one *)

Elements(s) == {s[k] : k \in 1..Len(s)}

Once(s) == \A k, l \in 1..Len(s) : s[k] = s[l] => k = l

Shapes ==
  /\ mActiveActors \in [Dispatcher -> Seq(Actor)] /\ actors \in [Dispatcher -> Seq(Actor)]
  /\ mActive \in [Actor -> BOOLEAN]
  /\ pc \in [Dispatcher -> Location]
  /\ iterator \in [Dispatcher -> [current : Actor \cup {Null}, subsequent : Actor \cup {Null}]]
  /\ running \in [Dispatcher -> Actor \cup {Null}]
  /\ activating \in [Dispatcher -> [actor : Actor, list : Dispatcher, linked : BOOLEAN]
                                      \cup {Nothing}]

\* What a thread has in hand or in its lists runs in that thread.
InThread(runs) ==
  \A d \in Dispatcher :
    /\ \A a \in Elements(mActiveActors[d]) \cup Elements(actors[d]) : runs[a] = d
    /\ iterator[d].current # Null => runs[iterator[d].current] = d
    /\ iterator[d].subsequent # Null => runs[iterator[d].subsequent] = d
    /\ running[d] # Null => runs[running[d]] = d
    /\ activating[d] # Nothing => activating[d].list = d /\ runs[activating[d].actor] = d

AtActor == {"messages", "requeue", "retire", "putAway"}

\* Whose code a thread runs where, and that its actor is marked active.
Working ==
  \A d \in Dispatcher :
    /\ pc[d] \in AtActor => iterator[d].current \in Actor
    /\ pc[d] \notin {"messages", "sources"} => running[d] = Null
    /\ pc[d] = "messages" => running[d] \in {Null, iterator[d].current}
    /\ pc[d] = "sources" => running[d] \in Rooted \cup {Null}
    /\ pc[d] \in AtActor \ {"putAway"} => mActive[iterator[d].current]

\* Put away once its mark is gone, or marked once it is linked.
Between(d, a) ==
  \/ pc[d] = "putAway" /\ iterator[d].current = a
  \/ activating[d].linked /\ activating[d].actor = a

\* An actor is in one list once, and then marked active.
Linked ==
  \A d \in Dispatcher :
    /\ Once(actors[d]) /\ Once(mActiveActors[d])
    /\ \A a \in Elements(actors[d]) : a \notin Elements(mActiveActors[d])
    /\ \A a \in Elements(mActiveActors[d]) \cup Elements(actors[d]) :
         mActive[a] \/ Between(d, a)

Threads(runs) == Shapes /\ InThread(runs) /\ Working /\ Linked

MessageShapes ==
  /\ mOutgoingMessages \in [Dispatcher -> Seq(Nat)]
  /\ mQueuedMessages \in [Actor -> Seq(Nat)] /\ mIncomingMessages \in [Actor -> Seq(Nat)]
  /\ cursor \in [Dispatcher -> [current : BOOLEAN, subsequent : BOOLEAN]]
  /\ sent \in Seq(Routes)

\* A thread that takes outgoing messages finds what its iterator has promised.
Cursors ==
  \A d \in Dispatcher : pc[d] = "outgoing" =>
    /\ cursor[d].current => Len(mOutgoingMessages[d]) > 0
    /\ cursor[d].subsequent => Len(mOutgoingMessages[d]) > 1

\* Queues hold messages of theirs.
Addressed ==
  /\ \A d \in Dispatcher : \A m \in Elements(mOutgoingMessages[d]) :
       m \in 1..Len(sent) /\ Crosses(sent[m]) /\ QueueOf(sent[m]) = d
  /\ \A a \in Actor : \A m \in Elements(mQueuedMessages[a]) :
       m \in 1..Len(sent) /\ Crosses(sent[m]) /\ sent[m].to = a
  /\ \A a \in Actor : \A m \in Elements(mIncomingMessages[a]) :
       m \in 1..Len(sent) /\ sent[m].to = a
  /\ handled \subseteq 1..Len(sent)

\* A message not handled yet is in a queue.
Kept ==
  \A m \in (1..Len(sent)) \ handled :
    \/ m \in Elements(mOutgoingMessages[QueueOf(sent[m])])
    \/ m \in Elements(mQueuedMessages[sent[m].to])
    \/ m \in Elements(mIncomingMessages[sent[m].to])

\* One that is handled leaves its queue when its handler returns.
Handling ==
  /\ \A d \in Dispatcher : \A m \in Elements(mOutgoingMessages[d]) : m \notin handled
  /\ \A a \in Actor : \A m \in Elements(mQueuedMessages[a]) : m \notin handled
  /\ \A a \in Actor : \A k \in 1..Len(mIncomingMessages[a]) :
       mIncomingMessages[a][k] \in handled =>
         k = 1 /\ \E d \in Dispatcher : pc[d] = "messages" /\ running[d] = a
  /\ \A d \in Dispatcher : pc[d] = "messages" /\ running[d] # Null =>
       /\ Len(mIncomingMessages[running[d]]) > 0
       /\ mIncomingMessages[running[d]][1] \in handled

Ascending(queue) ==
  \A k, l \in 1..Len(queue) : k < l /\ sent[queue[k]] = sent[queue[l]] => queue[k] < queue[l]

Before(first, second) ==
  \A m \in first : \A n \in second : sent[m] = sent[n] => m < n

\* The messages of a route are in order within each queue and from each to
\* the one before it, and those handled come before those that are not.
Ordered ==
  /\ \A d \in Dispatcher : Ascending(mOutgoingMessages[d])
  /\ \A a \in Actor : Ascending(mQueuedMessages[a]) /\ Ascending(mIncomingMessages[a])
  /\ \A a \in Actor : Before(Elements(mIncomingMessages[a]), Elements(mQueuedMessages[a]))
  /\ \A a \in Actor : \A d \in Dispatcher :
       /\ Before(Elements(mIncomingMessages[a]), Elements(mOutgoingMessages[d]))
       /\ Before(Elements(mQueuedMessages[a]), Elements(mOutgoingMessages[d]))
  /\ Before(handled, (1..Len(sent)) \ handled)

Delivery == MessageShapes /\ Cursors /\ Addressed /\ Kept /\ Handling /\ Ordered

-----------------------------------------------------------------------------
(* Lists *)

LEMMA ElementsTyped ==
  ASSUME NEW T, NEW s \in Seq(T)
  PROVE  Elements(s) \subseteq T /\ Elements(<<>>) = {} /\ Once(<<>>)
BY DEF Elements, Once

LEMMA ConcatOnce ==
  ASSUME NEW T, NEW s \in Seq(T), NEW t \in Seq(T)
  PROVE  /\ s \o t \in Seq(T) /\ Len(s \o t) = Len(s) + Len(t)
         /\ Len(s) \in Nat /\ Len(t) \in Nat
         /\ \A k \in 1..Len(s) : (s \o t)[k] = s[k]
         /\ \A k \in 1..Len(t) : (s \o t)[Len(s) + k] = t[k]
         /\ Elements(s \o t) = Elements(s) \cup Elements(t)
         /\ Once(s) /\ Once(t) /\ (\A x \in Elements(s) : x \notin Elements(t)) => Once(s \o t)
<1>. DEFINE r == s \o t
<1>1. /\ r \in Seq(T) /\ Len(r) = Len(s) + Len(t) /\ Len(s) \in Nat /\ Len(t) \in Nat
      /\ \A k \in 1..Len(s) : r[k] = s[k]
      /\ \A k \in 1..Len(t) : r[Len(s) + k] = t[k]
  OBVIOUS
<1>. HIDE DEF r
<1>2. ASSUME NEW k \in 1..Len(r)
      PROVE  \/ k \in 1..Len(s) /\ r[k] = s[k]
             \/ k - Len(s) \in 1..Len(t) /\ r[k] = t[k - Len(s)]
  <2>1. k \in 1..Len(s) \/ (k - Len(s) \in 1..Len(t) /\ k = Len(s) + (k - Len(s)))
    BY <1>1
  <2>. QED
    BY <1>1, <2>1
<1>3. Elements(r) \subseteq Elements(s) \cup Elements(t)
  BY <1>2 DEF Elements
<1>4. Elements(s) \subseteq Elements(r)
  <2>1. \A k \in 1..Len(s) : k \in 1..Len(r)
    BY <1>1
  <2>. QED
    BY <1>1, <2>1 DEF Elements
<1>5. Elements(t) \subseteq Elements(r)
  <2>1. \A k \in 1..Len(t) : Len(s) + k \in 1..Len(r)
    BY <1>1
  <2>. QED
    BY <1>1, <2>1 DEF Elements
<1>6. ASSUME Once(s), Once(t), \A x \in Elements(s) : x \notin Elements(t) PROVE Once(r)
  <2>. SUFFICES ASSUME NEW k \in 1..Len(r), NEW l \in 1..Len(r), r[k] = r[l] PROVE k = l
    BY DEF Once
  <2>1. CASE k \in 1..Len(s) /\ l \in 1..Len(s)
    BY <2>1, <1>1, <1>6 DEF Once
  <2>2. CASE k - Len(s) \in 1..Len(t) /\ l - Len(s) \in 1..Len(t)
               /\ r[k] = t[k - Len(s)] /\ r[l] = t[l - Len(s)]
    <3>1. k - Len(s) = l - Len(s)
      BY <2>2, <1>6 DEF Once
    <3>. QED
      BY <1>1, <3>1
  <2>3. CASE k \in 1..Len(s) /\ l - Len(s) \in 1..Len(t) /\ r[k] = s[k] /\ r[l] = t[l - Len(s)]
    BY <2>3, <1>6 DEF Elements
  <2>4. CASE l \in 1..Len(s) /\ k - Len(s) \in 1..Len(t) /\ r[l] = s[l] /\ r[k] = t[k - Len(s)]
    BY <2>4, <1>6 DEF Elements
  <2>. QED
    BY <1>2, <2>1, <2>2, <2>3, <2>4
<1>. QED
  BY <1>1, <1>3, <1>4, <1>5, <1>6 DEF r

LEMMA RemoveAtOnce ==
  ASSUME NEW T, NEW s \in Seq(T), NEW k \in 1..Len(s), Once(s)
  PROVE  /\ S!RemoveAt(s, k) \in Seq(T) /\ Once(S!RemoveAt(s, k))
         /\ Elements(S!RemoveAt(s, k)) = Elements(s) \ {s[k]}
<1>. DEFINE r == S!RemoveAt(s, k)
            at(i) == IF i < k THEN i ELSE i + 1
<1>. DEFINE p == SubSeq(s, 1, k - 1)
            q == SubSeq(s, k + 1, Len(s))
<1>1. Len(s) \in Nat /\ k \in Nat
  OBVIOUS
<1>2. p \in Seq(T) /\ Len(p) = k - 1 /\ \A i \in 1..(k - 1) : p[i] = s[i]
  OBVIOUS
<1>3. q \in Seq(T) /\ Len(q) = Len(s) - k /\ \A i \in 1..(Len(s) - k) : q[i] = s[k + i]
  OBVIOUS
<1>4. r \in Seq(T) /\ Len(r) = Len(s) - 1 /\ \A i \in 1..(Len(s) - 1) : r[i] = s[at(i)]
  <2>1. r = p \o q
    BY DEF S!RemoveAt
  <2>. HIDE DEF r, p, q
  <2>2. /\ p \o q \in Seq(T) /\ Len(p \o q) = Len(p) + Len(q)
        /\ \A i \in 1..Len(p) : (p \o q)[i] = p[i]
        /\ \A i \in 1..Len(q) : (p \o q)[Len(p) + i] = q[i]
    <3>1. p \in Seq(T) /\ q \in Seq(T)
      BY <1>2, <1>3
    <3>. QED
      BY ONLY <3>1, ConcatOnce
  <2>3. ASSUME NEW i \in 1..(Len(s) - 1) PROVE r[i] = s[at(i)]
    <3>1. CASE i < k
      BY <1>1, <1>2, <2>1, <2>2, <3>1
    <3>2. CASE ~(i < k)
      <4>. DEFINE j == i - (k - 1)
      <4>1. j \in 1..(Len(s) - k) /\ (k - 1) + j = i /\ k + j = i + 1
        BY <1>1, <3>2
      <4>. HIDE DEF j
      <4>. QED
        BY <1>2, <1>3, <2>1, <2>2, <3>2, <4>1, ZenonT(60)
    <3>. QED
      BY <3>1, <3>2
  <2>. QED
    BY <1>1, <1>2, <1>3, <2>1, <2>2, <2>3, SMTT(60)
<1>. HIDE DEF r
<1>5. \A i \in 1..(Len(s) - 1) : at(i) \in 1..Len(s) /\ at(i) # k
  BY <1>1
<1>6. Once(r)
  <2>. SUFFICES ASSUME NEW i \in 1..Len(r), NEW j \in 1..Len(r), r[i] = r[j] PROVE i = j
    BY DEF Once
  <2>1. at(i) = at(j)
    BY <1>4, <1>5, ZenonT(60) DEF Once
  <2>. QED
    BY <1>1, <1>4, <2>1
<1>7. ASSUME NEW x \in Elements(r) PROVE x \in Elements(s) \ {s[k]}
  <2>1. PICK i \in 1..(Len(s) - 1) : x = r[i]
    BY <1>4 DEF Elements
  <2>2. x = s[at(i)] /\ at(i) \in 1..Len(s) /\ at(i) # k
    BY <1>4, <1>5, <2>1
  <2>. HIDE DEF at
  <2>. QED
    BY <2>2 DEF Elements, Once
<1>8. ASSUME NEW x \in Elements(s) \ {s[k]} PROVE x \in Elements(r)
  <2>1. PICK i \in 1..Len(s) : x = s[i]
    BY DEF Elements
  <2>2. i < k \/ i > k
    BY <1>1, <2>1
  <2>3. CASE i < k
    <3>1. i \in 1..(Len(s) - 1) /\ at(i) = i
      BY <1>1, <2>3
    <3>. QED
      BY <1>4, <2>1, <3>1 DEF Elements
  <2>4. CASE i > k
    <3>1. i - 1 \in 1..(Len(s) - 1) /\ at(i - 1) = i
      BY <1>1, <2>4
    <3>. QED
      BY <1>4, <2>1, <3>1 DEF Elements
  <2>. QED
    BY <2>2, <2>3, <2>4
<1>. QED
  BY <1>4, <1>6, <1>7, <1>8 DEF r

LEMMA WithoutOnce ==
  ASSUME NEW lists \in [Dispatcher -> Seq(Actor)], NEW a,
         \A d \in Dispatcher : Once(lists[d])
  PROVE  /\ Without(lists, a) \in [Dispatcher -> Seq(Actor)]
         /\ \A d \in Dispatcher :
              /\ Once(Without(lists, a)[d])
              /\ Elements(Without(lists, a)[d]) = Elements(lists[d]) \ {a}
<1>. DEFINE w(d) == IF S!Contains(lists[d], a)
                    THEN S!RemoveAt(lists[d], PlaceOf(lists[d], a)) ELSE lists[d]
<1>1. Without(lists, a) = [d \in Dispatcher |-> w(d)]
  BY DEF Without
<1>2. ASSUME NEW d \in Dispatcher
      PROVE  w(d) \in Seq(Actor) /\ Once(w(d)) /\ Elements(w(d)) = Elements(lists[d]) \ {a}
  <2>1. lists[d] \in Seq(Actor) /\ Once(lists[d])
    OBVIOUS
  <2>2. CASE S!Contains(lists[d], a)
    <3>1. /\ PlaceOf(lists[d], a) \in 1..Len(lists[d])
          /\ lists[d][PlaceOf(lists[d], a)] = a
      BY <2>1, <2>2 DEF PlaceOf, S!Contains
    <3>. QED
      BY <2>1, <2>2, <3>1, RemoveAtOnce
  <2>3. CASE ~S!Contains(lists[d], a)
    BY <2>1, <2>3 DEF S!Contains, Elements
  <2>. QED
    BY <2>2, <2>3
<1>. HIDE DEF w
<1>. QED
  BY <1>1, <1>2

LEMMA AppendOnce ==
  ASSUME NEW T, NEW s \in Seq(T), NEW x \in T
  PROVE  /\ Append(s, x) \in Seq(T) /\ Len(Append(s, x)) = Len(s) + 1 /\ Len(s) \in Nat
         /\ \A k \in 1..Len(s) : Append(s, x)[k] = s[k]
         /\ Append(s, x)[Len(s) + 1] = x
         /\ Elements(Append(s, x)) = Elements(s) \cup {x}
         /\ Once(s) /\ x \notin Elements(s) => Once(Append(s, x))
<1>. DEFINE r == Append(s, x)
<1>1. /\ r \in Seq(T) /\ Len(r) = Len(s) + 1 /\ Len(s) \in Nat
      /\ \A k \in 1..Len(s) : r[k] = s[k]
      /\ r[Len(s) + 1] = x
  OBVIOUS
<1>. HIDE DEF r
<1>2. \A k \in 1..Len(r) : k \in 1..Len(s) \/ k = Len(s) + 1
  BY <1>1
<1>3. Elements(r) \subseteq Elements(s) \cup {x}
  BY <1>1, <1>2 DEF Elements
<1>4. \A k \in 1..Len(s) : k \in 1..Len(r)
  BY <1>1
<1>5. Elements(s) \subseteq Elements(r)
  BY <1>1, <1>4 DEF Elements
<1>6. x \in Elements(r)
  <2>1. Len(s) + 1 \in 1..Len(r)
    BY <1>1
  <2>. QED
    BY <1>1, <2>1 DEF Elements
<1>7. Once(s) /\ x \notin Elements(s) => Once(r)
  BY <1>1, <1>2 DEF Once, Elements
<1>. QED
  BY <1>1, <1>3, <1>5, <1>6, <1>7 DEF r

LEMMA FollowingIn ==
  ASSUME NEW list \in Seq(Actor), NEW a, S!Contains(list, a)
  PROVE  Following(list, a) \in Elements(list) \cup {Null} /\ a \in Elements(list)
<1>1. PlaceOf(list, a) \in 1..Len(list) /\ Len(list) \in Nat
  BY DEF PlaceOf, S!Contains
<1>2. PlaceOf(list, a) < Len(list) => PlaceOf(list, a) + 1 \in 1..Len(list)
  BY <1>1
<1>. QED
  BY <1>2 DEF Following, Elements, S!Contains

\* What a queue loses with its first message.
LEMMA TailParts ==
  ASSUME NEW T, NEW s \in Seq(T), Len(s) > 0
  PROVE  /\ Tail(s) \in Seq(T) /\ Len(Tail(s)) = Len(s) - 1 /\ Len(s) \in Nat
         /\ Head(s) = s[1] /\ Head(s) \in T /\ Head(s) \in Elements(s)
         /\ \A k \in 1..Len(Tail(s)) : k + 1 \in 1..Len(s) /\ Tail(s)[k] = s[k + 1]
         /\ \A x \in Elements(s) : x = Head(s) \/ x \in Elements(Tail(s))
         /\ Elements(Tail(s)) \subseteq Elements(s)
<1>1. Len(s) \in Nat /\ s # <<>> /\ 1 \in 1..Len(s) /\ Head(s) = s[1]
  OBVIOUS
<1>2. /\ Tail(s) \in Seq(T) /\ Head(s) \in T /\ Len(Tail(s)) = Len(s) - 1
      /\ \A k \in 1..Len(Tail(s)) : Tail(s)[k] = s[k + 1]
  BY <1>1, HeadTailProperties
<1>3. \A k \in 1..Len(Tail(s)) : k + 1 \in 1..Len(s)
  BY <1>1, <1>2
<1>4. Head(s) \in Elements(s) /\ Elements(Tail(s)) \subseteq Elements(s)
  BY <1>1, <1>2, <1>3 DEF Elements
<1>5. ASSUME NEW x \in Elements(s), x # Head(s) PROVE x \in Elements(Tail(s))
  <2>1. PICK k \in 1..Len(s) : x = s[k]
    BY DEF Elements
  <2>2. k # 1
    BY <1>1, <1>5, <2>1
  <2>3. k - 1 \in 1..Len(Tail(s)) /\ (k - 1) + 1 = k
    BY <1>1, <1>2, <2>2
  <2>. QED
    BY <1>2, <2>1, <2>3 DEF Elements
<1>. QED
  BY <1>1, <1>2, <1>3, <1>4, <1>5

-----------------------------------------------------------------------------
(* Threads *)

\* A step of the thread outside the loop over the actors and the callbacks.
LEMMA ElsewhereThreads ==
  ASSUME NEW CONSTANT runs, Threads(runs), NEW d \in Dispatcher, NEW to \in Location,
         pc[d] \notin AtActor \cup {"sources"}, to \notin AtActor \cup {"sources"},
         pc' = [pc EXCEPT ![d] = to],
         UNCHANGED <<activity, iterator, running, activating>>
  PROVE  Threads(runs)'
<1>. USE DEF Threads
<1>1. Shapes'
  BY DEF Shapes, activity
<1>2. InThread(runs)'
  BY DEF InThread, activity
<1>3. Working'
  BY DEF Shapes, Working, AtActor, activity
<1>4. Linked'
  BY DEF Shapes, Linked, Between, AtActor, activity
<1>. QED
  BY <1>1, <1>2, <1>3, <1>4

\* The thread sees a clear flag of an actor of its own.
LEMMA TestThreads ==
  ASSUME NEW CONSTANT runs, Threads(runs), NEW d \in Dispatcher,
         NEW a \in Actor, NEW list \in Dispatcher,
         mActive[a] \/ (runs[a] = d /\ list = d), activating[d] = Nothing,
         TestActive(d, a, list),
         UNCHANGED <<activity, iterator, running, pc>>
  PROVE  Threads(runs)'
<1>. USE DEF Threads
<1>1. Shapes'
  BY DEF Shapes, TestActive, activity
<1>2. InThread(runs)'
  BY DEF InThread, Shapes, TestActive, activity
<1>3. Working'
  BY DEF Working, activity
<1>4. Linked'
  <2>1. ~Nothing.linked /\ ~activating'[d].linked
    BY DEF Shapes, TestActive, Nothing
  <2>2. \A e \in Dispatcher : e # d => activating'[e] = activating[e]
    BY DEF Shapes, TestActive
  <2>3. \A e \in Dispatcher, b \in Actor : Between(e, b) => Between(e, b)'
    BY <2>1, <2>2 DEF Between
  <2>4. \A e \in Dispatcher :
          \A b \in Elements(mActiveActors[e]) \cup Elements(actors[e]) : b \in Actor
    BY ElementsTyped DEF Shapes
  <2>. QED
    BY <2>3, <2>4 DEF Linked, activity
<1>. QED
  BY <1>1, <1>2, <1>3, <1>4

\* The end of every list of active actors but one loses the actor, the other
\* ends with it.
LEMMA AddActiveLists ==
  ASSUME Shapes, Linked, NEW d \in Dispatcher, NEW a \in Actor,
         AddActive(a, d)
  PROVE  /\ mActiveActors' \in [Dispatcher -> Seq(Actor)]
         /\ actors' \in [Dispatcher -> Seq(Actor)]
         /\ \A e \in Dispatcher :
              /\ Once(actors'[e]) /\ Once(mActiveActors'[e])
              /\ \A b \in Elements(actors'[e]) : b \notin Elements(mActiveActors'[e])
              /\ \A b \in Elements(mActiveActors'[e]) \cup Elements(actors'[e]) :
                   \/ b = a /\ e = d
                   \/ b # a /\ b \in Elements(mActiveActors[e]) \cup Elements(actors[e])
<1>. DEFINE w == Without(mActiveActors, a)
<1>1. /\ w \in [Dispatcher -> Seq(Actor)]
      /\ \A e \in Dispatcher : Once(w[e]) /\ Elements(w[e]) = Elements(mActiveActors[e]) \ {a}
  BY WithoutOnce DEF Shapes, Linked
<1>2. /\ actors' \in [Dispatcher -> Seq(Actor)]
      /\ \A e \in Dispatcher :
           Once(actors'[e]) /\ Elements(actors'[e]) = Elements(actors[e]) \ {a}
  BY WithoutOnce DEF Shapes, Linked, AddActive
<1>3. mActiveActors' = [w EXCEPT ![d] = Append(@, a)]
  BY DEF AddActive
<1>. HIDE DEF w
<1>4. w[d] \in Seq(Actor) /\ a \notin Elements(w[d]) /\ Once(w[d])
  BY <1>1
<1>5. /\ Append(w[d], a) \in Seq(Actor) /\ Once(Append(w[d], a))
      /\ Elements(Append(w[d], a)) = Elements(w[d]) \cup {a}
  BY <1>4, AppendOnce
<1>6. /\ mActiveActors'[d] = Append(w[d], a)
      /\ \A e \in Dispatcher : e # d => mActiveActors'[e] = w[e]
  BY <1>1, <1>3
<1>7. mActiveActors' \in [Dispatcher -> Seq(Actor)]
  BY <1>1, <1>3, <1>5
<1>8. ASSUME NEW e \in Dispatcher
      PROVE  /\ Once(mActiveActors'[e])
             /\ Elements(mActiveActors'[e]) =
                  IF e = d THEN (Elements(mActiveActors[e]) \ {a}) \cup {a}
                  ELSE Elements(mActiveActors[e]) \ {a}
  BY <1>1, <1>5, <1>6
<1>9. ASSUME NEW e \in Dispatcher, NEW b \in Elements(actors'[e])
      PROVE  b # a /\ b \in Elements(actors[e]) /\ b \notin Elements(mActiveActors'[e])
  <2>1. b # a /\ b \in Elements(actors[e])
    BY <1>2, <1>9
  <2>2. b \notin Elements(mActiveActors[e])
    BY <2>1 DEF Linked
  <2>. QED
    BY <1>8, <2>1, <2>2
<1>10. ASSUME NEW e \in Dispatcher, NEW b \in Elements(mActiveActors'[e])
       PROVE  \/ b = a /\ e = d
              \/ b # a /\ b \in Elements(mActiveActors[e])
  BY <1>8, <1>10
<1>. QED
  BY <1>2, <1>7, <1>8, <1>9, <1>10

LEMMA AddActivatedThreads ==
  ASSUME NEW CONSTANT runs, Threads(runs), NEW d \in Dispatcher, AddActivated(d)
  PROVE  Threads(runs)'
<1>. DEFINE a == activating[d].actor
<1>1. /\ Shapes /\ InThread(runs) /\ Working /\ Linked
      /\ a \in Actor /\ activating[d].list = d /\ runs[a] = d
  BY DEF Threads, Shapes, InThread, AddActivated
<1>2. /\ AddActive(a, d) /\ UNCHANGED <<mActive, pc, iterator, running>>
      /\ activating' = [activating EXCEPT ![d].linked = TRUE]
      /\ activating[d] \in [actor : Actor, list : Dispatcher, linked : BOOLEAN]
  BY <1>1 DEF AddActivated, Shapes
<1>3. /\ activating' \in [Dispatcher -> [actor : Actor, list : Dispatcher, linked : BOOLEAN]
                                          \cup {Nothing}]
      /\ activating'[d].linked /\ activating'[d].actor = a /\ activating'[d].list = d
      /\ \A e \in Dispatcher : e # d => activating'[e] = activating[e]
  BY <1>1, <1>2 DEF Shapes
<1>. HIDE DEF a
<1>4. /\ mActiveActors' \in [Dispatcher -> Seq(Actor)]
      /\ actors' \in [Dispatcher -> Seq(Actor)]
      /\ \A e \in Dispatcher :
           /\ Once(actors'[e]) /\ Once(mActiveActors'[e])
           /\ \A b \in Elements(actors'[e]) : b \notin Elements(mActiveActors'[e])
           /\ \A b \in Elements(mActiveActors'[e]) \cup Elements(actors'[e]) :
                \/ b = a /\ e = d
                \/ b # a /\ b \in Elements(mActiveActors[e]) \cup Elements(actors[e])
  BY <1>1, <1>2, AddActiveLists
<1>5. Shapes'
  BY <1>1, <1>2, <1>3, <1>4 DEF Shapes
<1>6. InThread(runs)'
  <2>. SUFFICES ASSUME NEW e \in Dispatcher
                PROVE  /\ \A b \in Elements(mActiveActors'[e]) \cup Elements(actors'[e]) : runs[b] = e
                       /\ activating'[e] # Nothing =>
                            activating'[e].list = e /\ runs[activating'[e].actor] = e
    BY <1>1, <1>2 DEF InThread
  <2>1. \A b \in Elements(mActiveActors'[e]) \cup Elements(actors'[e]) : runs[b] = e
    BY <1>1, <1>4 DEF InThread
  <2>2. activating'[e] # Nothing => activating'[e].list = e /\ runs[activating'[e].actor] = e
    BY <1>1, <1>3 DEF InThread
  <2>. QED
    BY <2>1, <2>2
<1>7. Working'
  BY <1>1, <1>2 DEF Working, AtActor
<1>8. Linked'
  <2>1. ASSUME NEW e \in Dispatcher,
               NEW b \in Elements(mActiveActors'[e]) \cup Elements(actors'[e])
        PROVE  mActive'[b] \/ Between(e, b)'
    <3>1. CASE b = a /\ e = d
      BY <1>3, <3>1 DEF Between
    <3>2. CASE b # a /\ b \in Elements(mActiveActors[e]) \cup Elements(actors[e])
      <4>1. mActive[b] \/ Between(e, b)
        BY <1>1, <3>2 DEF Linked
      <4>2. ~(e = d /\ activating[e].actor = b)
        BY <3>2 DEF a
      <4>. QED
        BY <1>2, <1>3, <4>1, <4>2 DEF Between
    <3>. QED
      BY <1>4, <2>1, <3>1, <3>2
  <2>. QED
    BY <1>4, <2>1 DEF Linked
<1>. QED
  BY <1>5, <1>6, <1>7, <1>8 DEF Threads

LEMMA MarkActiveThreads ==
  ASSUME NEW CONSTANT runs, Threads(runs), NEW d \in Dispatcher, MarkActive(d)
  PROVE  Threads(runs)'
<1>. DEFINE a == activating[d].actor
<1>1. /\ Shapes /\ InThread(runs) /\ Working /\ Linked /\ a \in Actor
  BY DEF Threads, Shapes, MarkActive
<1>2. /\ mActive' = [mActive EXCEPT ![a] = TRUE]
      /\ activating' = [activating EXCEPT ![d] = Nothing]
      /\ UNCHANGED <<mActiveActors, actors, pc, iterator, running>>
  BY DEF MarkActive
<1>. HIDE DEF a
<1>3. /\ mActive'[a] /\ activating'[d] = Nothing
      /\ \A b \in Actor : mActive[b] => mActive'[b]
      /\ \A e \in Dispatcher : e # d => activating'[e] = activating[e]
  BY <1>1, <1>2 DEF Shapes
<1>4. Shapes'
  BY <1>1, <1>2 DEF Shapes
<1>5. InThread(runs)'
  BY <1>1, <1>2, <1>3 DEF InThread
<1>6. Working'
  <2>1. \A e \in Dispatcher : pc[e] \in AtActor => iterator[e].current \in Actor
    BY <1>1 DEF Working
  <2>. QED
    BY <1>1, <1>2, <1>3, <2>1 DEF Working, AtActor
<1>7. Linked'
  <2>1. ASSUME NEW e \in Dispatcher,
               NEW b \in Elements(mActiveActors[e]) \cup Elements(actors[e])
        PROVE  mActive'[b] \/ Between(e, b)'
    <3>1. b \in Actor /\ (mActive[b] \/ Between(e, b))
      BY <1>1, ElementsTyped DEF Linked, Shapes
    <3>2. b = a \/ ~(e = d /\ activating[e].actor = b)
      BY DEF a
    <3>. QED
      BY <1>2, <1>3, <3>1, <3>2 DEF Between
  <2>. QED
    BY <1>1, <1>2, <2>1 DEF Linked
<1>. QED
  BY <1>4, <1>5, <1>6, <1>7 DEF Threads

LEMMA CollectThreads ==
  ASSUME NEW CONSTANT runs, Threads(runs), NEW d \in Dispatcher, Collect(d)
  PROVE  Threads(runs)'
<1>. DEFINE all == actors[d] \o mActiveActors[d]
<1>1. Shapes /\ InThread(runs) /\ Working /\ Linked
  BY DEF Threads
<1>2. PICK to \in {"incoming", "lockIncoming", "poll"} :
        pc[d] = "collect" /\ pc' = [pc EXCEPT ![d] = to]
  BY DEF Collect, Goto
<1>3. /\ actors' = [actors EXCEPT ![d] = all]
      /\ mActiveActors' = [mActiveActors EXCEPT ![d] = <<>>]
      /\ UNCHANGED <<mActive, iterator, running, activating>>
  BY DEF Collect, control
<1>4. /\ all \in Seq(Actor) /\ Once(all)
      /\ Elements(all) = Elements(actors[d]) \cup Elements(mActiveActors[d])
  <2>1. /\ actors[d] \in Seq(Actor) /\ mActiveActors[d] \in Seq(Actor)
        /\ Once(actors[d]) /\ Once(mActiveActors[d])
        /\ \A x \in Elements(actors[d]) : x \notin Elements(mActiveActors[d])
    BY <1>1 DEF Shapes, Linked
  <2>. QED
    BY <2>1, ConcatOnce
<1>5. <<>> \in Seq(Actor) /\ Elements(<<>>) = {} /\ Once(<<>>)
  BY DEF Elements, Once
<1>. HIDE DEF all
<1>6. Shapes'
  BY <1>1, <1>2, <1>3, <1>4, <1>5 DEF Shapes, Location
<1>7. InThread(runs)'
  BY <1>1, <1>3, <1>4, <1>5 DEF InThread, Shapes
<1>8. Working'
  BY <1>1, <1>2, <1>3 DEF Working, Shapes, AtActor
<1>9. Linked'
  BY <1>1, <1>2, <1>3, <1>4, <1>5 DEF Linked, Between, Shapes
<1>. QED
  BY <1>6, <1>7, <1>8, <1>9 DEF Threads

\* The loop over the actors goes on at a node, in lists that are in order but
\* for actors which other threads are putting away.
LEMMA ComeThreads ==
  ASSUME NEW CONSTANT runs, Threads(runs), NEW d \in Dispatcher, NEW from,
         NEW node \in Actor \cup {Null}, node # Null => runs[node] = d,
         Come(d, from, node, actors'[d]), running[d] = Null,
         UNCHANGED <<mActive, running, activating>>,
         mActiveActors' \in [Dispatcher -> Seq(Actor)],
         actors' \in [Dispatcher -> Seq(Actor)],
         \A e \in Dispatcher :
           /\ Once(actors'[e]) /\ Once(mActiveActors'[e])
           /\ \A a \in Elements(actors'[e]) : a \notin Elements(mActiveActors'[e])
           /\ \A a \in Elements(mActiveActors'[e]) \cup Elements(actors'[e]) :
                /\ runs[a] = e
                /\ mActive[a] \/ (e # d /\ Between(e, a))
  PROVE  Threads(runs)'
<1>. DEFINE list == actors'[d]
            here == S!Contains(list, node)
            to == IF node = Null THEN "top" ELSE IF here THEN "messages" ELSE "lost"
            place == IF node = Null \/ ~here THEN Nowhere
                     ELSE [current |-> node, subsequent |-> Following(list, node)]
<1>1. Shapes /\ InThread(runs) /\ Working /\ Linked
  BY DEF Threads
<1>2. /\ pc' = [pc EXCEPT ![d] = to]
      /\ iterator' = [iterator EXCEPT ![d] = place]
  BY DEF Come, Goto
<1>3. list \in Seq(Actor)
  OBVIOUS
<1>4. node # Null => node \in Actor
  OBVIOUS
<1>5. here => Following(list, node) \in Elements(list) \cup {Null} /\ node \in Elements(list)
  BY <1>3, FollowingIn
<1>6. \A a \in Elements(list) : a \in Actor /\ runs[a] = d /\ mActive[a]
  BY <1>3, ElementsTyped
<1>7. /\ place \in [current : Actor \cup {Null}, subsequent : Actor \cup {Null}]
      /\ place.current # Null => runs[place.current] = d
      /\ place.subsequent # Null => runs[place.subsequent] = d
      /\ to \in {"top", "messages", "lost"}
      /\ to = "messages" => place.current \in Actor /\ mActive[place.current]
  <2>1. CASE node = Null \/ ~here
    BY <2>1 DEF Nowhere
  <2>2. CASE node # Null /\ here
    BY <1>4, <1>5, <1>6, <2>2
  <2>. QED
    BY <2>1, <2>2
<1>. HIDE DEF list, here, to, place
<1>8. Shapes'
  BY <1>1, <1>2, <1>7 DEF Shapes, Location
<1>9. InThread(runs)'
  BY <1>1, <1>2, <1>7 DEF InThread, Shapes
<1>10. Working'
  BY <1>1, <1>2, <1>7 DEF Working, Shapes, AtActor
<1>11. Linked'
  BY <1>1, <1>2, <1>7 DEF Linked, Between, Shapes
<1>. QED
  BY <1>8, <1>9, <1>10, <1>11 DEF Threads

\* To the first actor of the list.
LEMMA BeginThreads ==
  ASSUME NEW CONSTANT runs, Threads(runs), NEW d \in Dispatcher, NEW from,
         from \in {"poll", "sources"}, Begin(d, from), running[d] = Null,
         UNCHANGED <<activity, running, activating>>
  PROVE  Threads(runs)'
<1>. DEFINE node == IF actors[d] = <<>> THEN Null ELSE Head(actors[d])
<1>1. Shapes /\ InThread(runs) /\ Working /\ Linked
  BY DEF Threads
<1>2. actors[d] \in Seq(Actor)
  BY <1>1 DEF Shapes
<1>3. actors[d] # <<>> => Head(actors[d]) \in Elements(actors[d])
  BY <1>2 DEF Elements
<1>4. /\ node \in Actor \cup {Null}
      /\ node # Null => runs[node] = d
  BY <1>1, <1>2, <1>3, ElementsTyped DEF InThread
<1>5. Come(d, from, node, actors'[d])
  BY DEF Begin, activity
<1>6. \A a \in Actor : ~Between(d, a)
  BY DEF Begin, Come, Goto, Between, Nothing
<1>. HIDE DEF node
<1>7. /\ mActiveActors' \in [Dispatcher -> Seq(Actor)]
      /\ actors' \in [Dispatcher -> Seq(Actor)]
      /\ UNCHANGED <<mActive, running, activating>>
  BY <1>1 DEF Shapes, activity
<1>8. \A e \in Dispatcher :
        /\ Once(actors'[e]) /\ Once(mActiveActors'[e])
        /\ \A a \in Elements(actors'[e]) : a \notin Elements(mActiveActors'[e])
        /\ \A a \in Elements(mActiveActors'[e]) \cup Elements(actors'[e]) :
             /\ runs[a] = e
             /\ mActive[a] \/ (e # d /\ Between(e, a))
  <2>. SUFFICES ASSUME NEW e \in Dispatcher,
                       NEW a \in Elements(mActiveActors[e]) \cup Elements(actors[e])
                PROVE  runs[a] = e /\ (mActive[a] \/ (e # d /\ Between(e, a)))
    BY <1>1 DEF Linked, activity
  <2>1. a \in Actor
    BY <1>1, ElementsTyped DEF Shapes
  <2>. QED
    BY <1>1, <1>6, <2>1 DEF Linked, InThread
<1>. QED
  BY <1>4, <1>5, <1>7, <1>8, ComeThreads, ZenonT(60)

LEMMA RequeueThreads ==
  ASSUME NEW CONSTANT runs, Threads(runs), NEW d \in Dispatcher, Requeue(d)
  PROVE  Threads(runs)'
<1>. DEFINE a == iterator[d].current
            node == iterator[d].subsequent
<1>1. Shapes /\ InThread(runs) /\ Working /\ Linked
  BY DEF Threads
<1>2. /\ pc[d] = "requeue" /\ UNCHANGED <<mActive, running, activating>>
      /\ \A b : ~Between(d, b)
  BY DEF Requeue, Come, Goto, Between, Nothing
<1>3. /\ a \in Actor /\ runs[a] = d /\ mActive[a] /\ running[d] = Null
      /\ node \in Actor \cup {Null}
      /\ node # Null => runs[node] = d
  <2>1. a \in Actor /\ a # Null /\ mActive[a] /\ running[d] = Null
    BY <1>1, <1>2, DispatchAssumption DEF Working, AtActor
  <2>2. runs[a] = d /\ (node # Null => runs[node] = d)
    BY <1>1, <2>1 DEF InThread
  <2>3. node \in Actor \cup {Null}
    BY <1>1 DEF Shapes
  <2>. QED
    BY <2>1, <2>2, <2>3
<1>4. AddActive(a, d) /\ Come(d, "requeue", node, actors'[d])
  BY DEF Requeue
<1>. HIDE DEF a, node
<1>5. /\ mActiveActors' \in [Dispatcher -> Seq(Actor)]
      /\ actors' \in [Dispatcher -> Seq(Actor)]
      /\ \A e \in Dispatcher :
           /\ Once(actors'[e]) /\ Once(mActiveActors'[e])
           /\ \A b \in Elements(actors'[e]) : b \notin Elements(mActiveActors'[e])
           /\ \A b \in Elements(mActiveActors'[e]) \cup Elements(actors'[e]) :
                \/ b = a /\ e = d
                \/ b # a /\ b \in Elements(mActiveActors[e]) \cup Elements(actors[e])
  BY <1>1, <1>3, <1>4, AddActiveLists
<1>6. \A e \in Dispatcher :
        /\ Once(actors'[e]) /\ Once(mActiveActors'[e])
        /\ \A b \in Elements(actors'[e]) : b \notin Elements(mActiveActors'[e])
        /\ \A b \in Elements(mActiveActors'[e]) \cup Elements(actors'[e]) :
             /\ runs[b] = e
             /\ mActive[b] \/ (e # d /\ Between(e, b))
  <2>. SUFFICES ASSUME NEW e \in Dispatcher,
                       NEW b \in Elements(mActiveActors'[e]) \cup Elements(actors'[e])
                PROVE  /\ runs[b] = e
                       /\ mActive[b] \/ (e # d /\ Between(e, b))
    BY <1>5
  <2>1. CASE b = a /\ e = d
    BY <1>3, <2>1
  <2>2. CASE b \in Elements(mActiveActors[e]) \cup Elements(actors[e])
    <3>1. runs[b] = e /\ (mActive[b] \/ Between(e, b))
      BY <1>1, <2>2 DEF Linked, InThread
    <3>. QED
      BY <1>2, <3>1
  <2>. QED
    BY <1>5, <2>1, <2>2
<1>7. /\ mActiveActors' \in [Dispatcher -> Seq(Actor)] /\ actors' \in [Dispatcher -> Seq(Actor)]
      /\ Come(d, "requeue", node, actors'[d]) /\ running[d] = Null
      /\ node \in Actor \cup {Null} /\ (node # Null => runs[node] = d)
      /\ UNCHANGED <<mActive, running, activating>>
  BY <1>2, <1>3, <1>4, <1>5
<1>. QED
  BY <1>6, <1>7, ComeThreads

LEMMA PutAwayThreads ==
  ASSUME NEW CONSTANT runs, Threads(runs), NEW d \in Dispatcher, PutAway(d)
  PROVE  Threads(runs)'
<1>. DEFINE a == iterator[d].current
            node == iterator[d].subsequent
<1>1. Shapes /\ InThread(runs) /\ Working /\ Linked
  BY DEF Threads
<1>2. /\ pc[d] = "putAway" /\ UNCHANGED <<mActive, running, activating>>
      /\ \A b : Between(d, b) => b = a
  BY DEF PutAway, Come, Goto, Between, Nothing
<1>3. /\ running[d] = Null /\ node \in Actor \cup {Null}
      /\ node # Null => runs[node] = d
  BY <1>1, <1>2 DEF Working, InThread, Shapes
<1>4. /\ mActiveActors' = Without(mActiveActors, a) /\ actors' = Without(actors, a)
      /\ Come(d, "putAway", node, actors'[d])
  BY DEF PutAway
<1>5. /\ mActiveActors' \in [Dispatcher -> Seq(Actor)]
      /\ actors' \in [Dispatcher -> Seq(Actor)]
      /\ \A e \in Dispatcher :
           /\ Once(actors'[e]) /\ Elements(actors'[e]) = Elements(actors[e]) \ {a}
           /\ Once(mActiveActors'[e])
           /\ Elements(mActiveActors'[e]) = Elements(mActiveActors[e]) \ {a}
  BY <1>1, <1>4, WithoutOnce, ZenonT(60) DEF Shapes, Linked
<1>. HIDE DEF node
<1>6. \A e \in Dispatcher :
        /\ Once(actors'[e]) /\ Once(mActiveActors'[e])
        /\ \A b \in Elements(actors'[e]) : b \notin Elements(mActiveActors'[e])
        /\ \A b \in Elements(mActiveActors'[e]) \cup Elements(actors'[e]) :
             /\ runs[b] = e
             /\ mActive[b] \/ (e # d /\ Between(e, b))
  <2>1. ASSUME NEW e \in Dispatcher, NEW b \in Elements(actors'[e])
        PROVE  b # a /\ b \in Elements(actors[e])
    BY <1>5, <2>1
  <2>2. ASSUME NEW e \in Dispatcher, NEW b \in Elements(mActiveActors'[e])
        PROVE  b # a /\ b \in Elements(mActiveActors[e])
    BY <1>5, <2>2
  <2>3. ASSUME NEW e \in Dispatcher, NEW b \in Elements(actors'[e])
        PROVE  b \notin Elements(mActiveActors'[e])
    BY <1>1, <2>1, <2>2, <2>3 DEF Linked
  <2>4. ASSUME NEW e \in Dispatcher,
               NEW b \in Elements(mActiveActors'[e]) \cup Elements(actors'[e])
        PROVE  /\ runs[b] = e
               /\ mActive[b] \/ (e # d /\ Between(e, b))
    <3>1. b # a /\ b \in Elements(mActiveActors[e]) \cup Elements(actors[e])
      BY <2>1, <2>2, <2>4
    <3>2. runs[b] = e /\ (mActive[b] \/ Between(e, b))
      BY <1>1, <3>1 DEF Linked, InThread
    <3>. QED
      BY <1>2, <3>1, <3>2
  <2>. QED
    BY <1>5, <2>3, <2>4
<1>. QED
  BY <1>2, <1>3, <1>4, <1>5, <1>6, ComeThreads, ZenonT(60)

\* A callback or a handler begins or returns.
LEMMA CodeThreads ==
  ASSUME NEW CONSTANT runs, OneThreadRule(runs), Threads(runs), NEW d \in Dispatcher,
         SourceReturns(d) \/ HandleMessage(d) \/ MessageReturns(d)
           \/ \E a \in Actor : SourceReady(d, a)
  PROVE  Threads(runs)'
<1>1. Shapes /\ InThread(runs) /\ Working /\ Linked
  BY DEF Threads
<1>2. PICK to \in {"sources", "messages"}, c \in Actor \cup {Null} :
        /\ pc' = [pc EXCEPT ![d] = to] /\ running' = [running EXCEPT ![d] = c]
        /\ pc[d] \in {"poll", "sources", "messages"}
        /\ pc[d] = "messages" <=> to = "messages"
        /\ c = Null \/ (to = "messages" /\ c = iterator[d].current)
                    \/ (to = "sources" /\ c \in Rooted /\ Home[c] = d)
        /\ UNCHANGED <<activity, iterator, activating>>
  <2>1. CASE SourceReturns(d)
    BY <2>1 DEF SourceReturns, Goto
  <2>2. CASE HandleMessage(d)
    <3>1. iterator[d].current \in Actor
      BY <1>1, <2>2 DEF HandleMessage, Goto, Working, AtActor
    <3>. QED
      BY <2>2, <3>1 DEF HandleMessage, Goto
  <2>3. CASE MessageReturns(d)
    BY <2>3 DEF MessageReturns, Goto
  <2>4. CASE \E a \in Actor : SourceReady(d, a)
    BY <2>4 DEF SourceReady, Goto
  <2>. QED
    BY <2>1, <2>2, <2>3, <2>4
<1>3. Shapes'
  BY <1>1, <1>2 DEF Shapes, Location, activity
<1>4. InThread(runs)'
  <2>1. c # Null => runs[c] = d
    BY <1>1, <1>2 DEF InThread, OneThreadRule
  <2>. QED
    BY <1>1, <1>2, <2>1 DEF InThread, Shapes, activity
<1>5. Working'
  BY <1>1, <1>2 DEF Working, Shapes, AtActor, activity
<1>6. Linked'
  BY <1>1, <1>2 DEF Linked, Between, Shapes, activity
<1>. QED
  BY <1>3, <1>4, <1>5, <1>6 DEF Threads

\* The loop has come to the end of an actor's messages.
LEMMA DoneThreads ==
  ASSUME NEW CONSTANT runs, Threads(runs), NEW d \in Dispatcher, MessagesDone(d)
  PROVE  Threads(runs)'
<1>1. Shapes /\ InThread(runs) /\ Working /\ Linked
  BY DEF Threads
<1>2. PICK to \in {"requeue", "retire"} :
        /\ pc[d] = "messages" /\ pc' = [pc EXCEPT ![d] = to] /\ running[d] = Null
        /\ UNCHANGED <<activity, iterator, running, activating>>
  BY DEF MessagesDone, Goto, control
<1>3. Shapes'
  BY <1>1, <1>2 DEF Shapes, Location, activity
<1>4. InThread(runs)'
  BY <1>1, <1>2 DEF InThread, activity
<1>5. Working'
  BY <1>1, <1>2 DEF Working, Shapes, AtActor, activity
<1>6. Linked'
  BY <1>1, <1>2 DEF Linked, Between, Shapes, activity
<1>. QED
  BY <1>3, <1>4, <1>5, <1>6 DEF Threads

\* Only the thread itself has the actor in a list, so no other is misled.
LEMMA RetireThreads ==
  ASSUME NEW CONSTANT runs, Threads(runs), NEW d \in Dispatcher, Retire(d)
  PROVE  Threads(runs)'
<1>. DEFINE a == iterator[d].current
<1>1. Shapes /\ InThread(runs) /\ Working /\ Linked
  BY DEF Threads
<1>2. /\ pc[d] = "retire" /\ pc' = [pc EXCEPT ![d] = "putAway"]
      /\ mActive' = [mActive EXCEPT ![a] = FALSE]
      /\ UNCHANGED <<mActiveActors, actors, iterator, running, activating>>
  BY DEF Retire, Goto, control
<1>3. a \in Actor /\ a # Null
  BY <1>1, <1>2, DispatchAssumption DEF Working, AtActor
<1>4. runs[a] = d
  BY <1>1, <1>3 DEF InThread
<1>5. Shapes'
  BY <1>1, <1>2, <1>3 DEF Shapes, Location
<1>6. InThread(runs)'
  BY <1>1, <1>2 DEF InThread
<1>7. Working'
  <2>1. ASSUME NEW e \in Dispatcher, e # d, pc[e] \in AtActor
        PROVE  iterator[e].current \in Actor /\ iterator[e].current # a
    <3>1. iterator[e].current \in Actor /\ iterator[e].current # Null
      BY <1>1, <2>1, DispatchAssumption DEF Working
    <3>2. runs[iterator[e].current] = e
      BY <1>1, <3>1 DEF InThread
    <3>. QED
      BY <1>4, <2>1, <3>1, <3>2
  <2>2. pc'[d] = "putAway" /\ \A e \in Dispatcher : e # d => pc'[e] = pc[e]
    BY <1>1, <1>2 DEF Shapes
  <2>3. \A b \in Actor : b # a => mActive'[b] = mActive[b]
    BY <1>1, <1>2 DEF Shapes
  <2>4. running[d] = Null
    BY <1>1, <1>2 DEF Working
  <2>. HIDE DEF a
  <2>5. ASSUME NEW e \in Dispatcher
        PROVE  /\ pc'[e] \in AtActor => iterator'[e].current \in Actor
               /\ pc'[e] \notin {"messages", "sources"} => running'[e] = Null
               /\ pc'[e] = "messages" => running'[e] \in {Null, iterator'[e].current}
               /\ pc'[e] = "sources" => running'[e] \in Rooted \cup {Null}
               /\ pc'[e] \in AtActor \ {"putAway"} => mActive'[iterator'[e].current]
    <3>1. CASE e = d
      BY <1>2, <1>3, <2>2, <2>4, <3>1 DEF AtActor, a
    <3>2. CASE e # d
      <4>1. /\ pc[e] \in AtActor => iterator[e].current \in Actor
            /\ pc[e] \notin {"messages", "sources"} => running[e] = Null
            /\ pc[e] = "messages" => running[e] \in {Null, iterator[e].current}
            /\ pc[e] = "sources" => running[e] \in Rooted \cup {Null}
            /\ pc[e] \in AtActor \ {"putAway"} => mActive[iterator[e].current]
        BY <1>1 DEF Working
      <4>. QED
        BY <1>2, <2>1, <2>2, <2>3, <3>2, <4>1
    <3>. QED
      BY <3>1, <3>2
  <2>. QED
    BY <2>5 DEF Working
<1>8. Linked'
  <2>1. ASSUME NEW e \in Dispatcher, NEW b \in Elements(mActiveActors[e]) \cup Elements(actors[e])
        PROVE  mActive'[b] \/ Between(e, b)'
    <3>1. runs[b] = e /\ (mActive[b] \/ Between(e, b))
      BY <1>1 DEF Linked, InThread
    <3>2. CASE b = a
      <4>1. e = d
        BY <1>4, <3>1, <3>2
      <4>. QED
        BY <1>1, <1>2, <3>2, <4>1 DEF Shapes, Between
    <3>3. CASE b # a
      <4>1. b \in Actor
        BY <1>1, ElementsTyped DEF Shapes
      <4>2. mActive'[b] = mActive[b]
        BY <1>1, <1>2, <3>3, <4>1 DEF Shapes
      <4>3. pc[e] = "putAway" => pc'[e] = "putAway"
        BY <1>1, <1>2 DEF Shapes
      <4>. QED
        BY <1>2, <3>1, <4>2, <4>3 DEF Between
    <3>. QED
      BY <3>2, <3>3
  <2>. QED
    BY <1>1, <1>2, <2>1 DEF Linked
<1>. QED
  BY <1>5, <1>6, <1>7, <1>8 DEF Threads

\* A message to a neighbour is queued where both run, but for one of an actor
\* to itself, which is active.
LEMMA queueMessageThreads ==
  ASSUME NEW CONSTANT runs, OneThreadRule(runs), Threads(runs), NEW d \in Dispatcher,
         NEW route \in Routes, queueMessage(d, route)
  PROVE  Threads(runs)'
<1>. DEFINE from == route.from
            to == route.to
            queue == Home[IF route.via = "sender" THEN from ELSE to]
<1>1. Shapes /\ InThread(runs) /\ Working /\ Linked
  BY DEF Threads
<1>2. /\ from \in Actor /\ to \in Actor /\ queue \in Dispatcher
      /\ queue = QueueOf(route)
  BY DispatchAssumption DEF QueueOf
<1>3. /\ CodeOf(d, from) /\ UNCHANGED <<activity, pc, iterator, running>>
      /\ activating[d] = Nothing
  BY DEF queueMessage
<1>4. CASE Crosses(route)
  <2>1. UNCHANGED activating
    BY <1>4 DEF queueMessage, Crosses
  <2>. QED
    BY <1>3, <2>1 DEF Threads, Shapes, InThread, Working, Linked, Between, activity
<1>5. CASE ~Crosses(route)
  <2>1. TestActive(d, to, queue)
    BY <1>5 DEF queueMessage, Crosses
  <2>2. from # Null
    BY <1>2, DispatchAssumption
  <2>3. runs[from] = d
    BY <1>1, <1>3, <2>2 DEF CodeOf, InThread, OneThreadRule
  <2>4. /\ runs[to] = runs[from]
        /\ from = to \/ queue = runs[to]
    BY <1>2 DEF OneThreadRule
  <2>5. mActive[to] \/ (runs[to] = d /\ queue = d)
    <3>1. CASE queue = runs[to]
      BY <2>3, <2>4, <3>1
    <3>2. CASE queue # runs[to]
      <4>1. from = to /\ queue = Home[from]
        BY <2>4, <3>2
      <4>2. from \notin Rooted
        BY <2>4, <3>2, <4>1 DEF OneThreadRule
      <4>3. running[d] = from
        BY <1>3, <4>2 DEF CodeOf
      <4>4. pc[d] = "messages" /\ iterator[d].current = from
        BY <1>1, <2>2, <4>2, <4>3 DEF Working
      <4>. QED
        BY <1>1, <4>1, <4>4 DEF Working, AtActor
    <3>. QED
      BY <3>1, <3>2
  <2>. HIDE DEF from, to, queue
  <2>. QED
    BY <1>2, <1>3, <2>1, <2>5, TestThreads
<1>. QED
  BY <1>4, <1>5

\* An outgoing message is for an actor that runs in the thread that has it.
LEMMA QueueOutgoingThreads ==
  ASSUME NEW CONSTANT runs, OneThreadRule(runs), Threads(runs), Delivery,
         NEW d \in Dispatcher, QueueOutgoing(d)
  PROVE  Threads(runs)'
<1>. DEFINE m == Head(mOutgoingMessages[d])
            receiver == sent[m].to
<1>1. /\ pc[d] = "outgoing" /\ pc' = [pc EXCEPT ![d] = "outgoing"] /\ cursor[d].current
      /\ TestActive(d, receiver, d)
      /\ UNCHANGED <<activity, iterator, running>> /\ activating[d] = Nothing
  BY DEF QueueOutgoing, Goto
<1>2. m \in Elements(mOutgoingMessages[d])
  <2>1. mOutgoingMessages[d] \in Seq(Nat) /\ Len(mOutgoingMessages[d]) > 0
    BY <1>1 DEF Delivery, MessageShapes, Cursors
  <2>. QED
    BY <2>1, TailParts
<1>3. m \in 1..Len(sent) /\ Crosses(sent[m]) /\ QueueOf(sent[m]) = d
  BY <1>2 DEF Delivery, Addressed
<1>4. sent[m] \in Routes
  BY <1>3 DEF Delivery, MessageShapes
<1>5. receiver \in Actor /\ runs[receiver] = d
  BY <1>3, <1>4, DispatchAssumption DEF OneThreadRule, Crosses
<1>6. UNCHANGED pc
  BY <1>1 DEF Threads, Shapes
<1>. HIDE DEF m, receiver
<1>. QED
  BY <1>1, <1>5, <1>6, TestThreads

LEMMA ThreadsStep ==
  ASSUME NEW CONSTANT runs, OneThreadRule(runs), Threads(runs), Delivery, [Next]_vars
  PROVE  Threads(runs)'
<1>1. ASSUME NEW d \in Dispatcher, Thread(d) PROVE Threads(runs)'
  <2>. USE DEF Goto, Location, AtActor, control
  <2>1. CASE \/ OwnAllocator(d) \/ LockConstructor(d) \/ CheckRecycled(d) \/ NewRecycled(d)
             \/ UnlockConstructor(d) \/ StartRun(d)
    <3>1. PICK to \in Location :
            /\ pc[d] \notin AtActor \cup {"sources"} /\ to \notin AtActor \cup {"sources"}
            /\ pc' = [pc EXCEPT ![d] = to]
            /\ UNCHANGED <<activity, iterator, running, activating>>
      BY <2>1 DEF OwnAllocator, LockConstructor, CheckRecycled, NewRecycled,
                  UnlockConstructor, StartRun
    <3>. QED
      BY <3>1, ElsewhereThreads
  <2>2. CASE \/ BeginCycle(d) \/ LockOutgoing(d) \/ OutgoingDone(d) \/ LockIncoming(d)
             \/ TakeQueued(d) \/ ReadRecycled(d) \/ WriteRecycled(d) \/ WriteAllocator(d)
             \/ Unlock(d)
    <3>1. PICK to \in Location :
            /\ pc[d] \notin AtActor \cup {"sources"} /\ to \notin AtActor \cup {"sources"}
            /\ pc' = [pc EXCEPT ![d] = to]
            /\ UNCHANGED <<activity, iterator, running, activating>>
      BY <2>2 DEF BeginCycle, LockOutgoing, OutgoingDone, LockIncoming, TakeQueued,
                  ReadRecycled, WriteRecycled, WriteAllocator, Unlock
    <3>. QED
      BY <3>1, ElsewhereThreads
  <2>3. CASE QueueOutgoing(d)
    BY <2>3, QueueOutgoingThreads
  <2>4. CASE AddActivated(d) \/ MarkActive(d)
    BY <2>4, AddActivatedThreads, MarkActiveThreads
  <2>5. CASE Collect(d)
    BY <2>5, CollectThreads
  <2>6. CASE PollReturns(d)
    <3>1. running[d] = Null
      BY <2>6 DEF PollReturns, Begin, Come, Threads, Working
    <3>. QED
      BY <2>6, <3>1, BeginThreads DEF PollReturns
  <2>7. CASE SourcesDone(d)
    BY <2>7, BeginThreads DEF SourcesDone
  <2>8. CASE SourceReturns(d) \/ HandleMessage(d) \/ MessageReturns(d)
    BY <2>8, CodeThreads
  <2>9. CASE MessagesDone(d)
    BY <2>9, DoneThreads
  <2>10. CASE Requeue(d)
    BY <2>10, RequeueThreads
  <2>11. CASE Retire(d)
    BY <2>11, RetireThreads
  <2>12. CASE PutAway(d)
    BY <2>12, PutAwayThreads
  <2>. QED
    BY <1>1, <2>1, <2>2, <2>3, <2>4, <2>5, <2>6, <2>7, <2>8, <2>9, <2>10, <2>11, <2>12
    DEF Thread
<1>2. ASSUME NEW d \in Dispatcher, PollInterrupted(d) PROVE Threads(runs)'
  <2>1. running[d] = Null
    BY <1>2 DEF PollInterrupted, Begin, Come, Goto, Threads, Working
  <2>. QED
    BY <1>2, <2>1, BeginThreads DEF PollInterrupted
<1>3. ASSUME NEW d \in Dispatcher, NEW a \in Actor, SourceReady(d, a) PROVE Threads(runs)'
  BY <1>3, CodeThreads
<1>4. ASSUME NEW d \in Dispatcher, NEW route \in Routes, queueMessage(d, route)
      PROVE  Threads(runs)'
  BY <1>4, queueMessageThreads
<1>5. CASE UNCHANGED vars
  BY <1>5 DEF vars, control, activity, Threads, Shapes, InThread, Working, Linked, Between
<1>. QED
  BY <1>1, <1>2, <1>3, <1>4, <1>5 DEF Next

LEMMA ThreadsInit ==
  ASSUME NEW CONSTANT runs, Init PROVE Threads(runs)
<1>1. \A d \in Dispatcher :
        /\ mActiveActors[d] = <<>> /\ actors[d] = <<>> /\ pc[d] = "new"
        /\ iterator[d].current = Null /\ iterator[d].subsequent = Null
        /\ running[d] = Null /\ activating[d] = Nothing
  BY DEF Init, Nowhere
<1>2. <<>> \in Seq(Actor) /\ Elements(<<>>) = {} /\ Once(<<>>)
  BY DEF Elements, Once
<1>3. Shapes
  BY <1>2 DEF Init, Shapes, Location, Nowhere
<1>4. InThread(runs) /\ Working /\ Linked
  BY <1>1, <1>2 DEF InThread, Working, Linked, Between, AtActor
<1>. QED
  BY <1>3, <1>4 DEF Threads

-----------------------------------------------------------------------------
(* Delivery *)

LEMMA AscendingTail ==
  ASSUME NEW s \in Seq(Nat), Len(s) > 0, Ascending(s)
  PROVE  /\ Ascending(Tail(s))
         /\ \A n \in Elements(Tail(s)) : sent[Head(s)] = sent[n] => Head(s) < n
<1>1. /\ Tail(s) \in Seq(Nat) /\ Len(Tail(s)) = Len(s) - 1 /\ Len(s) \in Nat /\ Head(s) = s[1]
      /\ \A k \in 1..Len(Tail(s)) : k + 1 \in 1..Len(s) /\ Tail(s)[k] = s[k + 1]
  BY TailParts
<1>2. ASSUME NEW k \in 1..Len(Tail(s)), NEW l \in 1..Len(Tail(s)), k < l,
             sent[Tail(s)[k]] = sent[Tail(s)[l]]
      PROVE  Tail(s)[k] < Tail(s)[l]
  <2>1. k + 1 < l + 1 /\ k + 1 \in 1..Len(s) /\ l + 1 \in 1..Len(s)
    BY <1>1, <1>2
  <2>. QED
    BY <1>1, <1>2, <2>1 DEF Ascending
<1>3. ASSUME NEW n \in Elements(Tail(s)), sent[Head(s)] = sent[n] PROVE Head(s) < n
  <2>1. PICK k \in 1..Len(Tail(s)) : n = Tail(s)[k]
    BY DEF Elements
  <2>2. 1 \in 1..Len(s) /\ k + 1 \in 1..Len(s) /\ 1 < k + 1 /\ n = s[k + 1]
    BY <1>1, <2>1
  <2>. QED
    BY <1>1, <1>3, <2>2 DEF Ascending
<1>. QED
  BY <1>2, <1>3 DEF Ascending

LEMMA AscendingAppend ==
  ASSUME NEW s \in Seq(Nat), NEW m \in Nat, Ascending(s),
         \A n \in Elements(s) : sent[n] = sent[m] => n < m
  PROVE  Ascending(Append(s, m))
<1>. DEFINE r == Append(s, m)
<1>1. /\ Len(r) = Len(s) + 1 /\ Len(s) \in Nat
      /\ \A k \in 1..Len(s) : r[k] = s[k]
      /\ r[Len(s) + 1] = m
  BY AppendOnce
<1>. HIDE DEF r
<1>2. SUFFICES ASSUME NEW k \in 1..Len(r), NEW l \in 1..Len(r), k < l, sent[r[k]] = sent[r[l]]
               PROVE  r[k] < r[l]
  BY DEF Ascending, r
<1>3. k \in 1..Len(s) /\ r[k] = s[k]
  BY <1>1, <1>2
<1>4. CASE l \in 1..Len(s)
  BY <1>1, <1>2, <1>3, <1>4 DEF Ascending
<1>5. CASE l = Len(s) + 1
  BY <1>1, <1>2, <1>3, <1>5 DEF Elements
<1>. QED
  BY <1>1, <1>4, <1>5

LEMMA AscendingConcat ==
  ASSUME NEW s \in Seq(Nat), NEW t \in Seq(Nat), Ascending(s), Ascending(t),
         Before(Elements(s), Elements(t))
  PROVE  Ascending(s \o t)
<1>. DEFINE r == s \o t
<1>1. /\ Len(r) = Len(s) + Len(t) /\ Len(s) \in Nat /\ Len(t) \in Nat
      /\ \A k \in 1..Len(s) : r[k] = s[k]
      /\ \A k \in 1..Len(t) : r[Len(s) + k] = t[k]
  BY ConcatOnce
<1>. HIDE DEF r
<1>2. SUFFICES ASSUME NEW k \in 1..Len(r), NEW l \in 1..Len(r), k < l, sent[r[k]] = sent[r[l]]
               PROVE  r[k] < r[l]
  BY DEF Ascending, r
<1>3. CASE l \in 1..Len(s)
  <2>1. k \in 1..Len(s) /\ r[k] = s[k] /\ r[l] = s[l]
    BY <1>1, <1>2, <1>3
  <2>. QED
    BY <1>2, <1>3, <2>1 DEF Ascending
<1>4. CASE k \in 1..Len(s) /\ l \notin 1..Len(s)
  <2>1. l - Len(s) \in 1..Len(t) /\ l = Len(s) + (l - Len(s))
    BY <1>1, <1>4
  <2>2. r[k] = s[k] /\ r[l] = t[l - Len(s)]
    BY <1>1, <1>4, <2>1
  <2>. QED
    BY <1>2, <1>4, <2>1, <2>2 DEF Before, Elements
<1>5. CASE k \notin 1..Len(s)
  <2>1. /\ k - Len(s) \in 1..Len(t) /\ k = Len(s) + (k - Len(s))
        /\ l - Len(s) \in 1..Len(t) /\ l = Len(s) + (l - Len(s))
        /\ k - Len(s) < l - Len(s)
    BY <1>1, <1>2, <1>5
  <2>2. r[k] = t[k - Len(s)] /\ r[l] = t[l - Len(s)]
    BY <1>1, <2>1
  <2>. QED
    BY <1>2, <2>1, <2>2 DEF Ascending
<1>. QED
  BY <1>3, <1>4, <1>5

\* Where a thread handles messages, and whose.
AtMessage(d) == pc[d] = "messages" /\ running[d] # Null

\* No message moves and no handler begins or returns.
LEMMA StillDelivery ==
  ASSUME Delivery, UNCHANGED <<queues, record>>,
         cursor' \in [Dispatcher -> [current : BOOLEAN, subsequent : BOOLEAN]],
         Cursors',
         \A d \in Dispatcher :
           /\ AtMessage(d)' <=> AtMessage(d)
           /\ AtMessage(d) => running'[d] = running[d]
  PROVE  Delivery'
<1>. USE DEF queues, record
<1>1. MessageShapes'
  BY DEF Delivery, MessageShapes
<1>2. Addressed' /\ Kept' /\ Ordered'
  <2>1. Addressed /\ Kept /\ Ordered
    BY DEF Delivery
  <2>2. Addressed'
    BY <2>1 DEF Addressed
  <2>3. Kept'
    BY <2>1 DEF Kept
  <2>4. Ordered'
    BY <2>1 DEF Ordered, Ascending, Before
  <2>. QED
    BY <2>2, <2>3, <2>4
<1>3. Handling'
  <2>1. Handling /\ Null \notin Actor
    BY DispatchAssumption DEF Delivery
  <2>2. \A d \in Dispatcher, a \in Actor :
          (pc[d] = "messages" /\ running[d] = a) <=> (pc'[d] = "messages" /\ running'[d] = a)
    BY DispatchAssumption DEF AtMessage
  <2>. QED
    BY <2>1, <2>2 DEF Handling, AtMessage
<1>. QED
  BY <1>1, <1>2, <1>3 DEF Delivery

\* From the sender's dispatcher to the end of the receiver's queue: what is
\* there of the same route left before it.
LEMMA QueueOutgoingDelivery ==
  ASSUME NEW CONSTANT runs, Threads(runs), Delivery, NEW d \in Dispatcher, QueueOutgoing(d)
  PROVE  Delivery'
<1>. DEFINE s == mOutgoingMessages[d]
            m == Head(s)
            rest == Tail(s)
            a == sent[m].to
            t == mQueuedMessages[a]
<1>1. /\ MessageShapes /\ Cursors /\ Addressed /\ Kept /\ Handling /\ Ordered
      /\ pc \in [Dispatcher -> Location]
  BY SMTT(60) DEF Delivery, Threads, Shapes
<1>2. /\ pc[d] = "outgoing" /\ UNCHANGED <<pc, running>> /\ cursor[d].current
      /\ mQueuedMessages' = [mQueuedMessages EXCEPT ![a] = Append(t, m)]
      /\ mOutgoingMessages' = [mOutgoingMessages EXCEPT ![d] = rest]
      /\ cursor' = [cursor EXCEPT ![d] = CursorAdvanced(@, rest)]
      /\ UNCHANGED <<mIncomingMessages, sent, handled>>
  BY <1>1 DEF QueueOutgoing, Goto, Queued, record
<1>3. s \in Seq(Nat) /\ Len(s) > 0 /\ Ascending(s)
  BY <1>1, <1>2 DEF MessageShapes, Cursors, Ordered
<1>4. /\ rest \in Seq(Nat) /\ Len(rest) = Len(s) - 1 /\ Len(s) \in Nat
      /\ m \in Nat /\ m \in Elements(s) /\ Elements(rest) \subseteq Elements(s)
      /\ \A n \in Elements(s) : n = m \/ n \in Elements(rest)
  BY <1>3, TailParts
<1>5. /\ Ascending(rest)
      /\ \A n \in Elements(rest) : sent[m] = sent[n] => m < n
  BY <1>3, AscendingTail
<1>6. /\ m \in 1..Len(sent) /\ Crosses(sent[m]) /\ QueueOf(sent[m]) = d /\ sent[m] \in Routes
      /\ m \notin handled
  BY <1>1, <1>4 DEF Addressed, Handling, MessageShapes
<1>7. a \in Actor /\ sent[m].to = a
  BY <1>6, DispatchAssumption
<1>8. t \in Seq(Nat) /\ Ascending(t) /\ \A n \in Elements(t) : sent[n] = sent[m] => n < m
  BY <1>1, <1>4, <1>7 DEF MessageShapes, Ordered, Before
<1>9. /\ Append(t, m) \in Seq(Nat) /\ Elements(Append(t, m)) = Elements(t) \cup {m}
      /\ Ascending(Append(t, m))
  BY <1>4, <1>8, AppendOnce, AscendingAppend
<1>. HIDE DEF m, rest, a, t
<1>10. /\ mOutgoingMessages'[d] = rest
       /\ \A e \in Dispatcher : e # d => mOutgoingMessages'[e] = mOutgoingMessages[e]
       /\ mQueuedMessages'[a] = Append(t, m)
       /\ \A b \in Actor : b # a => mQueuedMessages'[b] = mQueuedMessages[b]
  BY <1>1, <1>2, <1>7 DEF MessageShapes
<1>11. /\ \A e \in Dispatcher :
            /\ Elements(mOutgoingMessages'[e]) \subseteq Elements(mOutgoingMessages[e])
            /\ \A n \in Elements(mOutgoingMessages[e]) :
                 (n = m /\ e = d) \/ n \in Elements(mOutgoingMessages'[e])
       /\ \A b \in Actor :
            /\ Elements(mQueuedMessages[b]) \subseteq Elements(mQueuedMessages'[b])
            /\ \A n \in Elements(mQueuedMessages'[b]) :
                 (n = m /\ b = a) \/ n \in Elements(mQueuedMessages[b])
       /\ m \in Elements(mQueuedMessages'[a])
  BY <1>4, <1>9, <1>10 DEF t
<1>12. MessageShapes'
  <2>1. CursorAdvanced(cursor[d], rest) \in [current : BOOLEAN, subsequent : BOOLEAN]
    BY <1>1 DEF MessageShapes, CursorAdvanced
  <2>. QED
    BY <1>1, <1>2, <1>4, <1>7, <1>9, <2>1 DEF MessageShapes
<1>13. Cursors'
  <2>1. cursor'[d] = CursorAdvanced(cursor[d], rest) /\ \A e \in Dispatcher : e # d => cursor'[e] = cursor[e]
    BY <1>1, <1>2 DEF MessageShapes
  <2>2. /\ cursor'[d].current => Len(rest) > 0
        /\ cursor'[d].subsequent => Len(rest) > 1
    <3>1. cursor[d].subsequent => Len(s) > 1
      BY <1>1, <1>2 DEF Cursors
    <3>2. /\ cursor'[d].current = cursor[d].subsequent
          /\ cursor'[d].subsequent = (cursor[d].subsequent /\ Len(rest) > 1)
      BY <2>1 DEF CursorAdvanced
    <3>3. Len(s) > 1 => Len(rest) > 0
      BY <1>4
    <3>. HIDE DEF s
    <3>. QED
      BY <3>1, <3>2, <3>3
  <2>. QED
    BY <1>1, <1>2, <1>10, <2>1, <2>2 DEF Cursors
<1>14. Addressed'
  <2>1. ASSUME NEW e \in Dispatcher, NEW n \in Elements(mOutgoingMessages'[e])
        PROVE  n \in 1..Len(sent) /\ Crosses(sent[n]) /\ QueueOf(sent[n]) = e
    BY <1>1, <1>11, <2>1 DEF Addressed
  <2>2. ASSUME NEW b \in Actor, NEW n \in Elements(mQueuedMessages'[b])
        PROVE  n \in 1..Len(sent) /\ Crosses(sent[n]) /\ sent[n].to = b
    <3>1. CASE n \in Elements(mQueuedMessages[b])
      BY <1>1, <3>1 DEF Addressed
    <3>2. CASE n = m /\ b = a
      BY <1>6, <1>7, <3>2
    <3>. QED
      BY <1>11, <2>2, <3>1, <3>2
  <2>3. /\ \A b \in Actor : \A n \in Elements(mIncomingMessages[b]) :
             n \in 1..Len(sent) /\ sent[n].to = b
        /\ handled \subseteq 1..Len(sent)
    BY <1>1 DEF Addressed
  <2>. QED
    BY <1>2, <2>1, <2>2, <2>3 DEF Addressed, Crosses, QueueOf
<1>15. Kept'
  <2>. SUFFICES ASSUME NEW n \in (1..Len(sent)) \ handled
                PROVE  \/ n \in Elements(mOutgoingMessages'[QueueOf(sent[n])])
                       \/ n \in Elements(mQueuedMessages'[sent[n].to])
                       \/ n \in Elements(mIncomingMessages[sent[n].to])
    BY <1>2 DEF Kept
  <2>1. sent[n] \in Routes
    BY <1>1 DEF MessageShapes
  <2>2. sent[n].to \in Actor /\ QueueOf(sent[n]) \in Dispatcher
    BY <2>1, DispatchAssumption DEF QueueOf
  <2>. QED
    BY <1>1, <1>7, <1>11, <2>2 DEF Kept
<1>16. Handling'
  BY <1>1, <1>2, <1>6, <1>11, ZenonT(60) DEF Handling
<1>17. Ordered'
  <2>1. \A e \in Dispatcher : Ascending(mOutgoingMessages[e])'
    <3>1. ASSUME NEW e \in Dispatcher PROVE Ascending(mOutgoingMessages'[e])
      BY <1>1, <1>5, <1>10 DEF Ordered
    <3>. QED
      BY <1>2, <3>1 DEF Ascending
  <2>2. \A b \in Actor : Ascending(mQueuedMessages[b])' /\ Ascending(mIncomingMessages[b])'
    <3>1. ASSUME NEW b \in Actor
          PROVE  Ascending(mQueuedMessages'[b]) /\ Ascending(mIncomingMessages[b])
      BY <1>1, <1>9, <1>10 DEF Ordered
    <3>. QED
      BY <1>2, <3>1, SMTT(60) DEF Ascending
  <2>3. ASSUME NEW b \in Actor, NEW k \in Elements(mIncomingMessages[b]),
               NEW n \in Elements(mQueuedMessages'[b]), sent[k] = sent[n]
        PROVE  k < n
    BY <1>1, <1>4, <1>11, <2>3, ZenonT(60) DEF Ordered, Before
  <2>4. ASSUME NEW b \in Actor, NEW e \in Dispatcher,
               NEW k \in Elements(mQueuedMessages'[b]),
               NEW n \in Elements(mOutgoingMessages'[e]), sent[k] = sent[n]
        PROVE  k < n
    <3>1. CASE k \in Elements(mQueuedMessages[b])
      BY <1>1, <1>11, <2>4, <3>1 DEF Ordered, Before
    <3>2. CASE k = m
      <4>1. QueueOf(sent[n]) = e
        BY <1>1, <1>11 DEF Addressed
      <4>2. e = d
        BY <1>6, <2>4, <3>2, <4>1
      <4>. QED
        BY <1>5, <1>10, <2>4, <3>2, <4>2
    <3>. QED
      BY <1>11, <3>1, <3>2
  <2>5. ASSUME NEW b \in Actor, NEW e \in Dispatcher,
               NEW k \in Elements(mIncomingMessages[b]),
               NEW n \in Elements(mOutgoingMessages'[e]), sent[k] = sent[n]
        PROVE  k < n
    BY <1>1, <1>11, <2>5 DEF Ordered, Before
  <2>6. Before(handled, (1..Len(sent)) \ handled)
    BY <1>1 DEF Ordered
  <2>. QED
    BY <1>2, <2>1, <2>2, <2>3, <2>4, <2>5, <2>6 DEF Ordered, Before
<1>. QED
  BY <1>12, <1>13, <1>14, <1>15, <1>16, <1>17 DEF Delivery

\* The queues of some actors are put behind their incoming messages.
LEMMA TakeQueuedDelivery ==
  ASSUME NEW CONSTANT runs, Threads(runs), Delivery, NEW d \in Dispatcher, TakeQueued(d)
  PROVE  Delivery'
<1>. DEFINE takes(a) == S!Contains(actors[d], a)
            joined(a) == mIncomingMessages[a] \o mQueuedMessages[a]
<1>1. /\ MessageShapes /\ Cursors /\ Addressed /\ Kept /\ Handling /\ Ordered
      /\ pc \in [Dispatcher -> Location]
  BY DEF Delivery, Threads, Shapes
<1>2. /\ pc[d] = "incoming" /\ pc' = [pc EXCEPT ![d] = "readRecycled"]
      /\ UNCHANGED <<cursor, running, mOutgoingMessages, sent, handled>>
      /\ mIncomingMessages' = [a \in Actor |-> IF takes(a) THEN joined(a) ELSE mIncomingMessages[a]]
      /\ mQueuedMessages' = [a \in Actor |-> IF takes(a) THEN <<>> ELSE mQueuedMessages[a]]
  BY DEF TakeQueued, Goto, control, record
<1>3. /\ \A e \in Dispatcher : (pc'[e] = "messages") <=> (pc[e] = "messages")
      /\ \A e \in Dispatcher : (pc'[e] = "outgoing") <=> (pc[e] = "outgoing")
  BY <1>1, <1>2
<1>4. ASSUME NEW a \in Actor
      PROVE  /\ joined(a) \in Seq(Nat) /\ Len(joined(a)) \in Nat /\ Ascending(joined(a))
             /\ Len(mIncomingMessages[a]) \in Nat /\ Len(mIncomingMessages[a]) <= Len(joined(a))
             /\ \A k \in 1..Len(mIncomingMessages[a]) : joined(a)[k] = mIncomingMessages[a][k]
             /\ \A k \in 1..Len(joined(a)) :
                  k \in 1..Len(mIncomingMessages[a]) \/ joined(a)[k] \in Elements(mQueuedMessages[a])
             /\ Elements(joined(a)) =
                  Elements(mIncomingMessages[a]) \cup Elements(mQueuedMessages[a])
  <2>. DEFINE u == mIncomingMessages[a]
              v == mQueuedMessages[a]
  <2>1. /\ u \in Seq(Nat) /\ v \in Seq(Nat) /\ Ascending(u) /\ Ascending(v)
        /\ Before(Elements(u), Elements(v))
    BY <1>1 DEF MessageShapes, Ordered
  <2>. HIDE DEF u, v
  <2>2. /\ u \o v \in Seq(Nat) /\ Len(u \o v) = Len(u) + Len(v)
        /\ Len(u) \in Nat /\ Len(v) \in Nat
        /\ \A k \in 1..Len(u) : (u \o v)[k] = u[k]
        /\ \A k \in 1..Len(v) : (u \o v)[Len(u) + k] = v[k]
        /\ Elements(u \o v) = Elements(u) \cup Elements(v)
    BY <2>1, ConcatOnce
  <2>3. Ascending(u \o v)
    BY <2>1, AscendingConcat
  <2>4. ASSUME NEW k \in 1..Len(u \o v), k \notin 1..Len(u) PROVE (u \o v)[k] \in Elements(v)
    <3>1. k - Len(u) \in 1..Len(v) /\ k = Len(u) + (k - Len(u))
      BY <2>2, <2>4
    <3>. QED
      BY <2>2, <3>1 DEF Elements
  <2>5. Len(u \o v) \in Nat /\ Len(u) <= Len(u \o v)
    BY <2>2
  <2>. QED
    BY <2>2, <2>3, <2>4, <2>5 DEF u, v
<1>5. <<>> \in Seq(Nat) /\ Elements(<<>>) = {} /\ Len(<<>>) = 0 /\ Ascending(<<>>)
  BY DEF Elements, Ascending
<1>. HIDE DEF takes, joined
<1>6. ASSUME NEW a \in Actor
      PROVE  \/ /\ mIncomingMessages'[a] = joined(a) /\ mQueuedMessages'[a] = <<>>
             \/ /\ mIncomingMessages'[a] = mIncomingMessages[a]
                /\ mQueuedMessages'[a] = mQueuedMessages[a]
  BY <1>2
<1>7. ASSUME NEW a \in Actor
      PROVE  /\ Elements(mIncomingMessages'[a]) \subseteq
                  Elements(mIncomingMessages[a]) \cup Elements(mQueuedMessages[a])
             /\ Elements(mQueuedMessages'[a]) \subseteq Elements(mQueuedMessages[a])
             /\ Elements(mIncomingMessages[a]) \cup Elements(mQueuedMessages[a]) \subseteq
                  Elements(mIncomingMessages'[a]) \cup Elements(mQueuedMessages'[a])
             /\ Elements(mQueuedMessages'[a]) = {} \/
                  Elements(mIncomingMessages'[a]) = Elements(mIncomingMessages[a])
             /\ Ascending(mIncomingMessages'[a]) /\ Ascending(mQueuedMessages'[a])
  <2>1. Ascending(mIncomingMessages[a]) /\ Ascending(mQueuedMessages[a])
    BY <1>1 DEF Ordered
  <2>2. /\ Ascending(joined(a))
        /\ Elements(joined(a)) =
             Elements(mIncomingMessages[a]) \cup Elements(mQueuedMessages[a])
    BY <1>4
  <2>. QED
    BY <1>5, <1>6, <2>1, <2>2
<1>8. MessageShapes'
  BY <1>1, <1>2, <1>4, <1>5 DEF MessageShapes
<1>9. Cursors'
  BY <1>1, <1>2, <1>3 DEF Cursors
<1>10. Addressed'
  BY <1>1, <1>2, <1>7 DEF Addressed
<1>11. Kept'
  <2>. SUFFICES ASSUME NEW n \in (1..Len(sent)) \ handled
                PROVE  \/ n \in Elements(mOutgoingMessages[QueueOf(sent[n])])
                       \/ n \in Elements(mQueuedMessages'[sent[n].to])
                       \/ n \in Elements(mIncomingMessages'[sent[n].to])
    BY <1>2 DEF Kept
  <2>1. sent[n] \in Routes
    BY <1>1 DEF MessageShapes
  <2>2. sent[n].to \in Actor
    BY <2>1, DispatchAssumption
  <2>. QED
    BY <1>1, <1>7, <2>2 DEF Kept
<1>12. Handling'
  <2>1. ASSUME NEW a \in Actor, NEW k \in 1..Len(mIncomingMessages'[a]),
               mIncomingMessages'[a][k] \in handled
        PROVE  k = 1 /\ \E e \in Dispatcher : pc'[e] = "messages" /\ running[e] = a
    <3>1. \A n \in Elements(mQueuedMessages[a]) : n \notin handled
      BY <1>1 DEF Handling
    <3>2. k \in 1..Len(mIncomingMessages[a]) /\ mIncomingMessages[a][k] \in handled
      BY <1>4, <1>6, <2>1, <3>1
    <3>. QED
      BY <1>1, <1>3, <3>2 DEF Handling
  <2>2. ASSUME NEW e \in Dispatcher, pc'[e] = "messages", running[e] # Null
        PROVE  /\ Len(mIncomingMessages'[running[e]]) > 0
               /\ mIncomingMessages'[running[e]][1] \in handled
    <3>1. /\ Len(mIncomingMessages[running[e]]) > 0
          /\ mIncomingMessages[running[e]][1] \in handled
      BY <1>1, <1>3, <2>2 DEF Handling
    <3>2. running[e] \in Actor
      BY <2>2 DEF Threads, Shapes
    <3>3. Len(mIncomingMessages[running[e]]) \in Nat
      BY <1>4, <3>2
    <3>4. 1 \in 1..Len(mIncomingMessages[running[e]])
      BY <3>1, <3>3
    <3>. QED
      BY <1>4, <1>6, <3>1, <3>2, <3>4
  <2>3. \A e \in Dispatcher : \A n \in Elements(mOutgoingMessages[e]) : n \notin handled
    BY <1>1 DEF Handling
  <2>4. \A a \in Actor : \A n \in Elements(mQueuedMessages'[a]) : n \notin handled
    BY <1>1, <1>7 DEF Handling
  <2>. QED
    BY <1>2, <2>1, <2>2, <2>3, <2>4 DEF Handling
<1>13. Ordered'
  <2>1. /\ \A e \in Dispatcher : Ascending(mOutgoingMessages[e])'
        /\ \A a \in Actor : Ascending(mQueuedMessages[a])' /\ Ascending(mIncomingMessages[a])'
    BY <1>1, <1>2, <1>7 DEF Ordered, Ascending
  <2>2. ASSUME NEW a \in Actor, NEW k \in Elements(mIncomingMessages'[a]),
               NEW n \in Elements(mQueuedMessages'[a]), sent[k] = sent[n]
        PROVE  k < n
    BY <1>1, <1>7, <2>2 DEF Ordered, Before
  <2>3. ASSUME NEW a \in Actor, NEW e \in Dispatcher,
               NEW k \in Elements(mQueuedMessages'[a]) \cup Elements(mIncomingMessages'[a]),
               NEW n \in Elements(mOutgoingMessages[e]), sent[k] = sent[n]
        PROVE  k < n
    BY <1>1, <1>7, <2>3 DEF Ordered, Before
  <2>4. Before(handled, (1..Len(sent)) \ handled)
    BY <1>1 DEF Ordered
  <2>. QED
    BY <1>2, <2>1, <2>2, <2>3, <2>4 DEF Ordered, Before
<1>. QED
  BY <1>8, <1>9, <1>10, <1>11, <1>12, <1>13 DEF Delivery

\* The first incoming message is handled: all those of its route before it
\* have been, since none of them is in a queue.
LEMMA HandleMessageDelivery ==
  ASSUME NEW CONSTANT runs, Threads(runs), Delivery, NEW d \in Dispatcher, HandleMessage(d)
  PROVE  Delivery'
<1>. DEFINE c == iterator[d].current
            s == mIncomingMessages[c]
            h == Head(s)
<1>1. /\ MessageShapes /\ Cursors /\ Addressed /\ Kept /\ Handling /\ Ordered
      /\ Shapes /\ Working
  BY DEF Delivery, Threads
<1>2. /\ pc[d] = "messages" /\ UNCHANGED <<pc, cursor, queues, sent>> /\ running[d] = Null
      /\ running' = [running EXCEPT ![d] = c] /\ handled' = handled \cup {h} /\ s # <<>>
  BY <1>1 DEF HandleMessage, Goto, Shapes
<1>3. c \in Actor /\ c # Null
  BY <1>1, <1>2, DispatchAssumption DEF Working, AtActor
<1>4. s \in Seq(Nat) /\ Len(s) \in Nat /\ Len(s) > 0 /\ Ascending(s)
  <2>1. s \in Seq(Nat) /\ Ascending(s)
    BY <1>1, <1>3 DEF MessageShapes, Ordered
  <2>. HIDE DEF s
  <2>. QED
    BY <1>2, <2>1
<1>5. h \in Elements(s) /\ h = s[1] /\ h \in Nat
  BY <1>4, TailParts
<1>6. h \in 1..Len(sent) /\ sent[h].to = c
  BY <1>1, <1>3, <1>5 DEF Addressed
<1>. HIDE DEF c, h
<1>7. running'[d] = c /\ \A e \in Dispatcher : e # d => running'[e] = running[e]
  BY <1>1, <1>2 DEF Shapes
<1>8. \A k \in 1..Len(s) : s[k] = h => k = 1
  <2>. SUFFICES ASSUME NEW k \in 1..Len(s), s[k] = h, k # 1 PROVE FALSE
    OBVIOUS
  <2>1. 1 \in 1..Len(s) /\ 1 < k
    BY <1>4
  <2>2. s[1] < s[k]
    BY <1>4, <1>5, <2>1 DEF Ascending
  <2>. QED
    BY <1>5, <2>2
<1>9. \A n \in Elements(s) : n = h \/ (sent[h] = sent[n] => h < n)
  <2>. SUFFICES ASSUME NEW n \in Elements(s), n # h, sent[h] = sent[n] PROVE h < n
    OBVIOUS
  <2>1. PICK k \in 1..Len(s) : n = s[k]
    BY DEF Elements
  <2>2. 1 \in 1..Len(s) /\ 1 < k
    BY <1>4, <1>5, <2>1
  <2>. QED
    BY <1>4, <1>5, <2>1, <2>2 DEF Ascending
<1>10. \A e \in Dispatcher : \A n \in Elements(mOutgoingMessages[e]) :
         n # h /\ (sent[h] = sent[n] => h < n)
  <2>. SUFFICES ASSUME NEW e \in Dispatcher, NEW n \in Elements(mOutgoingMessages[e])
                PROVE  n # h /\ (sent[h] = sent[n] => h < n)
    OBVIOUS
  <2>1. sent[h] = sent[n] => h < n
    BY <1>1, <1>3, <1>5 DEF Ordered, Before
  <2>2. n = h => h < h
    BY <2>1
  <2>. HIDE DEF s
  <2>. QED
    BY <1>5, <2>1, <2>2
<1>11. \A a \in Actor : \A n \in Elements(mQueuedMessages[a]) :
         n # h /\ (a = c => (sent[h] = sent[n] => h < n))
  BY <1>1, <1>3, <1>5, <1>6 DEF Ordered, Before, Addressed
<1>12. MessageShapes' /\ Cursors'
  BY <1>1, <1>2 DEF MessageShapes, Cursors, queues
<1>13. Addressed'
  BY <1>1, <1>2, <1>6 DEF Addressed, queues
<1>14. Kept'
  BY <1>1, <1>2 DEF Kept, queues
<1>15. Handling'
  <2>1. /\ \A e \in Dispatcher : \A n \in Elements(mOutgoingMessages[e]) : n \notin handled'
        /\ \A a \in Actor : \A n \in Elements(mQueuedMessages[a]) : n \notin handled'
    BY <1>1, <1>2, <1>10, <1>11 DEF Handling
  <2>2. ASSUME NEW a \in Actor, NEW k \in 1..Len(mIncomingMessages[a]),
               mIncomingMessages[a][k] \in handled'
        PROVE  k = 1 /\ \E e \in Dispatcher : pc[e] = "messages" /\ running'[e] = a
    <3>1. CASE mIncomingMessages[a][k] = h
      <4>1. h \in Elements(mIncomingMessages[a])
        BY <3>1 DEF Elements
      <4>2. a = c
        BY <1>1, <1>6, <4>1 DEF Addressed
      <4>. QED
        BY <1>2, <1>7, <1>8, <2>2, <3>1, <4>2 DEF c
    <3>2. CASE mIncomingMessages[a][k] \in handled
      <4>1. k = 1
        BY <1>1, <3>2 DEF Handling
      <4>2. PICK e \in Dispatcher : pc[e] = "messages" /\ running[e] = a
        BY <1>1, <3>2 DEF Handling
      <4>3. e # d
        BY <1>2, <4>2, DispatchAssumption
      <4>. QED
        BY <1>7, <4>1, <4>2, <4>3
    <3>. QED
      BY <1>2, <2>2, <3>1, <3>2
  <2>3. ASSUME NEW e \in Dispatcher, pc[e] = "messages", running'[e] # Null
        PROVE  /\ Len(mIncomingMessages[running'[e]]) > 0
               /\ mIncomingMessages[running'[e]][1] \in handled'
    <3>1. CASE e = d
      BY <1>2, <1>4, <1>5, <1>7, <3>1 DEF c
    <3>2. CASE e # d
      <4>1. running'[e] = running[e]
        BY <1>7, <3>2
      <4>. QED
        BY <1>1, <1>2, <2>3, <4>1 DEF Handling
    <3>. QED
      BY <3>1, <3>2
  <2>. QED
    BY <1>2, <2>1, <2>2, <2>3 DEF Handling, queues
<1>16. Ordered'
  <2>1. ASSUME NEW n \in (1..Len(sent)) \ handled', sent[h] = sent[n] PROVE h < n
    <3>1. n # h /\ n \in (1..Len(sent)) \ handled
      BY <1>2, <2>1
    <3>2. sent[n].to = c /\ sent[n] \in Routes
      BY <1>1, <1>6, <2>1 DEF MessageShapes
    <3>3. QueueOf(sent[n]) \in Dispatcher
      BY <3>2, DispatchAssumption DEF QueueOf
    <3>4. \/ n \in Elements(mOutgoingMessages[QueueOf(sent[n])])
          \/ n \in Elements(mQueuedMessages[c])
          \/ n \in Elements(s)
      BY <1>1, <3>1, <3>2 DEF Kept, c
    <3>5. ASSUME n \in Elements(mOutgoingMessages[QueueOf(sent[n])]) PROVE h < n
      BY <1>10, <2>1, <3>3, <3>5
    <3>6. ASSUME n \in Elements(mQueuedMessages[c]) PROVE h < n
      BY <1>3, <1>11, <2>1, <3>6
    <3>7. ASSUME n \in Elements(s) PROVE h < n
      BY <1>9, <2>1, <3>1, <3>7
    <3>. QED
      BY <3>4, <3>5, <3>6, <3>7
  <2>2. Before(handled, (1..Len(sent)) \ handled)
    BY <1>1 DEF Ordered
  <2>3. Before(handled', (1..Len(sent)) \ handled')
    BY <1>2, <2>1, <2>2 DEF Before
  <2>. QED
    BY <1>1, <1>2, <2>3 DEF Ordered, Ascending, Before, queues
<1>. QED
  BY <1>12, <1>13, <1>14, <1>15, <1>16 DEF Delivery

\* The handler returns, and its message leaves the queue it was first in.
LEMMA MessageReturnsDelivery ==
  ASSUME NEW CONSTANT runs, Threads(runs), Delivery, NEW d \in Dispatcher, MessageReturns(d)
  PROVE  Delivery'
<1>. DEFINE c == running[d]
            s == mIncomingMessages[c]
            h == Head(s)
            rest == Tail(s)
<1>1. /\ MessageShapes /\ Cursors /\ Addressed /\ Kept /\ Handling /\ Ordered
      /\ Shapes /\ InThread(runs)
  BY DEF Delivery, Threads
<1>2. /\ pc[d] = "messages" /\ UNCHANGED pc /\ c # Null
      /\ mIncomingMessages' = [mIncomingMessages EXCEPT ![c] = rest]
      /\ cursor' = [cursor EXCEPT ![d] = CursorAdvanced(@, rest)]
      /\ running' = [running EXCEPT ![d] = Null]
      /\ UNCHANGED <<mOutgoingMessages, mQueuedMessages, sent, handled>>
  BY <1>1 DEF MessageReturns, Goto, Shapes, record
<1>3. c \in Actor
  BY <1>1, <1>2 DEF Shapes
<1>4. s \in Seq(Nat) /\ Len(s) \in Nat /\ Len(s) > 0 /\ Ascending(s)
      /\ s[1] \in handled
  BY <1>1, <1>2, <1>3 DEF MessageShapes, Ordered, Handling
<1>5. /\ rest \in Seq(Nat) /\ Len(rest) = Len(s) - 1 /\ h = s[1] /\ h \in handled
      /\ Elements(rest) \subseteq Elements(s)
      /\ \A n \in Elements(s) : n = h \/ n \in Elements(rest)
      /\ \A k \in 1..Len(rest) : k + 1 \in 1..Len(s) /\ rest[k] = s[k + 1]
  BY <1>4, TailParts
<1>6. Ascending(rest)
  BY <1>4, AscendingTail
<1>7. \A k \in 1..Len(rest) : rest[k] \notin handled
  <2>. SUFFICES ASSUME NEW k \in 1..Len(rest), rest[k] \in handled PROVE FALSE
    OBVIOUS
  <2>1. k + 1 \in 1..Len(s) /\ s[k + 1] \in handled
    BY <1>5
  <2>2. k + 1 = 1
    BY <1>1, <1>3, <2>1 DEF Handling
  <2>3. Len(rest) \in Nat
    BY <1>5
  <2>. QED
    BY <2>2, <2>3
<1>. HIDE DEF c, s, h, rest
<1>8. /\ mIncomingMessages'[c] = rest /\ mIncomingMessages[c] = s
      /\ \A a \in Actor : a # c => mIncomingMessages'[a] = mIncomingMessages[a]
  BY <1>1, <1>2, <1>3 DEF MessageShapes, s
<1>9. /\ \A a \in Actor :
           /\ Elements(mIncomingMessages'[a]) \subseteq Elements(mIncomingMessages[a])
           /\ \A n \in Elements(mIncomingMessages[a]) :
                n \in handled \/ n \in Elements(mIncomingMessages'[a])
           /\ Ascending(mIncomingMessages'[a])
  BY <1>1, <1>5, <1>6, <1>8 DEF Ordered
<1>10. MessageShapes'
  <2>1. CursorAdvanced(cursor[d], rest) \in [current : BOOLEAN, subsequent : BOOLEAN]
    BY <1>1 DEF MessageShapes, CursorAdvanced
  <2>. QED
    BY <1>1, <1>2, <1>3, <1>5, <2>1 DEF MessageShapes
<1>11. Cursors'
  <2>1. \A e \in Dispatcher : e # d => cursor'[e] = cursor[e]
    BY <1>1, <1>2 DEF MessageShapes
  <2>. QED
    BY <1>1, <1>2, <2>1 DEF Cursors
<1>12. Addressed'
  BY <1>1, <1>2, <1>9 DEF Addressed
<1>13. Kept'
  <2>. SUFFICES ASSUME NEW n \in (1..Len(sent)) \ handled
                PROVE  \/ n \in Elements(mOutgoingMessages[QueueOf(sent[n])])
                       \/ n \in Elements(mQueuedMessages[sent[n].to])
                       \/ n \in Elements(mIncomingMessages'[sent[n].to])
    BY <1>2 DEF Kept
  <2>1. sent[n] \in Routes
    BY <1>1 DEF MessageShapes
  <2>2. sent[n].to \in Actor
    BY <2>1, DispatchAssumption
  <2>. QED
    BY <1>1, <1>9, <2>2 DEF Kept
<1>14. Handling'
  <2>1. running'[d] = Null /\ \A e \in Dispatcher : e # d => running'[e] = running[e]
    BY <1>1, <1>2 DEF Shapes
  <2>2. ASSUME NEW a \in Actor, NEW k \in 1..Len(mIncomingMessages'[a]),
               mIncomingMessages'[a][k] \in handled
        PROVE  k = 1 /\ \E e \in Dispatcher : pc[e] = "messages" /\ running'[e] = a
    <3>1. a # c
      BY <1>7, <1>8, <2>2
    <3>2. k \in 1..Len(mIncomingMessages[a]) /\ mIncomingMessages[a][k] \in handled
      BY <1>8, <2>2, <3>1
    <3>3. k = 1
      BY <1>1, <3>2 DEF Handling
    <3>4. PICK e \in Dispatcher : pc[e] = "messages" /\ running[e] = a
      BY <1>1, <3>2 DEF Handling
    <3>5. e # d
      BY <3>1, <3>4 DEF c
    <3>. QED
      BY <2>1, <3>3, <3>4, <3>5
  <2>3. ASSUME NEW e \in Dispatcher, pc[e] = "messages", running'[e] # Null
        PROVE  /\ Len(mIncomingMessages'[running'[e]]) > 0
               /\ mIncomingMessages'[running'[e]][1] \in handled
    <3>1. e # d /\ running'[e] = running[e] /\ running[e] \in Actor
      BY <1>1, <2>1, <2>3 DEF Shapes
    <3>2. runs[running[e]] = e /\ runs[c] = d
      BY <1>1, <1>2, <2>3, <3>1 DEF InThread, c
    <3>3. running[e] # c
      BY <3>1, <3>2
    <3>4. mIncomingMessages'[running'[e]] = mIncomingMessages[running[e]]
      BY <1>8, <3>1, <3>3
    <3>. QED
      BY <1>1, <2>3, <3>1, <3>4 DEF Handling
  <2>4. /\ \A e \in Dispatcher : \A n \in Elements(mOutgoingMessages[e]) : n \notin handled
        /\ \A a \in Actor : \A n \in Elements(mQueuedMessages[a]) : n \notin handled
    BY <1>1 DEF Handling
  <2>. QED
    BY <1>2, <2>2, <2>3, <2>4 DEF Handling
<1>15. Ordered'
  <2>1. ASSUME NEW a \in Actor
        PROVE  Ascending(mQueuedMessages[a]) /\ Ascending(mIncomingMessages'[a])
    BY <1>1, <1>9 DEF Ordered
  <2>2. /\ \A e \in Dispatcher : Ascending(mOutgoingMessages[e])'
        /\ \A a \in Actor : Ascending(mQueuedMessages[a])' /\ Ascending(mIncomingMessages[a])'
    BY <1>1, <1>2, <2>1 DEF Ordered, Ascending
  <2>3. ASSUME NEW a \in Actor, NEW k \in Elements(mIncomingMessages'[a]),
               NEW n \in Elements(mQueuedMessages[a]), sent[k] = sent[n]
        PROVE  k < n
    BY <1>1, <1>9, <2>3 DEF Ordered, Before
  <2>4. ASSUME NEW a \in Actor, NEW e \in Dispatcher,
               NEW k \in Elements(mQueuedMessages[a]) \cup Elements(mIncomingMessages'[a]),
               NEW n \in Elements(mOutgoingMessages[e]), sent[k] = sent[n]
        PROVE  k < n
    BY <1>1, <1>9, <2>4 DEF Ordered, Before
  <2>5. Before(handled, (1..Len(sent)) \ handled)
    BY <1>1 DEF Ordered
  <2>. QED
    BY <1>2, <2>2, <2>3, <2>4, <2>5 DEF Ordered, Before
<1>. QED
  BY <1>10, <1>11, <1>12, <1>13, <1>14, <1>15 DEF Delivery

\* A new message has the highest number, and starts in the last queue on its
\* route: the sender's dispatcher's if the route crosses, else the receiver's.
LEMMA queueMessageDelivery ==
  ASSUME NEW CONSTANT runs, Threads(runs), Delivery, NEW d \in Dispatcher,
         NEW route \in Routes, queueMessage(d, route)
  PROVE  Delivery'
<1>. DEFINE n0 == Len(sent)
            m == Len(sent) + 1
            q == QueueOf(route)
            to == route.to
<1>1. /\ MessageShapes /\ Cursors /\ Addressed /\ Kept /\ Handling /\ Ordered
  BY DEF Delivery
<1>2. /\ sent' = Append(sent, route)
      /\ UNCHANGED <<mQueuedMessages, pc, cursor, running, handled>>
      /\ IF ~Crosses(route)
         THEN /\ mIncomingMessages' = [mIncomingMessages EXCEPT ![to] = Append(@, m)]
              /\ UNCHANGED mOutgoingMessages
         ELSE /\ mOutgoingMessages' = [mOutgoingMessages EXCEPT ![q] = Append(@, m)]
              /\ UNCHANGED mIncomingMessages
  BY DEF queueMessage, Queued, QueueOf, Crosses
<1>3. to \in Actor /\ q \in Dispatcher
  BY DispatchAssumption DEF QueueOf
<1>4. /\ n0 \in Nat /\ m \in Nat /\ m = n0 + 1 /\ sent' \in Seq(Routes) /\ Len(sent') = m
      /\ sent'[m] = route
      /\ \A n \in 1..n0 : sent'[n] = sent[n] /\ n < m
  <2>1. sent \in Seq(Routes)
    BY <1>1 DEF MessageShapes
  <2>2. /\ Append(sent, route) \in Seq(Routes) /\ Len(Append(sent, route)) = Len(sent) + 1
        /\ Len(sent) \in Nat
        /\ \A k \in 1..Len(sent) : Append(sent, route)[k] = sent[k]
        /\ Append(sent, route)[Len(sent) + 1] = route
    BY <2>1, AppendOnce
  <2>3. \A n \in 1..Len(sent) : n < Len(sent) + 1
    BY <2>2
  <2>. QED
    BY <1>2, <2>2, <2>3
<1>. HIDE DEF n0, m, q, to
<1>5. ASSUME NEW s \in Seq(Nat), NEW r, r = s \/ r = Append(s, m), Ascending(s),
             \A n \in Elements(s) : n \in 1..n0
      PROVE  /\ r \in Seq(Nat) /\ Elements(s) \subseteq Elements(r)
             /\ \A n \in Elements(r) : n \in Elements(s) \/ (n = m /\ r = Append(s, m))
             /\ r = Append(s, m) => m \in Elements(r)
             /\ \A k \in 1..Len(r) : (k \in 1..Len(s) /\ r[k] = s[k]) \/ r[k] = m
             /\ Len(s) > 0 => Len(r) > 0 /\ r[1] = s[1]
             /\ Len(r) >= Len(s)
             /\ \A k, l \in 1..Len(r) : k < l /\ sent'[r[k]] = sent'[r[l]] => r[k] < r[l]
  <2>1. /\ Append(s, m) \in Seq(Nat) /\ Len(Append(s, m)) = Len(s) + 1 /\ Len(s) \in Nat
        /\ \A k \in 1..Len(s) : Append(s, m)[k] = s[k]
        /\ Append(s, m)[Len(s) + 1] = m
        /\ Elements(Append(s, m)) = Elements(s) \cup {m}
    BY <1>4, AppendOnce
  <2>2. r \in Seq(Nat) /\ Len(r) \in {Len(s), Len(s) + 1} /\ \A k \in 1..Len(s) : r[k] = s[k]
    BY <1>5, <2>1
  <2>3. \A k \in 1..Len(r) : (k \in 1..Len(s) /\ r[k] = s[k]) \/ (k = Len(s) + 1 /\ r[k] = m)
    <3>1. CASE r = s
      BY <3>1
    <3>2. CASE r = Append(s, m)
      <4>1. \A k \in 1..(Len(s) + 1) : k \in 1..Len(s) \/ k = Len(s) + 1
        BY <2>1
      <4>. QED
        BY <2>1, <3>2, <4>1
    <3>. QED
      BY <1>5, <3>1, <3>2
  <2>4. Len(s) > 0 => Len(r) > 0 /\ r[1] = s[1]
    <3>1. Len(s) > 0 => 1 \in 1..Len(s)
      BY <2>1
    <3>. QED
      BY <2>1, <2>2, <3>1, SMTT(60)
  <2>5. ASSUME NEW k \in 1..Len(r), NEW l \in 1..Len(r), k < l, sent'[r[k]] = sent'[r[l]]
        PROVE  r[k] < r[l]
    <3>1. k \in 1..Len(s) /\ r[k] = s[k]
      BY <2>1, <2>2, <2>3, <2>5
    <3>2. s[k] \in 1..n0
      BY <1>5, <3>1 DEF Elements
    <3>3. CASE l \in 1..Len(s) /\ r[l] = s[l]
      <4>1. s[l] \in 1..n0
        BY <1>5, <3>3 DEF Elements
      <4>2. sent[s[k]] = sent[s[l]]
        BY <1>4, <2>5, <3>1, <3>2, <3>3, <4>1
      <4>. QED
        BY <1>5, <2>5, <3>1, <3>3, <4>2 DEF Ascending
    <3>4. CASE r[l] = m
      BY <1>4, <3>1, <3>2, <3>4
    <3>. QED
      BY <2>3, <3>3, <3>4
  <2>6. Len(r) >= Len(s)
    BY <2>1, <2>2
  <2>7. /\ Elements(s) \subseteq Elements(r)
        /\ \A n \in Elements(r) : n \in Elements(s) \/ (n = m /\ r = Append(s, m))
        /\ r = Append(s, m) => m \in Elements(r)
    <3>1. CASE r = s
      BY <2>1, <3>1
    <3>2. CASE r = Append(s, m)
      BY <2>1, <3>2
    <3>. QED
      BY <1>5, <3>1, <3>2
  <2>8. \A k \in 1..Len(r) : (k \in 1..Len(s) /\ r[k] = s[k]) \/ r[k] = m
    BY <2>3
  <2>. QED
    BY <2>2, <2>4, <2>5, <2>6, <2>7, <2>8
<1>6. ASSUME NEW e \in Dispatcher
      PROVE  /\ mOutgoingMessages[e] \in Seq(Nat) /\ Ascending(mOutgoingMessages[e])
             /\ \A n \in Elements(mOutgoingMessages[e]) : n \in 1..n0
             /\ \/ mOutgoingMessages'[e] = mOutgoingMessages[e]
                \/ /\ Crosses(route) /\ q = e
                   /\ mOutgoingMessages'[e] = Append(mOutgoingMessages[e], m)
  BY <1>1, <1>2 DEF MessageShapes, Ordered, Addressed, n0
<1>7. ASSUME NEW a \in Actor
      PROVE  /\ mIncomingMessages[a] \in Seq(Nat) /\ Ascending(mIncomingMessages[a])
             /\ \A n \in Elements(mIncomingMessages[a]) : n \in 1..n0
             /\ \/ mIncomingMessages'[a] = mIncomingMessages[a]
                \/ /\ ~Crosses(route) /\ to = a
                   /\ mIncomingMessages'[a] = Append(mIncomingMessages[a], m)
  BY <1>1, <1>2 DEF MessageShapes, Ordered, Addressed, n0
<1>8. ASSUME NEW e \in Dispatcher
      PROVE  /\ mOutgoingMessages'[e] \in Seq(Nat)
             /\ Elements(mOutgoingMessages[e]) \subseteq Elements(mOutgoingMessages'[e])
             /\ \A n \in Elements(mOutgoingMessages'[e]) :
                  \/ n \in Elements(mOutgoingMessages[e]) /\ n \in 1..n0
                  \/ n = m /\ Crosses(route) /\ q = e
             /\ Len(mOutgoingMessages'[e]) >= Len(mOutgoingMessages[e])
             /\ Len(mOutgoingMessages'[e]) \in Nat /\ Len(mOutgoingMessages[e]) \in Nat
             /\ \A k, l \in 1..Len(mOutgoingMessages'[e]) :
                  k < l /\ sent'[mOutgoingMessages'[e][k]] = sent'[mOutgoingMessages'[e][l]]
                  => mOutgoingMessages'[e][k] < mOutgoingMessages'[e][l]
  <2>. DEFINE s == mOutgoingMessages[e]
              r == mOutgoingMessages'[e]
  <2>1. /\ s \in Seq(Nat) /\ Ascending(s) /\ (\A n \in Elements(s) : n \in 1..n0)
        /\ r = s \/ (Crosses(route) /\ q = e /\ r = Append(s, m))
    BY <1>6
  <2>. HIDE DEF s, r
  <2>2. r = s \/ r = Append(s, m)
    BY <2>1
  <2>3. /\ r \in Seq(Nat) /\ Elements(s) \subseteq Elements(r)
        /\ \A n \in Elements(r) : n \in Elements(s) \/ (n = m /\ r = Append(s, m))
        /\ Len(r) >= Len(s)
        /\ \A k, l \in 1..Len(r) : k < l /\ sent'[r[k]] = sent'[r[l]] => r[k] < r[l]
    BY <1>5, <2>1, <2>2
  <2>4. Len(s) \in Nat /\ Len(r) \in Nat
    BY <2>1, <2>3
  <2>. QED
    BY <2>1, <2>3, <2>4 DEF s, r
<1>9. ASSUME NEW a \in Actor
      PROVE  /\ mIncomingMessages'[a] \in Seq(Nat)
             /\ Elements(mIncomingMessages[a]) \subseteq Elements(mIncomingMessages'[a])
             /\ \A n \in Elements(mIncomingMessages'[a]) :
                  \/ n \in Elements(mIncomingMessages[a]) /\ n \in 1..n0
                  \/ n = m /\ ~Crosses(route) /\ to = a
             /\ \A k \in 1..Len(mIncomingMessages'[a]) :
                  \/ k \in 1..Len(mIncomingMessages[a])
                     /\ mIncomingMessages'[a][k] = mIncomingMessages[a][k]
                  \/ mIncomingMessages'[a][k] = m
             /\ Len(mIncomingMessages[a]) > 0 =>
                  /\ Len(mIncomingMessages'[a]) > 0
                  /\ mIncomingMessages'[a][1] = mIncomingMessages[a][1]
             /\ \A k, l \in 1..Len(mIncomingMessages'[a]) :
                  k < l /\ sent'[mIncomingMessages'[a][k]] = sent'[mIncomingMessages'[a][l]]
                  => mIncomingMessages'[a][k] < mIncomingMessages'[a][l]
  <2>. DEFINE s == mIncomingMessages[a]
              r == mIncomingMessages'[a]
  <2>1. /\ s \in Seq(Nat) /\ Ascending(s) /\ (\A n \in Elements(s) : n \in 1..n0)
        /\ r = s \/ (~Crosses(route) /\ to = a /\ r = Append(s, m))
    BY <1>7
  <2>. HIDE DEF s, r
  <2>2. r = s \/ r = Append(s, m)
    BY <2>1
  <2>3. /\ r \in Seq(Nat) /\ Elements(s) \subseteq Elements(r)
        /\ \A n \in Elements(r) : n \in Elements(s) \/ (n = m /\ r = Append(s, m))
        /\ \A k \in 1..Len(r) : (k \in 1..Len(s) /\ r[k] = s[k]) \/ r[k] = m
        /\ Len(s) > 0 => Len(r) > 0 /\ r[1] = s[1]
        /\ \A k, l \in 1..Len(r) : k < l /\ sent'[r[k]] = sent'[r[l]] => r[k] < r[l]
    BY <1>5, <2>1, <2>2
  <2>4. \A n \in Elements(r) : \/ n \in Elements(s) /\ n \in 1..n0
                               \/ n = m /\ ~Crosses(route) /\ to = a
    <3>1. ASSUME r = s PROVE \A n \in Elements(r) : n \in Elements(s) /\ n \in 1..n0
      BY <2>1, <3>1
    <3>. QED
      BY <2>1, <2>3, <3>1
  <2>. QED
    BY <2>3, <2>4 DEF s, r
<1>10. /\ \A a \in Actor : \A n \in Elements(mQueuedMessages[a]) :
             n \in 1..n0 /\ Crosses(sent[n]) /\ sent[n].to = a
       /\ handled \subseteq 1..n0 /\ m \notin handled /\ 1..n0 \subseteq 1..m
       /\ \A n \in 1..m : n \in 1..n0 \/ n = m
  BY <1>1, <1>4 DEF Addressed, n0
<1>11. MessageShapes'
  <2>1. /\ DOMAIN mOutgoingMessages' = Dispatcher /\ DOMAIN mIncomingMessages' = Actor
        /\ mOutgoingMessages' = [e \in Dispatcher |-> mOutgoingMessages'[e]]
        /\ mIncomingMessages' = [a \in Actor |-> mIncomingMessages'[a]]
    BY <1>1, <1>2 DEF MessageShapes
  <2>2. mOutgoingMessages' \in [Dispatcher -> Seq(Nat)]
    BY <1>8, <2>1
  <2>3. mIncomingMessages' \in [Actor -> Seq(Nat)]
    BY <1>9, <2>1
  <2>. QED
    BY <1>1, <1>2, <1>4, <2>2, <2>3 DEF MessageShapes
<1>12. Cursors'
  <2>. SUFFICES ASSUME NEW e \in Dispatcher, pc[e] = "outgoing"
                PROVE  /\ cursor[e].current => Len(mOutgoingMessages'[e]) > 0
                       /\ cursor[e].subsequent => Len(mOutgoingMessages'[e]) > 1
    BY <1>2 DEF Cursors
  <2>1. /\ cursor[e].current => Len(mOutgoingMessages[e]) > 0
        /\ cursor[e].subsequent => Len(mOutgoingMessages[e]) > 1
    BY <1>1 DEF Cursors
  <2>2. /\ Len(mOutgoingMessages'[e]) >= Len(mOutgoingMessages[e])
        /\ Len(mOutgoingMessages'[e]) \in Nat /\ Len(mOutgoingMessages[e]) \in Nat
    BY <1>8
  <2>. QED
    BY <2>1, <2>2
<1>13. Addressed'
  <2>1. ASSUME NEW e \in Dispatcher, NEW n \in Elements(mOutgoingMessages'[e])
        PROVE  n \in 1..m /\ Crosses(sent'[n]) /\ QueueOf(sent'[n]) = e
    <3>1. CASE n \in Elements(mOutgoingMessages[e]) /\ n \in 1..n0
      <4>1. Crosses(sent[n]) /\ QueueOf(sent[n]) = e /\ sent'[n] = sent[n] /\ n \in 1..m
        BY <1>1, <1>4, <1>10, <3>1 DEF Addressed
      <4>. QED
        BY <4>1
    <3>2. CASE n = m /\ Crosses(route) /\ q = e
      <4>1. n \in 1..m /\ sent'[n] = route
        BY <1>4, <3>2
      <4>. QED
        BY <3>2, <4>1 DEF q
    <3>. QED
      BY <1>8, <3>1, <3>2
  <2>2. ASSUME NEW a \in Actor, NEW n \in Elements(mQueuedMessages[a])
        PROVE  n \in 1..m /\ Crosses(sent'[n]) /\ sent'[n].to = a
    <3>1. n \in 1..n0 /\ Crosses(sent[n]) /\ sent[n].to = a
      BY <1>10
    <3>2. sent'[n] = sent[n] /\ n \in 1..m
      BY <1>4, <1>10, <3>1
    <3>. QED
      BY <3>1, <3>2
  <2>3. ASSUME NEW a \in Actor, NEW n \in Elements(mIncomingMessages'[a])
        PROVE  n \in 1..m /\ sent'[n].to = a
    <3>1. CASE n \in Elements(mIncomingMessages[a]) /\ n \in 1..n0
      <4>1. sent[n].to = a /\ sent'[n] = sent[n] /\ n \in 1..m
        BY <1>1, <1>4, <1>10, <3>1 DEF Addressed
      <4>. QED
        BY <4>1
    <3>2. CASE n = m /\ ~Crosses(route) /\ to = a
      <4>1. n \in 1..m /\ sent'[n] = route
        BY <1>4, <3>2
      <4>. QED
        BY <3>2, <4>1 DEF to
    <3>. QED
      BY <1>9, <3>1, <3>2
  <2>. QED
    BY <1>2, <1>4, <1>10, <2>1, <2>2, <2>3 DEF Addressed, Crosses, QueueOf
<1>14. Kept'
  <2>1. ASSUME NEW n \in (1..m) \ handled
        PROVE  \/ n \in Elements(mOutgoingMessages'[QueueOf(sent'[n])])
               \/ n \in Elements(mQueuedMessages[sent'[n].to])
               \/ n \in Elements(mIncomingMessages'[sent'[n].to])
    <3>1. CASE n \in 1..n0
      <4>1. sent'[n] = sent[n] /\ sent[n] \in Routes
        BY <1>1, <1>4, <3>1 DEF MessageShapes, n0
      <4>2. sent[n].to \in Actor /\ QueueOf(sent[n]) \in Dispatcher
        BY <4>1, DispatchAssumption DEF QueueOf
      <4>3. \/ n \in Elements(mOutgoingMessages[QueueOf(sent[n])])
            \/ n \in Elements(mQueuedMessages[sent[n].to])
            \/ n \in Elements(mIncomingMessages[sent[n].to])
        BY <1>1, <2>1, <3>1 DEF Kept, n0
      <4>. QED
        BY <1>8, <1>9, <4>1, <4>2, <4>3
    <3>2. CASE n = m
      <4>1. sent'[n] = route
        BY <1>4, <3>2
      <4>2. CASE Crosses(route)
        <5>1. mOutgoingMessages'[q] = Append(mOutgoingMessages[q], m)
          BY <1>1, <1>2, <1>3, <4>2 DEF MessageShapes
        <5>2. m \in Elements(mOutgoingMessages'[q])
          <6>1. mOutgoingMessages[q] \in Seq(Nat)
            BY <1>3, <1>6
          <6>. QED
            BY <1>4, <5>1, <6>1, AppendOnce
        <5>. QED
          BY <3>2, <4>1, <5>2 DEF q
      <4>3. CASE ~Crosses(route)
        <5>1. mIncomingMessages'[to] = Append(mIncomingMessages[to], m)
          BY <1>1, <1>2, <1>3, <4>3 DEF MessageShapes
        <5>2. m \in Elements(mIncomingMessages'[to])
          <6>1. mIncomingMessages[to] \in Seq(Nat)
            BY <1>3, <1>7
          <6>. QED
            BY <1>4, <5>1, <6>1, AppendOnce
        <5>. QED
          BY <3>2, <4>1, <5>2 DEF to
      <4>. QED
        BY <4>2, <4>3
    <3>. QED
      BY <1>10, <3>1, <3>2
  <2>. QED
    BY <1>2, <1>4, <2>1 DEF Kept, QueueOf
<1>15. Handling'
  <2>1. ASSUME NEW e \in Dispatcher, NEW n \in Elements(mOutgoingMessages'[e])
        PROVE  n \notin handled
    <3>1. n \in Elements(mOutgoingMessages[e]) \/ n = m
      BY <1>8
    <3>. QED
      BY <1>1, <1>10, <3>1 DEF Handling
  <2>2. ASSUME NEW a \in Actor, NEW k \in 1..Len(mIncomingMessages'[a]),
               mIncomingMessages'[a][k] \in handled
        PROVE  k = 1 /\ \E e \in Dispatcher : pc[e] = "messages" /\ running[e] = a
    <3>1. k \in 1..Len(mIncomingMessages[a]) /\ mIncomingMessages[a][k] \in handled
      BY <1>9, <1>10, <2>2
    <3>. QED
      BY <1>1, <3>1 DEF Handling
  <2>3. ASSUME NEW e \in Dispatcher, pc[e] = "messages", running[e] # Null
        PROVE  /\ Len(mIncomingMessages'[running[e]]) > 0
               /\ mIncomingMessages'[running[e]][1] \in handled
    <3>1. running[e] \in Actor
      BY <2>3 DEF Threads, Shapes
    <3>2. /\ Len(mIncomingMessages[running[e]]) > 0
          /\ mIncomingMessages[running[e]][1] \in handled
      BY <1>1, <2>3 DEF Handling
    <3>. QED
      BY <1>9, <3>1, <3>2
  <2>4. \A a \in Actor : \A n \in Elements(mQueuedMessages[a]) : n \notin handled
    BY <1>1 DEF Handling
  <2>. QED
    BY <1>2, <2>1, <2>2, <2>3, <2>4 DEF Handling
<1>16. Ordered'
  <2>1. /\ \A e \in Dispatcher : Ascending(mOutgoingMessages[e])'
        /\ \A a \in Actor : Ascending(mIncomingMessages[a])'
    BY <1>8, <1>9 DEF Ascending
  <2>2. ASSUME NEW a \in Actor PROVE Ascending(mQueuedMessages[a])'
    <3>1. Ascending(mQueuedMessages[a])
      BY <1>1 DEF Ordered
    <3>2. \A k \in 1..Len(mQueuedMessages[a]) :
            sent'[mQueuedMessages[a][k]] = sent[mQueuedMessages[a][k]]
      BY <1>4, <1>10 DEF Elements
    <3>. SUFFICES ASSUME NEW k \in 1..Len(mQueuedMessages[a]),
                         NEW l \in 1..Len(mQueuedMessages[a]), k < l,
                         sent'[mQueuedMessages[a][k]] = sent'[mQueuedMessages[a][l]]
                  PROVE  mQueuedMessages[a][k] < mQueuedMessages[a][l]
      BY <1>2 DEF Ascending
    <3>3. sent[mQueuedMessages[a][k]] = sent[mQueuedMessages[a][l]]
      BY <3>2
    <3>. QED
      BY <3>1, <3>3 DEF Ascending
  <2>3. ASSUME NEW a \in Actor, NEW k \in Elements(mIncomingMessages'[a]),
               NEW n \in Elements(mQueuedMessages[a]), sent'[k] = sent'[n]
        PROVE  k < n
    <3>1. n \in 1..n0 /\ Crosses(sent[n]) /\ sent'[n] = sent[n]
      BY <1>4, <1>10
    <3>2. k # m \/ Crosses(route)
      <4>1. k = m => sent'[k] = route
        BY <1>4
      <4>. QED
        BY <2>3, <3>1, <4>1
    <3>3. k \in Elements(mIncomingMessages[a]) /\ k \in 1..n0
      BY <1>9, <2>3, <3>2
    <3>4. sent[k] = sent[n]
      BY <1>4, <2>3, <3>1, <3>3
    <3>. QED
      BY <1>1, <3>3, <3>4 DEF Ordered, Before
  <2>4. ASSUME NEW a \in Actor, NEW e \in Dispatcher,
               NEW k \in Elements(mQueuedMessages[a]) \cup Elements(mIncomingMessages'[a]),
               NEW n \in Elements(mOutgoingMessages'[e]), sent'[k] = sent'[n]
        PROVE  k < n
    <3>1. Crosses(sent'[n])
      <4>1. CASE n \in Elements(mOutgoingMessages[e]) /\ n \in 1..n0
        BY <1>1, <1>4, <4>1 DEF Addressed
      <4>2. CASE n = m /\ Crosses(route)
        BY <1>4, <4>2
      <4>. QED
        BY <1>8, <4>1, <4>2
    <3>2. /\ k \in Elements(mQueuedMessages[a]) \cup Elements(mIncomingMessages[a])
          /\ k \in 1..n0
      <4>1. ~(k = m /\ ~Crosses(route))
        BY <1>4, <2>4, <3>1
      <4>. QED
        BY <1>9, <1>10, <2>4, <4>1
    <3>3. CASE n \in Elements(mOutgoingMessages[e]) /\ n \in 1..n0
      <4>1. sent[k] = sent[n]
        BY <1>4, <2>4, <3>2, <3>3
      <4>. QED
        BY <1>1, <3>2, <3>3, <4>1 DEF Ordered, Before
    <3>4. CASE n = m
      BY <1>4, <3>2, <3>4
    <3>. QED
      BY <1>8, <3>3, <3>4
  <2>5. ASSUME NEW k \in handled, NEW n \in (1..m) \ handled, sent'[k] = sent'[n] PROVE k < n
    <3>1. k \in 1..n0
      BY <1>10
    <3>2. CASE n \in 1..n0
      <4>1. sent[k] = sent[n]
        BY <1>4, <2>5, <3>1, <3>2
      <4>. QED
        BY <1>1, <2>5, <3>2, <4>1 DEF Ordered, Before, n0
    <3>3. CASE n = m
      BY <1>4, <3>1, <3>3
    <3>. QED
      BY <1>10, <3>2, <3>3
  <2>. QED
    <3>1. ASSUME NEW a \in Actor
          PROVE  Before(Elements(mIncomingMessages[a]), Elements(mQueuedMessages[a]))'
      BY <1>2, <2>3 DEF Before
    <3>2. ASSUME NEW a \in Actor, NEW e \in Dispatcher
          PROVE  /\ Before(Elements(mIncomingMessages[a]), Elements(mOutgoingMessages[e]))'
                 /\ Before(Elements(mQueuedMessages[a]), Elements(mOutgoingMessages[e]))'
      BY <1>2, <2>4 DEF Before
    <3>3. Before(handled, (1..Len(sent)) \ handled)'
      BY <1>2, <1>4, <2>5 DEF Before
    <3>. QED
      BY <2>1, <2>2, <3>1, <3>2, <3>3 DEF Ordered
<1>. QED
  BY <1>11, <1>12, <1>13, <1>14, <1>15, <1>16 DEF Delivery

LEMMA DeliveryStep ==
  ASSUME NEW CONSTANT runs, Threads(runs), Delivery, [Next]_vars
  PROVE  Delivery'
<1>1. /\ MessageShapes /\ Cursors /\ Shapes /\ Working
  BY DEF Delivery, Threads
<1>2. ASSUME NEW d \in Dispatcher, NEW to \in Location \ {"outgoing"},
             pc' = [pc EXCEPT ![d] = to], UNCHANGED <<queues, record>>,
             NEW c \in [current : BOOLEAN, subsequent : BOOLEAN],
             cursor' = [cursor EXCEPT ![d] = c],
             \A e \in Dispatcher : e # d => running'[e] = running[e],
             ~AtMessage(d), ~(to = "messages" /\ running'[d] # Null)
      PROVE  Delivery'
  <2>1. /\ pc'[d] = to /\ cursor'[d] = c
        /\ \A e \in Dispatcher : e # d => pc'[e] = pc[e] /\ cursor'[e] = cursor[e]
    BY <1>1, <1>2 DEF Shapes, MessageShapes
  <2>2. cursor' \in [Dispatcher -> [current : BOOLEAN, subsequent : BOOLEAN]]
    BY <1>1, <1>2 DEF MessageShapes
  <2>3. Cursors'
    BY <1>1, <1>2, <2>1 DEF Cursors, queues
  <2>4. \A e \in Dispatcher :
          /\ AtMessage(e)' <=> AtMessage(e)
          /\ AtMessage(e) => running'[e] = running[e]
    BY <1>2, <2>1 DEF AtMessage
  <2>. QED
    BY <1>2, <2>2, <2>3, <2>4, StillDelivery
<1>3. \A d \in Dispatcher : cursor[d] \in [current : BOOLEAN, subsequent : BOOLEAN]
                            /\ cursor = [cursor EXCEPT ![d] = cursor[d]]
  BY <1>1 DEF MessageShapes
<1>4. ASSUME NEW d \in Dispatcher, NEW to \in Location \ {"messages", "outgoing"},
             pc' = [pc EXCEPT ![d] = to], UNCHANGED <<queues, record, cursor, running>>,
             ~AtMessage(d)
      PROVE  Delivery'
  BY <1>2, <1>3, <1>4
\* The loop goes on at a node, with an iterator over its messages.
<1>5. ASSUME NEW d \in Dispatcher, NEW from, NEW node, NEW list, Come(d, from, node, list),
             running[d] = Null, UNCHANGED <<queues, record, running>>
      PROVE  Delivery'
  <2>. DEFINE to == IF node = Null THEN "top" ELSE IF S!Contains(list, node) THEN "messages" ELSE "lost"
              c == IF node = Null THEN NoCursor ELSE CursorOf(mIncomingMessages[node])
  <2>1. pc' = [pc EXCEPT ![d] = to] /\ cursor' = [cursor EXCEPT ![d] = c]
    BY <1>5 DEF Come, Goto
  <2>2. to \in Location \ {"outgoing"} /\ c \in [current : BOOLEAN, subsequent : BOOLEAN]
    BY DEF Location, NoCursor, CursorOf
  <2>. HIDE DEF to, c
  <2>. QED
    BY <1>2, <1>5, <2>1, <2>2 DEF AtMessage
<1>6. ASSUME NEW d \in Dispatcher, Thread(d) PROVE Delivery'
  <2>. USE DEF Goto, Location
  <2>1. CASE \/ OwnAllocator(d) \/ LockConstructor(d) \/ CheckRecycled(d) \/ NewRecycled(d)
             \/ UnlockConstructor(d) \/ StartRun(d)
    <3>1. PICK to \in Location \ {"messages", "outgoing"} :
            /\ pc[d] # "messages" /\ pc' = [pc EXCEPT ![d] = to]
            /\ UNCHANGED <<queues, record, cursor, running>>
      BY <2>1 DEF OwnAllocator, LockConstructor, CheckRecycled, NewRecycled,
                  UnlockConstructor, StartRun, control
    <3>. QED
      BY <1>4, <3>1 DEF AtMessage
  <2>2. CASE \/ BeginCycle(d) \/ OutgoingDone(d) \/ LockIncoming(d)
             \/ ReadRecycled(d) \/ WriteRecycled(d) \/ WriteAllocator(d) \/ Unlock(d)
    <3>1. CASE BeginCycle(d)
      <4>1. PICK to \in {"collect", "lockOutgoing"} :
              /\ pc[d] # "messages" /\ pc' = [pc EXCEPT ![d] = to]
              /\ UNCHANGED <<queues, record, cursor, running>>
        BY <3>1 DEF BeginCycle, control
      <4>. QED
        BY <1>4, <4>1 DEF AtMessage
    <3>2. CASE ~BeginCycle(d)
      <4>1. PICK to \in Location \ {"messages", "outgoing"} :
              /\ pc[d] # "messages" /\ pc' = [pc EXCEPT ![d] = to]
              /\ UNCHANGED <<queues, record, cursor, running>>
        BY <2>2, <3>2 DEF OutgoingDone, LockIncoming, ReadRecycled, WriteRecycled,
                          WriteAllocator, Unlock, control
      <4>. QED
        BY <1>4, <4>1 DEF AtMessage
    <3>. QED
      BY <3>1, <3>2
  <2>3. CASE LockOutgoing(d)
    <3>. DEFINE c == CursorOf(mOutgoingMessages[d])
    <3>1. /\ pc[d] = "lockOutgoing" /\ pc' = [pc EXCEPT ![d] = "outgoing"]
          /\ cursor' = [cursor EXCEPT ![d] = c]
          /\ UNCHANGED <<queues, record, running>>
      BY <2>3 DEF LockOutgoing
    <3>2. /\ c \in [current : BOOLEAN, subsequent : BOOLEAN]
          /\ c.current => Len(mOutgoingMessages[d]) > 0
          /\ c.subsequent => Len(mOutgoingMessages[d]) > 1
      <4>1. /\ c \in [current : BOOLEAN, subsequent : BOOLEAN]
            /\ c.current = (Len(mOutgoingMessages[d]) > 0)
            /\ c.subsequent = (Len(mOutgoingMessages[d]) > 1)
        BY DEF CursorOf
      <4>. HIDE DEF c
      <4>. QED
        BY <4>1
    <3>. HIDE DEF c
    <3>3. /\ pc'[d] = "outgoing" /\ cursor'[d] = c
          /\ \A e \in Dispatcher : e # d => pc'[e] = pc[e] /\ cursor'[e] = cursor[e]
      BY <1>1, <3>1 DEF Shapes, MessageShapes
    <3>4. cursor' \in [Dispatcher -> [current : BOOLEAN, subsequent : BOOLEAN]]
      BY <1>1, <3>1, <3>2 DEF MessageShapes
    <3>5. Cursors'
      BY <1>1, <3>1, <3>2, <3>3 DEF Cursors, queues
    <3>6. \A e \in Dispatcher :
            /\ AtMessage(e)' <=> AtMessage(e)
            /\ AtMessage(e) => running'[e] = running[e]
      BY <3>1, <3>3 DEF AtMessage
    <3>. QED
      BY <3>1, <3>4, <3>5, <3>6, StillDelivery
  <2>4. CASE QueueOutgoing(d)
    BY <2>4, QueueOutgoingDelivery
  <2>5. CASE AddActivated(d) \/ MarkActive(d)
    BY <2>5, <1>1, StillDelivery DEF AddActivated, MarkActive, MessageShapes, Cursors, AtMessage, queues
  <2>6. CASE Collect(d)
    <3>1. PICK to \in {"incoming", "lockIncoming", "poll"} :
            /\ pc[d] = "collect" /\ pc' = [pc EXCEPT ![d] = to]
            /\ UNCHANGED <<queues, record, cursor, running>>
      BY <2>6 DEF Collect, control
    <3>. QED
      BY <1>4, <3>1 DEF AtMessage
  <2>7. CASE TakeQueued(d)
    BY <2>7, TakeQueuedDelivery
  <2>8. CASE PollReturns(d)
    <3>1. running[d] = Null
      BY <1>1, <2>8 DEF PollReturns, Begin, Come, Working
    <3>. QED
      BY <1>5, <2>8, <3>1 DEF PollReturns, Begin
  <2>9. CASE SourcesDone(d)
    BY <1>5, <2>9 DEF SourcesDone, Begin
  <2>10. CASE SourceReturns(d)
    <3>1. /\ pc[d] = "sources" /\ pc' = [pc EXCEPT ![d] = "sources"]
          /\ running' = [running EXCEPT ![d] = Null]
          /\ UNCHANGED <<queues, record, cursor>>
      BY <2>10 DEF SourceReturns
    <3>2. \A e \in Dispatcher : e # d => running'[e] = running[e]
      BY <1>1, <3>1 DEF Shapes
    <3>. QED
      BY <1>2, <1>3, <3>1, <3>2 DEF AtMessage
  <2>11. CASE HandleMessage(d)
    BY <2>11, HandleMessageDelivery
  <2>12. CASE MessageReturns(d)
    BY <2>12, MessageReturnsDelivery
  <2>13. CASE MessagesDone(d)
    <3>1. PICK to \in {"requeue", "retire"} :
            /\ pc' = [pc EXCEPT ![d] = to] /\ running[d] = Null
            /\ UNCHANGED <<queues, record, cursor, running>>
      BY <2>13 DEF MessagesDone, control
    <3>. QED
      BY <1>4, <3>1 DEF AtMessage
  <2>14. CASE Requeue(d)
    <3>1. running[d] = Null
      BY <1>1, <2>14 DEF Requeue, Come, Working
    <3>. QED
      BY <1>5, <2>14, <3>1 DEF Requeue
  <2>15. CASE Retire(d)
    <3>1. /\ pc[d] = "retire" /\ pc' = [pc EXCEPT ![d] = "putAway"]
          /\ UNCHANGED <<queues, record, cursor, running>>
      BY <2>15 DEF Retire, control
    <3>. QED
      BY <1>4, <3>1 DEF AtMessage
  <2>16. CASE PutAway(d)
    <3>1. running[d] = Null
      BY <1>1, <2>16 DEF PutAway, Come, Working
    <3>. QED
      BY <1>5, <2>16, <3>1 DEF PutAway
  <2>. QED
    BY <1>6, <2>1, <2>2, <2>3, <2>4, <2>5, <2>6, <2>7, <2>8, <2>9, <2>10, <2>11, <2>12,
       <2>13, <2>14, <2>15, <2>16
    DEF Thread
<1>7. ASSUME NEW d \in Dispatcher, PollInterrupted(d) PROVE Delivery'
  <2>1. running[d] = Null
    BY <1>1, <1>7 DEF PollInterrupted, Begin, Come, Goto, Working
  <2>. QED
    BY <1>5, <1>7, <2>1 DEF PollInterrupted, Begin
<1>8. ASSUME NEW d \in Dispatcher, NEW a \in Actor, SourceReady(d, a) PROVE Delivery'
  <2>1. /\ pc[d] \in {"poll", "sources"} /\ pc' = [pc EXCEPT ![d] = "sources"]
        /\ running' = [running EXCEPT ![d] = a]
        /\ UNCHANGED <<queues, record, cursor>>
    BY <1>8 DEF SourceReady, Goto
  <2>2. \A e \in Dispatcher : e # d => running'[e] = running[e]
    BY <1>1, <2>1 DEF Shapes
  <2>. QED
    <3>1. /\ "sources" \in Location \ {"outgoing"} /\ ~AtMessage(d)
          /\ ~("sources" = "messages" /\ running'[d] # Null)
      BY <2>1 DEF AtMessage, Location
    <3>2. /\ cursor[d] \in [current : BOOLEAN, subsequent : BOOLEAN]
          /\ cursor' = [cursor EXCEPT ![d] = cursor[d]]
      BY <1>3, <2>1
    <3>. QED
      BY <1>2, <2>1, <2>2, <3>1, <3>2
<1>9. ASSUME NEW d \in Dispatcher, NEW route \in Routes, queueMessage(d, route) PROVE Delivery'
  BY <1>9, queueMessageDelivery
<1>10. CASE UNCHANGED vars
  BY <1>1, <1>10, StillDelivery DEF vars, control, MessageShapes, Cursors, AtMessage, queues
<1>. QED
  BY <1>6, <1>7, <1>8, <1>9, <1>10 DEF Next

LEMMA DeliveryInit == Init => Delivery
<1>. SUFFICES ASSUME Init PROVE Delivery
  OBVIOUS
<1>1. /\ sent = <<>> /\ handled = {}
      /\ \A d \in Dispatcher : mOutgoingMessages[d] = <<>> /\ pc[d] = "new" /\ running[d] = Null
      /\ \A a \in Actor : mQueuedMessages[a] = <<>> /\ mIncomingMessages[a] = <<>>
  BY DEF Init
<1>2. Elements(<<>>) = {} /\ Len(<<>>) = 0 /\ 1..0 = {} /\ Ascending(<<>>)
  BY DEF Elements, Ascending
<1>3. MessageShapes
  BY DEF Init, MessageShapes, NoCursor
<1>4. Cursors /\ Addressed /\ Kept /\ Handling
  BY <1>1, <1>2 DEF Cursors, Addressed, Kept, Handling
<1>5. Ordered
  BY <1>1, <1>2 DEF Ordered, Before
<1>. QED
  BY <1>3, <1>4, <1>5 DEF Delivery

LEMMA DeliveryInductive ==
  ASSUME NEW CONSTANT runs, OneThreadRule(runs)
  PROVE  Spec => [](Threads(runs) /\ Delivery)
<1>1. Init => Threads(runs) /\ Delivery
  BY ThreadsInit, DeliveryInit
<1>2. (Threads(runs) /\ Delivery) /\ [Next]_vars => (Threads(runs) /\ Delivery)'
  BY ThreadsStep, DeliveryStep
<1>. QED
  BY <1>1, <1>2, PTL DEF Spec

\* If actors that send to each other run in one thread and queue with its
\* dispatcher, no actor is ever in the hands of two threads.
THEOREM OneThreadAlways ==
  ASSUME NEW CONSTANT runs, OneThreadRule(runs)
  PROVE  Spec => []OneThread
<1>1. Threads(runs) => OneThread
  BY DEF Threads, InThread, OneThread, InHand
<1>. QED
  BY <1>1, DeliveryInductive, PTL

\* The places of a message are its positions in the three kinds of queues.
LEMMA PlacesKinds ==
  ASSUME MessageShapes, NEW m, NEW p
  PROVE  p \in Places(m) <=>
           \/ \E d \in Dispatcher : \E k \in 1..Len(mOutgoingMessages[d]) :
                mOutgoingMessages[d][k] = m /\ p = <<"outgoing", d, k>>
           \/ \E a \in Actor : \E k \in 1..Len(mQueuedMessages[a]) :
                mQueuedMessages[a][k] = m /\ p = <<"queued", a, k>>
           \/ \E a \in Actor : \E k \in 1..Len(mIncomingMessages[a]) :
                mIncomingMessages[a][k] = m /\ p = <<"incoming", a, k>>
<1>. DEFINE in(queue, name, owner) ==
              {<<name, owner, k>> : k \in {i \in DOMAIN queue : queue[i] = m}}
            Out == UNION {in(mOutgoingMessages[d], "outgoing", d) : d \in Dispatcher}
            Que == UNION {in(mQueuedMessages[a], "queued", a) : a \in Actor}
            Inc == UNION {in(mIncomingMessages[a], "incoming", a) : a \in Actor}
<1>1. /\ \A d \in Dispatcher : DOMAIN mOutgoingMessages[d] = 1..Len(mOutgoingMessages[d])
      /\ \A a \in Actor : DOMAIN mQueuedMessages[a] = 1..Len(mQueuedMessages[a])
      /\ \A a \in Actor : DOMAIN mIncomingMessages[a] = 1..Len(mIncomingMessages[a])
  <2>1. /\ \A d \in Dispatcher : mOutgoingMessages[d] \in Seq(Nat)
        /\ \A a \in Actor : mQueuedMessages[a] \in Seq(Nat) /\ mIncomingMessages[a] \in Seq(Nat)
    BY DEF MessageShapes
  <2>. QED
    BY <2>1
<1>2. p \in Out <=> \E d \in Dispatcher : p \in in(mOutgoingMessages[d], "outgoing", d)
  BY ZenonT(20)
<1>3. p \in Que <=> \E a \in Actor : p \in in(mQueuedMessages[a], "queued", a)
  BY ZenonT(20)
<1>4. p \in Inc <=> \E a \in Actor : p \in in(mIncomingMessages[a], "incoming", a)
  BY ZenonT(20)
<1>5. ASSUME NEW queue, NEW name, NEW owner
      PROVE  p \in in(queue, name, owner) <=>
               \E k \in DOMAIN queue : queue[k] = m /\ p = <<name, owner, k>>
  OBVIOUS
<1>6. Places(m) = (Out \cup Que) \cup Inc
  BY DEF Places
<1>. HIDE DEF in, Out, Que, Inc
<1>7. p \in Out <=> \E d \in Dispatcher : \E k \in 1..Len(mOutgoingMessages[d]) :
                      mOutgoingMessages[d][k] = m /\ p = <<"outgoing", d, k>>
  BY <1>1, <1>2, <1>5
<1>8. p \in Que <=> \E a \in Actor : \E k \in 1..Len(mQueuedMessages[a]) :
                      mQueuedMessages[a][k] = m /\ p = <<"queued", a, k>>
  BY <1>1, <1>3, <1>5
<1>9. p \in Inc <=> \E a \in Actor : \E k \in 1..Len(mIncomingMessages[a]) :
                      mIncomingMessages[a][k] = m /\ p = <<"incoming", a, k>>
  BY <1>1, <1>4, <1>5
<1>. QED
  BY <1>6, <1>7, <1>8, <1>9

\* The order makes the place unique: no message comes before itself.
LEMMA OnePlace ==
  ASSUME Delivery, NEW m \in 1..Len(sent), NEW p \in Places(m), NEW r \in Places(m)
  PROVE  p = r
<1>1. MessageShapes /\ Addressed /\ Ordered /\ m \in Nat /\ ~(m < m)
  <2>1. Len(sent) \in Nat
    BY DEF Delivery, MessageShapes
  <2>. QED
    BY <2>1 DEF Delivery
<1>2. \A s \in Seq(Nat) : Ascending(s) =>
        \A k, l \in 1..Len(s) : s[k] = m /\ s[l] = m => k = l
  <2>. SUFFICES ASSUME NEW s \in Seq(Nat), Ascending(s), NEW k \in 1..Len(s), NEW l \in 1..Len(s),
                       s[k] = m, s[l] = m
                PROVE  k = l
    OBVIOUS
  <2>1. ~(k < l) /\ ~(l < k)
    BY <1>1 DEF Ascending
  <2>. QED
    BY <2>1
<1>3. \A A, B : m \in A /\ m \in B => ~Before(A, B)
  BY <1>1 DEF Before
<1>4. ASSUME NEW d \in Dispatcher, NEW k \in 1..Len(mOutgoingMessages[d]),
             mOutgoingMessages[d][k] = m
      PROVE  m \in Elements(mOutgoingMessages[d]) /\ QueueOf(sent[m]) = d
  BY <1>1, <1>4 DEF Addressed, Elements
<1>5. ASSUME NEW a \in Actor, NEW k \in 1..Len(mQueuedMessages[a]), mQueuedMessages[a][k] = m
      PROVE  m \in Elements(mQueuedMessages[a]) /\ sent[m].to = a
  BY <1>1, <1>5 DEF Addressed, Elements
<1>6. ASSUME NEW a \in Actor, NEW k \in 1..Len(mIncomingMessages[a]), mIncomingMessages[a][k] = m
      PROVE  m \in Elements(mIncomingMessages[a]) /\ sent[m].to = a
  BY <1>1, <1>6 DEF Addressed, Elements
<1>7. /\ \A d \in Dispatcher : \A k, l \in 1..Len(mOutgoingMessages[d]) :
           mOutgoingMessages[d][k] = m /\ mOutgoingMessages[d][l] = m => k = l
      /\ \A a \in Actor : \A k, l \in 1..Len(mQueuedMessages[a]) :
           mQueuedMessages[a][k] = m /\ mQueuedMessages[a][l] = m => k = l
      /\ \A a \in Actor : \A k, l \in 1..Len(mIncomingMessages[a]) :
           mIncomingMessages[a][k] = m /\ mIncomingMessages[a][l] = m => k = l
  BY <1>1, <1>2 DEF MessageShapes, Ordered
<1>8. \A a \in Actor :
        /\ ~(m \in Elements(mIncomingMessages[a]) /\ m \in Elements(mQueuedMessages[a]))
        /\ \A d \in Dispatcher :
             /\ ~(m \in Elements(mIncomingMessages[a]) /\ m \in Elements(mOutgoingMessages[d]))
             /\ ~(m \in Elements(mQueuedMessages[a]) /\ m \in Elements(mOutgoingMessages[d]))
  BY <1>1, <1>3 DEF Ordered
<1>. DEFINE Out(x) == \E d \in Dispatcher : \E k \in 1..Len(mOutgoingMessages[d]) :
                        mOutgoingMessages[d][k] = m /\ x = <<"outgoing", d, k>>
            Que(x) == \E a \in Actor : \E k \in 1..Len(mQueuedMessages[a]) :
                        mQueuedMessages[a][k] = m /\ x = <<"queued", a, k>>
            Inc(x) == \E a \in Actor : \E k \in 1..Len(mIncomingMessages[a]) :
                        mIncomingMessages[a][k] = m /\ x = <<"incoming", a, k>>
<1>9. (Out(p) \/ Que(p) \/ Inc(p)) /\ (Out(r) \/ Que(r) \/ Inc(r))
  BY <1>1, PlacesKinds
<1>10. Out(p) /\ Out(r) => p = r
  BY <1>4, <1>7
<1>11. Que(p) /\ Que(r) => p = r
  BY <1>5, <1>7
<1>12. Inc(p) /\ Inc(r) => p = r
  BY <1>6, <1>7
<1>13. \A x, y : ~(Out(x) /\ Que(y)) /\ ~(Out(x) /\ Inc(y))
  BY <1>4, <1>5, <1>6, <1>8
<1>14. \A x, y : ~(Que(x) /\ Inc(y))
  BY <1>5, <1>6, <1>8
<1>. HIDE DEF Out, Que, Inc
<1>. QED
  BY <1>9, <1>10, <1>11, <1>12, <1>13, <1>14

\* On the way a message is in one queue, and then in none.
LEMMA Conserved ==
  ASSUME NEW CONSTANT runs, Threads(runs), Delivery PROVE MessagesConserved
<1>1. /\ MessageShapes /\ Addressed /\ Kept /\ Handling /\ Null \notin Actor
      /\ Shapes
  BY DispatchAssumption DEF Delivery, Threads
<1>2. Numbers = 1..Len(sent)
  BY <1>1 DEF Numbers, MessageShapes
<1>. SUFFICES ASSUME NEW m \in 1..Len(sent)
              PROVE  /\ Cardinality(Places(m)) = IF m \in handled /\ ~BeingHandled(m) THEN 0 ELSE 1
                     /\ \A p \in Places(m) : p[1] # "outgoing" => p[2] = sent[m].to
  BY <1>2 DEF MessagesConserved
<1>3. /\ \A d \in Dispatcher : \A k \in 1..Len(mOutgoingMessages[d]) :
           mOutgoingMessages[d][k] = m => m \in Elements(mOutgoingMessages[d])
      /\ \A a \in Actor : \A k \in 1..Len(mQueuedMessages[a]) :
           mQueuedMessages[a][k] = m => m \in Elements(mQueuedMessages[a]) /\ sent[m].to = a
      /\ \A a \in Actor : \A k \in 1..Len(mIncomingMessages[a]) :
           mIncomingMessages[a][k] = m => sent[m].to = a
  BY <1>1 DEF Addressed, Elements
<1>4. ASSUME NEW p \in Places(m), p[1] # "outgoing" PROVE p[2] = sent[m].to
  <2>1. \/ \E d \in Dispatcher : \E k \in 1..Len(mOutgoingMessages[d]) :
             mOutgoingMessages[d][k] = m /\ p = <<"outgoing", d, k>>
        \/ \E a \in Actor : \E k \in 1..Len(mQueuedMessages[a]) :
             mQueuedMessages[a][k] = m /\ p = <<"queued", a, k>>
        \/ \E a \in Actor : \E k \in 1..Len(mIncomingMessages[a]) :
             mIncomingMessages[a][k] = m /\ p = <<"incoming", a, k>>
    BY <1>1, PlacesKinds
  <2>. QED
    BY <1>3, <1>4, <2>1
<1>5. ASSUME m \in handled, ~BeingHandled(m) PROVE Places(m) = {}
  <2>. SUFFICES ASSUME NEW p \in Places(m) PROVE FALSE
    OBVIOUS
  <2>1. \/ \E d \in Dispatcher : m \in Elements(mOutgoingMessages[d])
        \/ \E a \in Actor : m \in Elements(mQueuedMessages[a])
        \/ \E a \in Actor : \E k \in 1..Len(mIncomingMessages[a]) : mIncomingMessages[a][k] = m
    BY <1>1, <1>3, PlacesKinds
  <2>2. PICK a \in Actor : \E k \in 1..Len(mIncomingMessages[a]) : mIncomingMessages[a][k] = m
    BY <1>1, <1>5, <2>1 DEF Handling
  <2>3. PICK k \in 1..Len(mIncomingMessages[a]) : mIncomingMessages[a][k] = m
    BY <2>2
  <2>4. PICK d \in Dispatcher : k = 1 /\ pc[d] = "messages" /\ running[d] = a
    BY <1>1, <1>5, <2>3 DEF Handling
  <2>5. Head(mIncomingMessages[a]) = m
    <3>1. mIncomingMessages[a] \in Seq(Nat) /\ Len(mIncomingMessages[a]) > 0
      BY <1>1, <2>3 DEF MessageShapes
    <3>. QED
      BY <2>3, <2>4, <3>1, TailParts
  <2>. QED
    BY <1>1, <1>5, <2>4, <2>5 DEF BeingHandled
<1>6. ASSUME m \notin handled PROVE Places(m) # {}
  <2>1. sent[m] \in Routes
    BY <1>1 DEF MessageShapes
  <2>2. sent[m].to \in Actor /\ QueueOf(sent[m]) \in Dispatcher
    BY <2>1, DispatchAssumption DEF QueueOf
  <2>3. \/ m \in Elements(mOutgoingMessages[QueueOf(sent[m])])
        \/ m \in Elements(mQueuedMessages[sent[m].to])
        \/ m \in Elements(mIncomingMessages[sent[m].to])
    BY <1>1, <1>6 DEF Kept
  <2>4. \/ \E k \in 1..Len(mOutgoingMessages[QueueOf(sent[m])]) :
             mOutgoingMessages[QueueOf(sent[m])][k] = m
        \/ \E k \in 1..Len(mQueuedMessages[sent[m].to]) : mQueuedMessages[sent[m].to][k] = m
        \/ \E k \in 1..Len(mIncomingMessages[sent[m].to]) : mIncomingMessages[sent[m].to][k] = m
    BY <2>3 DEF Elements
  <2>5. \E p : p \in Places(m)
    <3>. DEFINE d == QueueOf(sent[m])
                a == sent[m].to
    <3>1. ASSUME NEW k \in 1..Len(mOutgoingMessages[d]), mOutgoingMessages[d][k] = m
          PROVE  <<"outgoing", d, k>> \in Places(m)
      BY <1>1, <2>2, <3>1, PlacesKinds
    <3>2. ASSUME NEW k \in 1..Len(mQueuedMessages[a]), mQueuedMessages[a][k] = m
          PROVE  <<"queued", a, k>> \in Places(m)
      BY <1>1, <2>2, <3>2, PlacesKinds
    <3>3. ASSUME NEW k \in 1..Len(mIncomingMessages[a]), mIncomingMessages[a][k] = m
          PROVE  <<"incoming", a, k>> \in Places(m)
      BY <1>1, <2>2, <3>3, PlacesKinds
    <3>. HIDE DEF d, a
    <3>4. \/ \E k \in 1..Len(mOutgoingMessages[d]) : mOutgoingMessages[d][k] = m
          \/ \E k \in 1..Len(mQueuedMessages[a]) : mQueuedMessages[a][k] = m
          \/ \E k \in 1..Len(mIncomingMessages[a]) : mIncomingMessages[a][k] = m
      BY <2>4 DEF d, a
    <3>. QED
      BY <3>1, <3>2, <3>3, <3>4
  <2>. QED
    BY <2>5
<1>7. ASSUME BeingHandled(m) PROVE Places(m) # {}
  <2>1. PICK d \in Dispatcher : pc[d] = "messages" /\ running[d] # Null
                                /\ Head(mIncomingMessages[running[d]]) = m
    BY <1>7 DEF BeingHandled
  <2>2. running[d] \in Actor /\ Len(mIncomingMessages[running[d]]) > 0
    BY <1>1, <2>1 DEF Handling, Shapes
  <2>3. mIncomingMessages[running[d]] \in Seq(Nat)
    BY <1>1, <2>2 DEF MessageShapes
  <2>4. 1 \in 1..Len(mIncomingMessages[running[d]]) /\ mIncomingMessages[running[d]][1] = m
    BY <2>1, <2>2, <2>3, TailParts
  <2>5. <<"incoming", running[d], 1>> \in Places(m)
    BY <1>1, <2>2, <2>4, PlacesKinds
  <2>. QED
    BY <2>5
<1>8. ASSUME Places(m) # {} PROVE Cardinality(Places(m)) = 1
  <2>1. PICK p : p \in Places(m)
    BY <1>8
  <2>2. Places(m) = {p}
    BY <2>1, OnePlace
  <2>. QED
    BY <2>2, FS_Singleton
<1>9. CASE m \in handled /\ ~BeingHandled(m)
  BY <1>4, <1>5, <1>9, FS_EmptySet
<1>10. CASE ~(m \in handled /\ ~BeingHandled(m))
  BY <1>4, <1>6, <1>7, <1>8, <1>10
<1>. QED
  BY <1>9, <1>10

LEMMA FirstFirst ==
  ASSUME Delivery PROVE FirstInFirstHandled
<1>. SUFFICES ASSUME NEW m \in handled, NEW k \in 1..(m - 1), sent[k] = sent[m], k \notin handled
              PROVE  FALSE
  BY DEF FirstInFirstHandled
<1>1. Len(sent) \in Nat /\ m \in 1..Len(sent)
  BY DEF Delivery, MessageShapes, Addressed
<1>2. k \in (1..Len(sent)) \ handled /\ ~(m < k)
  BY <1>1
<1>. QED
  BY <1>2 DEF Delivery, Ordered, Before

\* If actors that send to each other run in one thread, and queue with its
\* dispatcher, then whatever the other threads do at the lock a message, also
\* to an actor of another dispatcher, is in one queue until its handler has
\* returned, is handled once, and after those before it on its route.
THEOREM DeliveredOnceInOrder ==
  ASSUME NEW CONSTANT runs, OneThreadRule(runs)
  PROVE  Spec => []HandledOnceInOrder
<1>1. Threads(runs) /\ Delivery => HandledOnceInOrder
  BY Conserved, FirstFirst DEF HandledOnceInOrder
<1>. QED
  BY <1>1, DeliveryInductive, PTL

-----------------------------------------------------------------------------
(* The dispatch lock is used as a mutex *)

Waits == {"newLock", "lockOutgoing", "lockIncoming"}

\* run() keeps the lock from the outgoing messages to the incoming ones.
Holds == Critical \cup {"collect"}

DispatchLock == INSTANCE Mutex
  WITH Caller <- Dispatcher,
       wanting <- {d \in Dispatcher : pc[d] \in Waits},
       inside <- {d \in Dispatcher : sDispatchLock = d}

HeldInside == \A d \in Dispatcher : sDispatchLock = d => pc[d] \in Holds

MutexStep == HeldInside' /\ [DispatchLock!Next]_(DispatchLock!vars)

LEMMA OtherMoves ==
  ASSUME Typed, HeldInside, NEW d \in Dispatcher, NEW to,
         pc' = [pc EXCEPT ![d] = to], pc[d] \notin Waits, to \notin Waits,
         UNCHANGED sDispatchLock, sDispatchLock = d => to \in Holds
  PROVE  MutexStep
<1>1. HeldInside'
  BY DEF Typed, HeldInside
<1>2. \A e \in Dispatcher : pc'[e] \in Waits <=> pc[e] \in Waits
  BY DEF Typed
<1>3. UNCHANGED DispatchLock!vars
  BY <1>2 DEF DispatchLock!vars
<1>. QED
  BY <1>1, <1>3 DEF MutexStep

LEMMA Requests ==
  ASSUME Typed, HeldInside, NEW d \in Dispatcher, NEW to \in Waits,
         pc' = [pc EXCEPT ![d] = to], pc[d] \notin Waits \cup Holds,
         UNCHANGED sDispatchLock
  PROVE  MutexStep
<1>1. HeldInside' /\ sDispatchLock # d
  BY DEF Typed, HeldInside
<1>2. \A e \in Dispatcher : pc'[e] \in Waits <=> pc[e] \in Waits \/ e = d
  BY DEF Typed
<1>3. DispatchLock!Request(d)
  BY <1>1, <1>2 DEF DispatchLock!Request
<1>. QED
  BY <1>1, <1>3 DEF MutexStep, DispatchLock!Next

LEMMA Acquires ==
  ASSUME Typed, HeldInside, NEW d \in Dispatcher, NEW to \in Critical,
         pc' = [pc EXCEPT ![d] = to], pc[d] \in Waits, Acquire(d)
  PROVE  MutexStep
<1>1. HeldInside' /\ \A e \in Dispatcher : sDispatchLock # e
  BY DispatchAssumption DEF Typed, HeldInside, Holds, Acquire
<1>2. \A e \in Dispatcher : pc'[e] \in Waits <=> pc[e] \in Waits /\ e # d
  BY DEF Typed, Waits, Critical
<1>3. \A e \in Dispatcher : sDispatchLock' = e <=> e = d
  BY DEF Acquire
<1>4. DispatchLock!Acquire(d)
  BY <1>1, <1>2, <1>3 DEF DispatchLock!Acquire
<1>. QED
  BY <1>1, <1>4 DEF MutexStep, DispatchLock!Next

LEMMA Releases ==
  ASSUME Typed, HeldInside, NEW d \in Dispatcher, NEW to,
         pc' = [pc EXCEPT ![d] = to], pc[d] \notin Waits, to \notin Waits, Release(d)
  PROVE  MutexStep
<1>1. HeldInside' /\ \A e \in Dispatcher : sDispatchLock' # e /\ (sDispatchLock = e <=> e = d)
  BY DispatchAssumption DEF Typed, HeldInside, Release
<1>2. \A e \in Dispatcher : pc'[e] \in Waits <=> pc[e] \in Waits
  BY DEF Typed
<1>3. DispatchLock!Release(d)
  BY <1>1, <1>2 DEF DispatchLock!Release
<1>. QED
  BY <1>1, <1>3 DEF MutexStep, DispatchLock!Next

LEMMA MutexSteps ==
  ASSUME IInv, HeldInside, [Next]_vars
  PROVE  MutexStep
<1>. USE DEF Goto
<1>1. Typed
  BY DEF IInv
<1>2. \A d \in Dispatcher : pc[d] \in Critical => sDispatchLock = d
  BY DEF IInv, Locked
<1>3. ASSUME NEW d \in Dispatcher, Thread(d) PROVE MutexStep
  <2>1. CASE LockConstructor(d) \/ LockOutgoing(d) \/ LockIncoming(d)
    <3>1. PICK to \in Critical : pc' = [pc EXCEPT ![d] = to]
      BY <2>1 DEF LockConstructor, LockOutgoing, LockIncoming, Critical
    <3>2. pc[d] \in Waits /\ Acquire(d)
      BY <2>1 DEF LockConstructor, LockOutgoing, LockIncoming, Waits
    <3>. QED
      BY <1>1, <3>1, <3>2, Acquires
  <2>2. CASE UnlockConstructor(d) \/ Unlock(d)
    <3>1. PICK to \in {"setup", "poll"} : pc' = [pc EXCEPT ![d] = to]
      BY <2>2 DEF UnlockConstructor, Unlock
    <3>2. pc[d] \in {"newUnlock", "unlock"} /\ Release(d)
      BY <2>2 DEF UnlockConstructor, Unlock
    <3>. QED
      BY <1>1, <3>1, <3>2, Releases DEF Waits
  <2>3. CASE OwnAllocator(d)
    BY <1>1, <2>3, Requests DEF OwnAllocator, Waits, Holds, Critical
  <2>4. CASE BeginCycle(d)
    <3>. DEFINE to == IF mOutgoingMessages[d] = <<>> THEN "collect" ELSE "lockOutgoing"
    <3>1. pc[d] = "top" /\ pc' = [pc EXCEPT ![d] = to] /\ UNCHANGED sDispatchLock
      BY <2>4 DEF BeginCycle, recycling
    <3>2. to = "collect" \/ to = "lockOutgoing"
      OBVIOUS
    <3>3. sDispatchLock # d
      BY <3>1 DEF HeldInside, Holds, Critical
    <3>. HIDE DEF to
    <3>. QED
      BY <1>1, <3>1, <3>2, <3>3, Requests, OtherMoves DEF Waits, Holds, Critical
  <2>5. CASE Collect(d)
    <3>. DEFINE to == IF sDispatchLock = d THEN "incoming"
                      ELSE IF actors[d] \o mActiveActors[d] # <<>> THEN "lockIncoming"
                      ELSE "poll"
    <3>1. pc[d] = "collect" /\ pc' = [pc EXCEPT ![d] = to] /\ UNCHANGED sDispatchLock
      BY <2>5 DEF Collect, recycling
    <3>2. /\ to \in {"incoming", "lockIncoming", "poll"}
          /\ to = "incoming" <=> sDispatchLock = d
      OBVIOUS
    <3>. HIDE DEF to
    <3>3. CASE to = "lockIncoming"
      <4>1. /\ HeldInside' /\ sDispatchLock # d
        BY <1>1, <3>1, <3>2, <3>3 DEF Typed, HeldInside
      <4>2. \A e \in Dispatcher : pc'[e] \in Waits <=> pc[e] \in Waits \/ e = d
        BY <1>1, <3>1, <3>3 DEF Typed, Waits
      <4>3. pc[d] \notin Waits
        BY <3>1 DEF Waits
      <4>4. DispatchLock!Request(d)
        BY <3>1, <4>1, <4>2, <4>3 DEF DispatchLock!Request
      <4>. QED
        BY <4>1, <4>4 DEF MutexStep, DispatchLock!Next
    <3>4. CASE to # "lockIncoming"
      BY <1>1, <3>1, <3>2, <3>4, OtherMoves DEF Waits, Holds, Critical
    <3>. QED
      BY <3>3, <3>4
  <2>6. CASE CheckRecycled(d) \/ NewRecycled(d) \/ QueueOutgoing(d) \/ OutgoingDone(d)
             \/ TakeQueued(d) \/ ReadRecycled(d) \/ WriteRecycled(d) \/ WriteAllocator(d)
    <3>1. UNCHANGED sDispatchLock
      BY <2>6 DEF CheckRecycled, NewRecycled, QueueOutgoing, OutgoingDone, TakeQueued,
                  ReadRecycled, WriteRecycled, WriteAllocator, recycling
    <3>2. PICK to \in Holds : pc' = [pc EXCEPT ![d] = to]
      BY <2>6 DEF CheckRecycled, NewRecycled, QueueOutgoing, OutgoingDone, TakeQueued,
                  ReadRecycled, WriteRecycled, WriteAllocator, Holds, Critical
    <3>3. pc[d] \in Critical
      BY <2>6 DEF CheckRecycled, NewRecycled, QueueOutgoing, OutgoingDone, TakeQueued,
                  ReadRecycled, WriteRecycled, WriteAllocator, Critical
    <3>. QED
      BY <1>1, <3>1, <3>2, <3>3, OtherMoves DEF Waits, Holds, Critical
  <2>7. CASE AddActivated(d) \/ MarkActive(d)
    BY <2>7 DEF AddActivated, MarkActive, recycling, MutexStep, HeldInside, DispatchLock!vars
  <2>8. CASE StartRun(d) \/ SourceReturns(d) \/ HandleMessage(d) \/ MessageReturns(d)
             \/ MessagesDone(d) \/ Retire(d) \/ PollReturns(d) \/ SourcesDone(d)
             \/ Requeue(d) \/ PutAway(d)
    <3>1. UNCHANGED sDispatchLock
      BY <2>8 DEF StartRun, SourceReturns, HandleMessage, MessageReturns, MessagesDone, Retire,
                  PollReturns, SourcesDone, Requeue, PutAway, recycling
    <3>2. pc[d] \in {"setup", "sources", "messages", "retire", "poll", "requeue", "putAway"}
      BY <2>8 DEF StartRun, SourceReturns, HandleMessage, MessageReturns, MessagesDone, Retire,
                  PollReturns, SourcesDone, Requeue, PutAway, Begin, Come
    <3>3. PICK to \in {"top", "sources", "messages", "requeue", "retire", "putAway", "lost"} :
            pc' = [pc EXCEPT ![d] = to]
      BY <2>8 DEF StartRun, SourceReturns, HandleMessage, MessageReturns, MessagesDone, Retire,
                  PollReturns, SourcesDone, Requeue, PutAway, Begin, Come
    <3>4. sDispatchLock # d
      BY <3>2 DEF HeldInside, Holds, Critical
    <3>. QED
      BY <1>1, <3>1, <3>2, <3>3, <3>4, OtherMoves DEF Waits
  <2>. QED
    BY <1>3, <2>1, <2>2, <2>3, <2>4, <2>5, <2>6, <2>7, <2>8 DEF Thread
<1>4. ASSUME NEW d \in Dispatcher, PollInterrupted(d) \/ \E a \in Actor : SourceReady(d, a)
      PROVE  MutexStep
  <2>1. PICK to \in {"top", "messages", "lost", "sources"} :
          /\ pc[d] \in {"poll", "sources"}
          /\ pc' = [pc EXCEPT ![d] = to]
          /\ UNCHANGED sDispatchLock
    BY <1>4 DEF PollInterrupted, SourceReady, Begin, Come, recycling
  <2>2. sDispatchLock # d
    BY <2>1 DEF HeldInside, Holds, Critical
  <2>. QED
    BY <1>1, <2>1, <2>2, OtherMoves DEF Waits
<1>5. ASSUME NEW d \in Dispatcher, NEW route \in Routes, queueMessage(d, route) PROVE MutexStep
  BY <1>5 DEF queueMessage, recycling, MutexStep, HeldInside, DispatchLock!vars
<1>6. CASE UNCHANGED vars
  BY <1>6 DEF vars, recycling, MutexStep, HeldInside, DispatchLock!vars
<1>. QED
  BY <1>3, <1>4, <1>5, <1>6 DEF Next

\* Every dispatcher asks for the dispatch lock, enters and leaves it as a
\* client of the mutex that Spinlock implements: none asks again for a lock it
\* holds, which would never end, and none leaves a lock that it did not enter
\* (dispatcher.cpp:82-124).
THEOREM DispatchLockIsMutex == Spec => DispatchLock!Safety
<1>1. Init => HeldInside /\ DispatchLock!Init
  <2>. SUFFICES ASSUME Init PROVE HeldInside /\ DispatchLock!Init
    OBVIOUS
  <2>1. \A d \in Dispatcher : sDispatchLock # d /\ pc[d] = "new"
    BY DispatchAssumption DEF Init
  <2>. QED
    BY <2>1 DEF HeldInside, DispatchLock!Init, Waits
<1>2. IInv /\ HeldInside /\ [Next]_vars => MutexStep
  BY MutexSteps
<1>3. MutexStep => HeldInside' /\ [DispatchLock!Next]_(DispatchLock!vars)
  BY DEF MutexStep
<1>. QED
  BY <1>1, <1>2, <1>3, Inductive, PTL DEF Spec, DispatchLock!Safety

-----------------------------------------------------------------------------
(* The mutex itself: the spinlock, for every set of threads *)

\* The word and the program counters always have their types.
THEOREM LockTypeCorrect == LockSafety => []LockTypeOK
<1>1. LockInit => LockTypeOK
  BY LockedAssumption DEF LockInit, LockTypeOK, Position
<1>2. LockTypeOK /\ [LockNext]_lockVars => LockTypeOK'
  <2> SUFFICES ASSUME LockTypeOK, [LockNext]_lockVars PROVE LockTypeOK'
    OBVIOUS
  <2> USE DEF LockTypeOK, Position
  <2>1. ASSUME NEW t \in Caller, lock(t) PROVE LockTypeOK'
    BY <2>1 DEF lock
  <2>2. ASSUME NEW t \in Caller, tryLock(t) PROVE LockTypeOK'
    BY <2>2 DEF tryLock
  <2>3. ASSUME NEW t \in Caller, Spin(t) PROVE LockTypeOK'
    BY <2>3 DEF Spin
  <2>4. ASSUME NEW t \in Caller, LockSet(t) PROVE LockTypeOK'
    BY <2>4 DEF LockSet, TestAndSet
  <2>5. ASSUME NEW t \in Caller, TryLockSet(t) PROVE LockTypeOK'
    BY <2>5 DEF TryLockSet, TestAndSet
  <2>6. ASSUME NEW t \in Caller, unlock(t) PROVE LockTypeOK'
    BY <2>6 DEF unlock
  <2>7. CASE UNCHANGED lockVars
    BY <2>7 DEF lockVars
  <2>8. QED
    BY <2>1, <2>2, <2>3, <2>4, <2>5, <2>6, <2>7 DEF LockNext, Step
<1>3. QED
  BY <1>1, <1>2, PTL DEF LockSafety

\* Mutual exclusion alone is not inductive: an exchange that finds 0 enters,
\* so the invariant must say that 0 means that nobody is inside.
LockInv == LockTypeOK /\ MutualExclusion /\ WordMatchesHolder

\* The three facts about the lock word that every later result uses.
LEMMA LockInvariant == LockSafety => []LockInv
<1> USE DEF LockInv, MutualExclusion, WordMatchesHolder, Holders
<1>1. LockInit => LockInv
  <2> SUFFICES ASSUME LockInit PROVE LockInv
    OBVIOUS
  <2>1. LockTypeOK
    BY LockedAssumption DEF LockInit, LockTypeOK, Position
  <2>2. PICK maker \in Caller :
          position = [t \in Caller |-> IF locked /\ t = maker THEN "critical" ELSE "idle"]
    BY DEF LockInit
  <2>3. \A t \in Caller : position[t] = "critical" <=> locked /\ t = maker
    BY <2>2
  <2>4. mState = 1 <=> locked
    BY LockedAssumption DEF LockInit
  <2>5. QED
    BY <2>1, <2>3, <2>4
<1>2. LockInv /\ LockTypeOK' /\ [LockNext]_lockVars => LockInv'
  <2> SUFFICES ASSUME LockInv, LockTypeOK', [LockNext]_lockVars PROVE LockInv'
    OBVIOUS
  <2> USE DEF LockTypeOK, Position
  <2>1. ASSUME NEW t \in Caller, lock(t) PROVE LockInv'
    BY <2>1 DEF lock
  <2>2. ASSUME NEW t \in Caller, tryLock(t) PROVE LockInv'
    BY <2>2 DEF tryLock
  <2>3. ASSUME NEW t \in Caller, Spin(t) PROVE LockInv'
    BY <2>3 DEF Spin
  <2>4. ASSUME NEW t \in Caller, LockSet(t) PROVE LockInv'
    <3>1. CASE mState = 0
      BY <2>4, <3>1 DEF LockSet, TestAndSet
    <3>2. CASE mState = 1
      BY <2>4, <3>2 DEF LockSet, TestAndSet
    <3>3. QED
      BY <3>1, <3>2
  <2>5. ASSUME NEW t \in Caller, TryLockSet(t) PROVE LockInv'
    <3>1. CASE mState = 0
      BY <2>5, <3>1 DEF TryLockSet, TestAndSet
    <3>2. CASE mState = 1
      BY <2>5, <3>2 DEF TryLockSet, TestAndSet
    <3>3. QED
      BY <3>1, <3>2
  <2>6. ASSUME NEW t \in Caller, unlock(t) PROVE LockInv'
    BY <2>6 DEF unlock
  <2>7. CASE UNCHANGED lockVars
    BY <2>7 DEF lockVars
  <2>8. QED
    BY <2>1, <2>2, <2>3, <2>4, <2>5, <2>6, <2>7 DEF LockNext, Step
<1>3. QED
  BY <1>1, <1>2, LockTypeCorrect, PTL DEF LockSafety

\* However many threads call lock() and tryLock(), at most one is inside.
THEOREM LockExcludes == LockSafety => []MutualExclusion
BY LockInvariant, PTL DEF LockInv

\* The word says whether the lock is held, whoever lost which exchange.
THEOREM WordIsTruthful == LockSafety => []WordMatchesHolder
BY LockInvariant, PTL DEF LockInv

\* Every step of the code's lock is a step of the abstract mutex or leaves it
\* unchanged (its progress part is checked by TLC).
THEOREM RefinesMutex == LockSafety => M!Safety
<1> USE DEF Holders
<1>1. LockInit => M!Init
  <2> SUFFICES ASSUME LockInit PROVE M!Init
    OBVIOUS
  <2>1. PICK maker \in Caller :
          position = [t \in Caller |-> IF locked /\ t = maker THEN "critical" ELSE "idle"]
    BY DEF LockInit
  <2>2. {t \in Caller : position[t] \in {"spin", "set"}} = {}
    BY <2>1
  <2>3. Holders = {} \/ Holders = {maker}
    BY <2>1
  <2>4. QED
    BY <2>2, <2>3 DEF M!Init
<1>2. LockInv /\ [LockNext]_lockVars => [M!Next]_(M!vars)
  <2> SUFFICES ASSUME LockInv, [LockNext]_lockVars PROVE [M!Next]_(M!vars)
    OBVIOUS
  <2> USE DEF LockInv, LockTypeOK, Position, MutualExclusion, WordMatchesHolder
  <2>1. ASSUME NEW t \in Caller, lock(t) PROVE M!Request(t)
    BY <2>1 DEF lock, M!Request
  <2>2. ASSUME NEW t \in Caller, tryLock(t) PROVE UNCHANGED M!vars
    BY <2>2 DEF tryLock, M!vars
  <2>3. ASSUME NEW t \in Caller, Spin(t) PROVE UNCHANGED M!vars
    BY <2>3 DEF Spin, M!vars
  <2>4. ASSUME NEW t \in Caller, LockSet(t) PROVE M!Acquire(t) \/ UNCHANGED M!vars
    <3>1. CASE mState = 0
      BY <2>4, <3>1 DEF LockSet, TestAndSet, M!Acquire
    <3>2. CASE mState = 1
      BY <2>4, <3>2 DEF LockSet, TestAndSet, M!vars
    <3>3. QED
      BY <3>1, <3>2
  <2>5. ASSUME NEW t \in Caller, TryLockSet(t) PROVE M!Acquire(t) \/ UNCHANGED M!vars
    <3>1. CASE mState = 0
      BY <2>5, <3>1 DEF TryLockSet, TestAndSet, M!Acquire
    <3>2. CASE mState = 1
      BY <2>5, <3>2 DEF TryLockSet, TestAndSet, M!vars
    <3>3. QED
      BY <3>1, <3>2
  <2>6. ASSUME NEW t \in Caller, unlock(t) PROVE M!Release(t)
    BY <2>6 DEF unlock, M!Release
  <2>7. CASE UNCHANGED lockVars
    BY <2>7 DEF lockVars, M!vars
  <2>8. QED
    BY <2>1, <2>2, <2>3, <2>4, <2>5, <2>6, <2>7 DEF LockNext, Step, M!Next
<1>3. QED
  BY <1>1, <1>2, LockInvariant, PTL DEF LockSafety, M!Safety

=============================================================================

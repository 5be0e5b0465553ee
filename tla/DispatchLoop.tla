---------------------------- MODULE DispatchLoop ----------------------------
(***************************************************************************)
(* One dispatcher and its actors: stateplex/core/dispatcher.cpp run(),     *)
(* actor.cpp and the inline parts of both headers.  The thread, its three  *)
(* lists of actors (pointer by pointer, with ListLinks), the message       *)
(* queues and the timeouts of each actor, and the code of the application  *)
(* that runs inside: message handlers, timeout handlers, callbacks of      *)
(* sources.  That code may queue messages and add or delete timeouts;      *)
(* every such call is a step of its own between the entry and the return   *)
(* of the handler.  The dispatch lock and the other dispatchers are in     *)
(* module Dispatch.                                                        *)
(***************************************************************************)
EXTENDS ListLinks, FiniteSets

CONSTANTS MaxMessages,   \* bound: messages queued in a behaviour
          MaxTimeouts,   \* bound: timeouts added in a behaviour
          MaxTime,       \* bound: the clock stops here; no timeout is later
          MaxEvents,     \* MAX_EVENTS: callbacks of sources in one cycle
          Liberties      \* what applications do beyond the rules below

\* The sentinels of the lists of actors; actors is the local list of run().
Actor == Item
ActorList == {"mActiveActors", "mWaitingActors", "mPassiveActors", "actors"}

ASSUME ActorsAssumption == IsFiniteSet(Actor) /\ List = ActorList

ASSUME DispatchLoopAssumption ==
  /\ MaxMessages \in Nat /\ MaxTimeouts \in Nat
  /\ MaxTime \in Nat \ {0} /\ MaxEvents \in Nat
  /\ Liberties \subseteq {"timeoutSend", "secondTimeout", "outsideTimeout", "outsideDelete"}

F == INSTANCE FiniteSetsExt

VARIABLES
  links,          \* mNext and mPrevious of the actors and of the sentinels
  mActive,        \* the mActive bit of each actor
  mTimeouts,      \* each actor's timeouts, by their numbers
  mQueuedMessages,     \* each actor's messages, by their numbers
  mIncomingMessages,
  mOutgoingMessages,
  mMilliseconds,  \* the clock as read at the start of the cycle
  now,            \* the clock itself
  pc,             \* where the thread is in run()
  running,        \* the actor whose application code runs, or Null
  iterator,       \* run()'s ListIterator over a list of actors
  timer,          \* handleTimeouts()'s iterator: numbers of timeouts, 0 for none
  mail,           \* handleMessages()'s iterator: is there a current, a subsequent
  wake,           \* when the call of epoll_wait returns by itself
  events,         \* callbacks of sources so far in this cycle
  sent,           \* every message queued so far: its receiver, and whether it
                  \* was direct: had a sender, with the receiver's dispatcher
  handled,        \* the numbers of the messages whose handle() has been called
  timeouts,       \* every timeout added so far: its actor and its time
  over            \* the numbers of the timeouts fired or deleted

queues == <<mQueuedMessages, mIncomingMessages, mOutgoingMessages, sent, handled>>
timing == <<mTimeouts, timeouts, over>>
position == <<pc, running, iterator, timer, mail, wake, events, mMilliseconds>>
vars == <<links, mActive, queues, timing, position, now>>

\* "setup"        before run(): main and the constructors
\* "deliver"      top of the loop
\* "poll"         in epoll_wait
\* "sources"      in the loop over the events
\* "wait"         in the loop over the waiting actors
\* "waitTimers"   in handleTimeouts(), called from there
\* "active"       in the loop over the active actors
\* "activeTimers" in handleTimeouts(), called from handleMessages()
\* "messages"     in the loop over the messages of handleMessages()
\* "lost"         a loop has left its list: it treats a sentinel as an actor,
\*                or runs in a circle that no sentinel is part of
Location == {"setup", "deliver", "poll", "sources", "wait", "waitTimers",
             "active", "activeTimers", "messages", "lost"}

Forever == MaxTime + 1       \* epoll_wait's timeout -1

Nowhere == [current |-> Null, subsequent |-> Null]

Init ==
  /\ links = Unlinked
  /\ mActive = [a \in Actor |-> FALSE]
  /\ mTimeouts = [a \in Actor |-> <<>>]
  /\ mQueuedMessages = [a \in Actor |-> <<>>]
  /\ mIncomingMessages = [a \in Actor |-> <<>>]
  /\ mOutgoingMessages = <<>>
  /\ mMilliseconds = 0
  /\ now = 1
  /\ pc = "setup"
  /\ running = Null
  /\ iterator = Nowhere
  /\ timer = [current |-> 0, subsequent |-> 0]
  /\ mail = [current |-> FALSE, subsequent |-> FALSE]
  /\ wake = 0
  /\ events = 0
  /\ sent = <<>>
  /\ handled = {}
  /\ timeouts = <<>>
  /\ over = {}

-----------------------------------------------------------------------------
(* Walking a list *)

\* The nodes a loop over list meets before it comes to a sentinel, and that
\* sentinel; Null when it never comes to one.
Trail(ls, list) ==
  LET reached[k \in 0..Cardinality(Node)] ==
        IF k = 0 THEN list ELSE ls.next[reached[k - 1]]
      ends == {k \in 1..Cardinality(Node) : reached[k] \in ActorList}
      length == IF ends = {} THEN Cardinality(Node) ELSE F!Min(ends) - 1
  IN  [items |-> [k \in 1..length |-> reached[k]],
       end   |-> IF ends = {} THEN Null ELSE reached[length + 1]]

Members(ls, list) == S!ToSet(Trail(ls, list).items)

\* The loop at location loc goes on with iterator i, unless i is astray.
Iterate(loc, i) ==
  /\ iterator' = i
  /\ pc' = IF i.current \in ActorList THEN "lost" ELSE loc

-----------------------------------------------------------------------------
(* Timeouts *)

TimeOf(t) == timeouts[t].at

\* 0 stands for no timeout: times count from 1970.
nextTimeoutMilliseconds(a) ==
  IF mTimeouts[a] = <<>> THEN 0 ELSE TimeOf(Head(mTimeouts[a]))

Following(s, t) ==
  LET later == {k \in DOMAIN s : k > 1 /\ s[k - 1] = t}
  IN  IF later = {} THEN 0 ELSE s[F!Min(later)]

TimerAt(s, t) == [current |-> t, subsequent |-> Following(s, t)]
FirstTimer(a) ==
  IF mTimeouts[a] = <<>> THEN TimerAt(<<>>, 0)
  ELSE TimerAt(mTimeouts[a], Head(mTimeouts[a]))

\* Behind the timeouts of the same time, before the first later one.
Inserted(s, t, at) ==
  LET later == {k \in DOMAIN s : at < TimeOf(s[k])}
  IN  S!InsertAt(s, IF later = {} THEN Len(s) + 1 ELSE F!Min(later), t)

-----------------------------------------------------------------------------
(* What applications must respect, though no comment says so.  A liberty    *)
(* lifts the rule of its name.                                              *)

InTimers == pc \in {"waitTimers", "activeTimers"}
Pending(a) == {t \in S!ToSet(mTimeouts[a]) : ~(InTimers /\ timer.current = t)}

\* "timeoutSend": a timeout handler of a waiting actor wakes neither its own
\* actor nor the one the loop comes to next.
MaySend(b) ==
  \/ "timeoutSend" \in Liberties
  \/ pc = "waitTimers" /\ b \in {iterator.current, iterator.subsequent} => mActive[b]

\* "secondTimeout": an actor has one timeout at a time, and the handler of a
\* waiting actor's timeout adds none.
\* "outsideTimeout": an actor adds timeouts while it is active, not in its
\* constructor or from the callback of a source.
MayAdd(a) ==
  /\ "secondTimeout" \in Liberties \/ (Pending(a) = {} /\ pc # "waitTimers")
  /\ "outsideTimeout" \in Liberties \/ mActive[a] \/ pc = "waitTimers"

\* "outsideDelete": an actor deletes timeouts while it is active, not from the
\* callback of a source while it waits: nobody puts it where its timeouts
\* belong then.  In any case not the timeout that is handled nor the one that
\* handleTimeouts() comes to next, whose memory the loop still uses.
MayDelete(a, t) ==
  /\ InTimers => t \notin {timer.current, timer.subsequent}
  /\ "outsideDelete" \in Liberties \/ mActive[a]

-----------------------------------------------------------------------------
(* The dispatcher's operations on actors *)

Activated(st, a) ==
  IF st.active[a] THEN st
  ELSE [links  |-> AddTail(st.links, "mActiveActors", a),
        active |-> [st.active EXCEPT ![a] = TRUE]]

activateActor(a) ==
  \E st \in {Activated([links |-> links, active |-> mActive], a)} :
    links' = st.links /\ mActive' = st.active

\* A slip: the search for the actor's place forgotten.
waitTimeoutUnsorted(a) == AddTail(links, "mWaitingActors", a)

\* The actor before which a goes: the first with a later timeout, or else the
\* node the search ends at; Null when it does not end.
WaitingPlace(a) ==
  LET trail == Trail(links, "mWaitingActors")
      later == {k \in DOMAIN trail.items :
                  nextTimeoutMilliseconds(a) < nextTimeoutMilliseconds(trail.items[k])}
  IN  IF later = {} THEN trail.end ELSE trail.items[F!Min(later)]

waitTimeout(a) == AddBefore(links, a, WaitingPlace(a))

\* Where an actor without messages goes, and the loop over list goes on.
PutAway(a, list, loc) ==
  IF mTimeouts[a] # <<>> /\ WaitingPlace(a) \notin Actor \cup {"mWaitingActors"}
  THEN pc' = "lost" /\ UNCHANGED <<links, iterator>>
  ELSE \E ls \in {IF mTimeouts[a] = <<>> THEN AddTail(links, "mPassiveActors", a)
                  ELSE waitTimeout(a)} :
         links' = ls /\ Iterate(loc, Subsequent(ls, list, FALSE, iterator))

-----------------------------------------------------------------------------
(* Application code: what a handler of actor a, or main, may call *)

CodeOf(a) == running = a \/ pc = "setup"

\* A slip: addHead for addTail.
QueuedAtHead(messages, m) == S!Cons(m, messages)

Queued(messages, m) == Append(messages, m)

\* Dispatcher::queueMessage to actor b.  A message without a sender goes
\* through the outgoing messages even inside one dispatcher.
queueMessage(b, direct) ==
  /\ \E a \in Actor : CodeOf(a)
  /\ Len(sent) < MaxMessages
  /\ LET m == Len(sent) + 1
     IN  IF direct
         THEN /\ MaySend(b)
              /\ mIncomingMessages' = [mIncomingMessages EXCEPT ![b] = Queued(@, m)]
              /\ activateActor(b)
              /\ UNCHANGED mOutgoingMessages
         ELSE /\ mOutgoingMessages' = Queued(mOutgoingMessages, m)
              /\ UNCHANGED <<mIncomingMessages, links, mActive>>
  /\ sent' = Append(sent, [to |-> b, direct |-> direct])
  /\ UNCHANGED <<mQueuedMessages, handled, timing, position, now>>

addTimeout(a, at) ==
  /\ CodeOf(a)
  /\ MayAdd(a)
  /\ Len(timeouts) < MaxTimeouts
  /\ timeouts' = Append(timeouts, [actor |-> a, at |-> at])
  /\ mTimeouts' = [mTimeouts EXCEPT ![a] = Inserted(@, Len(timeouts'), at)]
  /\ UNCHANGED <<links, mActive, queues, over, position, now>>

deleteTimeout(a, t) ==
  /\ CodeOf(a)
  /\ t \in S!ToSet(mTimeouts[a])
  /\ MayDelete(a, t)
  /\ mTimeouts' = [mTimeouts EXCEPT ![a] = S!RemoveFirst(@, t)]
  /\ over' = over \cup {t}
  /\ UNCHANGED <<links, mActive, queues, timeouts, position, now>>

-----------------------------------------------------------------------------
(* run(), from the top of the loop to epoll_wait *)

StartRun ==
  /\ pc = "setup"
  /\ pc' = "deliver"
  /\ UNCHANGED <<links, mActive, queues, timing, running, iterator, timer, mail,
                 wake, events, mMilliseconds, now>>

\* One outgoing message is queued at its receiver, which becomes active.
Delivered(st, m) ==
  LET to == sent[m].to
      activated == Activated([links |-> st.links, active |-> st.active], to)
  IN  [links  |-> activated.links,
       active |-> activated.active,
       queued |-> [st.queued EXCEPT ![to] = Append(@, m)]]

AllDelivered ==
  LET after[k \in 0..Len(mOutgoingMessages)] ==
        IF k = 0 THEN [links |-> links, active |-> mActive, queued |-> mQueuedMessages]
        ELSE Delivered(after[k - 1], mOutgoingMessages[k])
  IN  after[Len(mOutgoingMessages)]

\* A slip: the spliced actors not given what others queued for them.
DeliverKeepingQueued ==
  \E all \in {AllDelivered} :
    /\ links' = SpliceTail(all.links, "actors", "mActiveActors")
    /\ mActive' = all.active
    /\ mQueuedMessages' = all.queued
    /\ mOutgoingMessages' = <<>>
    /\ UNCHANGED <<mIncomingMessages, sent, handled>>

\* Outgoing messages are queued at their receivers; then the active actors
\* become this cycle's actors and take what is queued for them.
Deliver ==
  \E all \in {AllDelivered} :
  \E ls \in {SpliceTail(all.links, "actors", "mActiveActors")} :
  \E takers \in {Members(ls, "actors")} :
    /\ links' = ls
    /\ mActive' = all.active
    /\ mIncomingMessages' =
         [a \in Actor |-> mIncomingMessages[a] \o IF a \in takers THEN all.queued[a] ELSE <<>>]
    /\ mQueuedMessages' = [a \in Actor |-> IF a \in takers THEN <<>> ELSE all.queued[a]]
    /\ mOutgoingMessages' = <<>>
    /\ UNCHANGED <<sent, handled>>

\* A slip: the first waiting actor forgotten, so that only events wake the loop.
WakeTimesForgetting(ls) ==
  IF ~IsEmpty(ls, "actors") THEN {now} ELSE {Forever}

\* Timeout of epoll_wait.  For a waiting actor without timeouts the code
\* subtracts the clock from 0 and cuts the result to an int: no wait at all
\* or a wait of up to 24 days.
WakeTimes(ls) ==
  LET first == ls.next["mWaitingActors"]
      next == nextTimeoutMilliseconds(first)
  IN  IF ~IsEmpty(ls, "actors") THEN {now}
      ELSE IF IsEmpty(ls, "mWaitingActors") THEN {Forever}
      ELSE IF next = 0 THEN {now, Forever}
      ELSE {IF next < now THEN now ELSE next}

\* Milliseconds since 1970, rounded down.
Clock == now

StartCycle ==
  /\ pc = "deliver"
  /\ Deliver
  /\ mMilliseconds' = Clock
  /\ events' = 0
  /\ IF \/ Trail(links', "actors").end # "actors"
        \/ IsEmpty(links', "actors") /\ links'.next["mWaitingActors"] \in ActorList \ {"mWaitingActors"}
     THEN pc' = "lost" /\ UNCHANGED wake
     ELSE pc' = "poll" /\ wake' \in WakeTimes(links')
  /\ UNCHANGED <<timing, running, iterator, timer, mail, now>>

-----------------------------------------------------------------------------
(* epoll_wait and the sources *)

WaitLoop ==
  /\ Iterate("wait", Iterator(links, "mWaitingActors", FALSE))
  /\ UNCHANGED <<links, mActive, queues, timing, running, timer, mail, wake,
                 events, mMilliseconds, now>>

PollTimesOut == pc = "poll" /\ wake <= now /\ WaitLoop

\* EINTR: a signal ends the call; run() goes on as after a timeout.
PollInterrupted == pc = "poll" /\ WaitLoop

\* handleReady() of a source runs code of its actor.
SourceReady(a) ==
  /\ pc \in {"poll", "sources"}
  /\ running = Null
  /\ events < MaxEvents
  /\ pc' = "sources"
  /\ running' = a
  /\ events' = events + 1
  /\ UNCHANGED <<links, mActive, queues, timing, iterator, timer, mail, wake,
                 mMilliseconds, now>>

SourceReturns ==
  /\ pc = "sources"
  /\ running # Null
  /\ running' = Null
  /\ UNCHANGED <<links, mActive, queues, timing, pc, iterator, timer, mail, wake,
                 events, mMilliseconds, now>>

SourcesDone == pc = "sources" /\ running = Null /\ WaitLoop

-----------------------------------------------------------------------------
(* The loop over the waiting actors *)

Due(a) == nextTimeoutMilliseconds(a) <= mMilliseconds

WaitStops ==
  /\ pc = "wait"
  /\ iterator.current # Null => ~Due(iterator.current)
  /\ Iterate("active", Iterator(links, "actors", FALSE))
  /\ UNCHANGED <<links, mActive, queues, timing, running, timer, mail, wake,
                 events, mMilliseconds, now>>

EnterTimers(from, to) ==
  /\ pc = from
  /\ iterator.current # Null
  /\ pc' = to
  /\ timer' = FirstTimer(iterator.current)
  /\ UNCHANGED <<links, mActive, queues, timing, running, iterator, mail, wake,
                 events, mMilliseconds, now>>

WaitTimers ==
  /\ EnterTimers("wait", "waitTimers")
  /\ Due(iterator.current)

-----------------------------------------------------------------------------
(* Actor::handleTimeouts *)

TimerDue == timer.current # 0 /\ TimeOf(timer.current) <= mMilliseconds

FireTimer ==
  /\ InTimers
  /\ running = Null
  /\ TimerDue
  /\ running' = iterator.current
  /\ over' = over \cup {timer.current}
  /\ UNCHANGED <<links, mActive, queues, mTimeouts, timeouts, pc, iterator, timer,
                 mail, wake, events, mMilliseconds, now>>

\* The timeout leaves the list; the one fetched before it was handled is next.
TimerReturns ==
  /\ InTimers
  /\ running # Null
  /\ LET rest == S!RemoveFirst(mTimeouts[running], timer.current)
     IN  /\ mTimeouts' = [mTimeouts EXCEPT ![running] = rest]
         /\ timer' = TimerAt(rest, timer.subsequent)
  /\ running' = Null
  /\ UNCHANGED <<links, mActive, queues, timeouts, over, pc, iterator, mail, wake,
                 events, mMilliseconds, now>>

\* The waiting actor is put where its timeouts belong now.
WaitTimersDone ==
  /\ pc = "waitTimers"
  /\ running = Null
  /\ ~TimerDue
  /\ PutAway(iterator.current, "mWaitingActors", "wait")
  /\ UNCHANGED <<mActive, queues, timing, running, timer, mail, wake, events,
                 mMilliseconds, now>>

-----------------------------------------------------------------------------
(* The loop over the active actors, and Actor::handleMessages *)

ActiveTimers == EnterTimers("active", "activeTimers")

MailOf(messages) == [current |-> Len(messages) > 0, subsequent |-> Len(messages) > 1]

ActiveTimersDone ==
  /\ pc = "activeTimers"
  /\ running = Null
  /\ ~TimerDue
  /\ pc' = "messages"
  /\ mail' = MailOf(mIncomingMessages[iterator.current])
  /\ UNCHANGED <<links, mActive, queues, timing, running, iterator, timer, wake,
                 events, mMilliseconds, now>>

HandleMessage ==
  /\ pc = "messages"
  /\ running = Null
  /\ mail.current
  /\ running' = iterator.current
  /\ handled' = handled \cup {Head(mIncomingMessages[iterator.current])}
  /\ UNCHANGED <<links, mActive, mQueuedMessages, mIncomingMessages, mOutgoingMessages,
                 sent, timing, pc, iterator, timer, mail, wake, events,
                 mMilliseconds, now>>

\* A slip: the handled message taken for the last one of the list.
MessageReturnsDroppingLast ==
  /\ pc = "messages"
  /\ running # Null
  /\ LET rest == S!Front(mIncomingMessages[running])
     IN  /\ mIncomingMessages' = [mIncomingMessages EXCEPT ![running] = rest]
         /\ mail' = [current |-> mail.subsequent, subsequent |-> Len(rest) > 1]
  /\ running' = Null
  /\ UNCHANGED <<links, mActive, mQueuedMessages, mOutgoingMessages, sent, handled,
                 timing, pc, iterator, timer, wake, events, mMilliseconds, now>>

\* A message that came in while the last one was handled stays for the next cycle.
MessageReturns ==
  /\ pc = "messages"
  /\ running # Null
  /\ LET rest == Tail(mIncomingMessages[running])
     IN  /\ mIncomingMessages' = [mIncomingMessages EXCEPT ![running] = rest]
         /\ mail' = [current |-> mail.subsequent,
                     subsequent |-> mail.subsequent /\ Len(rest) > 1]
  /\ running' = Null
  /\ UNCHANGED <<links, mActive, mQueuedMessages, mOutgoingMessages, sent, handled,
                 timing, pc, iterator, timer, wake, events, mMilliseconds, now>>

MessagesDone ==
  /\ pc = "messages"
  /\ running = Null
  /\ ~mail.current
  /\ \E again \in {AddTail(links, "mActiveActors", iterator.current)} :
     LET current == iterator.current
     IN  IF mIncomingMessages[current] # <<>>
         THEN /\ links' = again
              /\ Iterate("active", Subsequent(again, "actors", FALSE, iterator))
              /\ UNCHANGED mActive
         ELSE /\ mActive' = [mActive EXCEPT ![current] = FALSE]
              /\ PutAway(current, "actors", "active")
  /\ UNCHANGED <<queues, timing, running, timer, mail, wake, events,
                 mMilliseconds, now>>

ActiveDone ==
  /\ pc = "active"
  /\ iterator.current = Null
  /\ pc' = "deliver"
  /\ UNCHANGED <<links, mActive, queues, timing, running, iterator, timer, mail,
                 wake, events, mMilliseconds, now>>

-----------------------------------------------------------------------------
Tick ==
  /\ now < MaxTime
  /\ now' = now + 1
  /\ UNCHANGED <<links, mActive, queues, timing, position>>

Application ==
  \/ \E b \in Actor, direct \in BOOLEAN : queueMessage(b, direct)
  \/ \E a \in Actor, at \in 1..MaxTime : addTimeout(a, at)
  \/ \E a \in Actor, t \in DOMAIN timeouts : deleteTimeout(a, t)

\* What the thread does of itself, the returns of handlers included.
Thread ==
  \/ StartRun \/ StartCycle \/ PollTimesOut \/ SourceReturns \/ SourcesDone
  \/ WaitStops \/ WaitTimers \/ WaitTimersDone
  \/ FireTimer \/ TimerReturns
  \/ ActiveTimers \/ ActiveTimersDone
  \/ HandleMessage \/ MessageReturns \/ MessagesDone \/ ActiveDone

Environment ==
  \/ PollInterrupted
  \/ \E a \in Actor : SourceReady(a)

Next == Thread \/ Environment \/ Application \/ Tick

Spec == Init /\ [][Next]_vars

\* The thread runs, handlers return, time passes.  No event need come, no
\* signal, and no application code need call anything.
FairSpec == Spec /\ WF_vars(Thread) /\ WF_vars(Tick)

-----------------------------------------------------------------------------
TypeOK ==
  /\ links \in [next : [Node -> Node], prev : [Node -> Node]]
  /\ mActive \in [Actor -> BOOLEAN]
  /\ pc \in Location
  /\ running \in Actor \cup {Null}
  /\ pc # "lost" => iterator.current \in Actor \cup {Null}
  /\ mMilliseconds <= now
  /\ \A a \in Actor : S!ToSet(mTimeouts[a]) \subseteq DOMAIN timeouts

Numbers == DOMAIN sent

\* The queues that a message can be in, in the order it passes them.
Places(m) ==
  {<<"outgoing", k>> : k \in {i \in DOMAIN mOutgoingMessages : mOutgoingMessages[i] = m}}
  \cup (UNION {{<<"queued", a, k>> : k \in {i \in DOMAIN mQueuedMessages[a] : mQueuedMessages[a][i] = m}}
               : a \in Actor})
  \cup (UNION {{<<"incoming", a, k>> : k \in {i \in DOMAIN mIncomingMessages[a] : mIncomingMessages[a][i] = m}}
               : a \in Actor})

BeingHandled(m) ==
  pc = "messages" /\ running # Null /\ Head(mIncomingMessages[running]) = m

\* A message is in exactly one queue, its receiver's unless it is still
\* outgoing, until its handler has returned; then it is in none.  Moves
\* between the queues, by splices and by an interrupted iteration, neither
\* drop nor double one, whatever handlers do.
MessagesConserved ==
  \A m \in Numbers :
    /\ Cardinality(Places(m)) = IF m \in handled /\ ~BeingHandled(m) THEN 0 ELSE 1
    /\ \A p \in Places(m) : p[1] # "outgoing" => p[2] = sent[m].to

\* Messages to an actor that came the same way are handled in the order in
\* which they were queued.  Direct ones may overtake those without a sender.
FirstInFirstHandled ==
  \A m \in handled : \A k \in 1..(m - 1) : sent[k] = sent[m] => k \in handled

\* Whatever handlers and timeouts send in the middle of a cycle, a message is
\* handled once, after those before it (actor.cpp:54-62, dispatcher.cpp:89).
HandledOnceInOrder == MessagesConserved /\ FirstInFirstHandled

\* Among the places where the thread looks for active actors.
Scheduled(a) == a \in Members(links, "mActiveActors") \cup Members(links, "actors")

\* An actor with messages to handle is in a list the thread handles messages
\* from, and the flag that keeps it from being added again is set for no
\* other actor: a flag left set would shut the actor out for good.
NoStrandedMail ==
  pc # "lost" =>
  \A a \in Actor :
    /\ mIncomingMessages[a] # <<>> \/ mQueuedMessages[a] # <<>> => Scheduled(a)
    /\ mActive[a] <=> Scheduled(a)

\* An actor with timeouts, unless it is scheduled, waits for the first of
\* them, in an order in which the loop can stop at the first that is not due.
NoStrandedTimeout ==
  pc \in {"deliver", "poll", "active"} =>
  LET waiting == Trail(links, "mWaitingActors").items
  IN  /\ \A a \in Actor : mTimeouts[a] # <<>> => Scheduled(a) \/ a \in S!ToSet(waiting)
      /\ \A k \in DOMAIN waiting :
           k > 1 => nextTimeoutMilliseconds(waiting[k - 1]) <= nextTimeoutMilliseconds(waiting[k])

\* epoll_wait is never told to sleep past the time of a timeout or while
\* messages wait to be handled.
NoOversleeping ==
  pc = "poll" =>
  /\ \A a \in Actor : \A t \in S!ToSet(mTimeouts[a]) : wake <= mMilliseconds \/ wake <= TimeOf(t)
  /\ handled # Numbers => wake <= now

\* The thread never sleeps over what it has to do: an actor with messages or
\* timeouts is where the loops look for it, and epoll_wait is told to wake in
\* time (dispatcher.cpp:127-188).
NothingStranded == NoStrandedMail /\ NoStrandedTimeout /\ NoOversleeping

\* No loop of run() leaves the list it iterates.
NeverLost == pc # "lost"

\* The lists of actors stay rings.
RingsKept ==
  \A n \in Node : links.prev[links.next[n]] = n /\ links.next[links.prev[n]] = n

\* Handlers move actors from list to list while run() iterates those lists:
\* every loop stays in its list and every list a ring (list.h:384,
\* dispatcher.cpp:155-188).
LoopsKeepLists == NeverLost /\ RingsKept

\* Every message queued to an actor is eventually handled.
EventuallyHandled ==
  \A m \in 1..MaxMessages : (m \in Numbers) ~> (m \in handled)

\* Every timeout added is eventually fired, or deleted before.
EventuallyFired ==
  \A t \in 1..MaxTimeouts : (t \in DOMAIN timeouts) ~> (t \in over)
=============================================================================

------------------------------ MODULE Sources ------------------------------
(***************************************************************************)
(* Sources and what receives from them: core/source.*, receiversource.*,   *)
(* receiver.h, net/tcpserver.*, tcpconnection.*, and the part of           *)
(* dispatcher.cpp that registers sources in epoll and calls the ready      *)
(* ones.  A listening TcpServer accepts TcpConnections; their receivers    *)
(* are code of the application, which may call back while it is called.    *)
(* The operating system is modelled as the code uses it: a queue of        *)
(* connections, the bytes that wait in a socket, the room to write, and    *)
(* edge-triggered readiness.  Bytes are numbered in the order in which     *)
(* they are sent; those read are only counted.                             *)
(***************************************************************************)
EXTENDS Integers, Sequences

CONSTANTS Conn,        \* the connections peers open, at most once each
          Server,      \* the TcpServer
          Nobody,
          ReadRoom,    \* blockSize(): what one read() can take
          MaxEvents,   \* MAX_EVENTS: sources fetched in one cycle
          Space,       \* bytes a socket takes before write() says EAGAIN
          MaxIn,       \* bound: bytes a peer sends on a connection
          MaxOut,      \* bound: bytes the application sends on one
          Bursty,      \* peers send more than one read() takes
          Written,     \* bound: connections the application sends on
          Switched     \* bound: sources it enables and disables

ASSUME SourcesAssumption ==
  /\ Server \notin Conn /\ Nobody \notin Conn \cup {Server}
  /\ ReadRoom \in Nat \ {0} /\ MaxEvents \in Nat \ {0} /\ Space \in Nat \ {0}
  /\ MaxIn \in Nat /\ MaxOut \in Nat /\ Bursty \in BOOLEAN
  /\ Written \subseteq Conn /\ Switched \subseteq Conn \cup {Server}

S == INSTANCE SequencesExt

Source == Conn \cup {Server}

VARIABLES
  phase,         \* of a connection: none, queued, open (mFd # -1) or closed
  queue,         \* connections the server has not accepted
  unread,        \* bytes that wait in a socket
  ending,        \* behind them: nothing, the peer's end, or a reset
  arrived,       \* bytes the peer has sent so far
  space,         \* what the socket still takes
  wire,          \* the bytes it has taken
  registered,    \* the sources epoll knows
  ready,         \* epoll's list of those with an edge, first come first
  mEnabled,
  mDispatched,
  mWriteEof,
  mWriteBuffer,  \* the bytes in it; no bytes, no buffer
  taken,         \* bytes for which receive() has returned true
  ends,          \* mReceiver->receiveEnd() has been called, once or more
  pc,            \* in epoll_wait, in run()'s loop over the events, in accept's
  events,        \* the events of this cycle that are still to be handled
  running,       \* the connection whose receiver (or factory) runs, or Nobody
  writing        \* the write() loop it is in: the connection, of the length to
                 \* write the data that is left

net == <<queue, unread, ending, arrived, space, wire>>
epoll == <<registered, ready>>
source == <<phase, mEnabled, mDispatched, mWriteEof, mWriteBuffer, taken, ends>>
loop == <<pc, events, running, writing>>
vars == <<net, epoll, source, loop>>

NoWriting == [conn |-> Nobody, data |-> <<>>, length |-> 0]

TypeOK ==
  /\ phase \in [Conn -> {"none", "queued", "open", "closed"}]
  /\ queue \in Seq(Conn)
  /\ unread \in [Conn -> Nat] /\ arrived \in [Conn -> Nat]
  /\ ending \in [Conn -> {"no", "end", "reset"}]
  /\ space \in [Conn -> 0..Space]
  /\ wire \in [Conn -> Seq(1..MaxOut)] /\ mWriteBuffer \in [Conn -> Seq(1..MaxOut)]
  /\ registered \subseteq Source /\ ready \in Seq(Source)
  /\ mEnabled \in [Source -> BOOLEAN] /\ mDispatched \in [Source -> BOOLEAN]
  /\ mWriteEof \in [Conn -> BOOLEAN]
  /\ taken \in [Conn -> 0..MaxOut] /\ ends \in [Conn -> BOOLEAN]
  /\ pc \in {"wait", "batch", "accept"}
  /\ events \in Seq([source : Source, read : BOOLEAN])
  /\ running \in Conn \cup {Nobody}
  /\ writing \in [conn : Conn \cup {Nobody}, data : Seq(1..MaxOut), length : 0..MaxOut]

-----------------------------------------------------------------------------
(* epoll, edge-triggered, as the dispatcher uses it *)

CanRead(s) ==
  IF s = Server THEN queue # <<>> ELSE unread[s] > 0 \/ ending[s] # "no"

CanWrite(s) == s # Server /\ space[s] > 0

\* An edge: something came for source s.
Edge(s) ==
  IF s \in registered /\ s \notin S!ToSet(ready) THEN Append(ready, s) ELSE ready

\* epoll_ctl(EPOLL_CTL_ADD): what is known already is left as it is.
addSource(s) ==
  /\ registered' = registered \cup {s}
  /\ ready' = IF s \notin registered /\ (CanRead(s) \/ CanWrite(s))
                THEN Append(ready, s) ELSE ready

\* Closing a descriptor forgets it, too.
Forget(s) ==
  /\ registered' = registered \ {s}
  /\ \/ s \notin S!ToSet(ready) /\ UNCHANGED ready
     \/ \E i \in DOMAIN ready : ready[i] = s /\ ready' = S!RemoveAt(ready, i)

removeSource(s) == Forget(s)

-----------------------------------------------------------------------------
(* Source *)

\* A slip: the flag not cleared when a source is taken out of epoll.
ManagedOnce(s, shouldDispatch) ==
  IF shouldDispatch = mDispatched[s] THEN UNCHANGED <<mDispatched, epoll>>
  ELSE /\ mDispatched' = [mDispatched EXCEPT ![s] = TRUE]
       /\ IF shouldDispatch THEN addSource(s) ELSE removeSource(s)

\* mDispatched is a signed bit-field: set, it is -1 and never equals
\* shouldDispatch, so that a source that is known is added again.
manageDispatching(s, shouldDispatch) ==
  IF ~shouldDispatch /\ ~mDispatched[s] THEN UNCHANGED <<mDispatched, epoll>>
  ELSE /\ mDispatched' = [mDispatched EXCEPT ![s] = shouldDispatch]
       /\ IF shouldDispatch THEN addSource(s) ELSE removeSource(s)

\* close(): removeSource() gets the descriptor -1 and has nothing to remove;
\* what waited in the socket is gone.
CloseFd(c) ==
  /\ phase' = [phase EXCEPT ![c] = "closed"]
  /\ Forget(c)
  /\ mDispatched' = [mDispatched EXCEPT ![c] = FALSE]
  /\ unread' = [unread EXCEPT ![c] = 0]
  /\ ending' = [ending EXCEPT ![c] = "no"]

-----------------------------------------------------------------------------
(* ReceiverSource: what is written *)

Numbered(n, m) == [i \in 1..(m - n) |-> n + i]

\* receive(const String *) and receive(Buffer *): only the former looks at
\* mWriteEof if there is a write buffer.  What is neither refused nor put behind
\* what waits goes to the write() loop, a buffer block by block.
receive(c, data, isBuffer) ==
  \/ /\ mWriteEof[c] /\ (~isBuffer \/ mWriteBuffer[c] = <<>>)
     /\ UNCHANGED <<taken, mWriteBuffer, writing>>
  \/ /\ mWriteBuffer[c] # <<>> /\ (isBuffer \/ ~mWriteEof[c])
     /\ mWriteBuffer' = [mWriteBuffer EXCEPT ![c] = @ \o data]
     /\ taken' = [taken EXCEPT ![c] = @ + Len(data)]
     /\ UNCHANGED writing
  \/ /\ ~mWriteEof[c] /\ mWriteBuffer[c] = <<>>
     /\ writing' = [conn |-> c, data |-> data, length |-> Len(data)]
     /\ UNCHANGED <<taken, mWriteBuffer>>

\* receive() returns true.
Accepted(c) ==
  /\ taken' = [taken EXCEPT ![c] = @ + writing.length]
  /\ writing' = NoWriting

\* A slip: data not advanced behind what was written.
WriteAgain(c, size) ==
  /\ writing.conn = c /\ ending[c] # "reset"
  /\ size <= space[c] /\ size <= Len(writing.data)
  /\ wire' = [wire EXCEPT ![c] = @ \o SubSeq(writing.data, 1, size)]
  /\ space' = [space EXCEPT ![c] = @ - size]
  /\ \/ size = Len(writing.data) /\ Accepted(c)
     \/ /\ size < Len(writing.data)
        /\ writing' = [writing EXCEPT !.data = SubSeq(@, 1, Len(@) - size)]
        /\ UNCHANGED taken
  /\ UNCHANGED <<queue, unread, ending, arrived, epoll, phase, mEnabled, mDispatched,
                 mWriteEof, mWriteBuffer, ends, pc, events, running>>

\* One write(): the socket takes size bytes, and the loop ends with the last.
Write(c, size) ==
  /\ writing.conn = c /\ ending[c] # "reset"
  /\ size <= space[c] /\ size <= Len(writing.data)
  /\ wire' = [wire EXCEPT ![c] = @ \o SubSeq(writing.data, 1, size)]
  /\ space' = [space EXCEPT ![c] = @ - size]
  /\ \/ size = Len(writing.data) /\ Accepted(c)
     \/ /\ size < Len(writing.data)
        /\ writing' = [writing EXCEPT !.data = SubSeq(@, size + 1, Len(@))]
        /\ UNCHANGED taken
  /\ UNCHANGED <<queue, unread, ending, arrived, epoll, phase, mEnabled, mDispatched,
                 mWriteEof, mWriteBuffer, ends, pc, events, running>>

\* EAGAIN: the rest goes into a new buffer.
WriteWouldBlock(c) ==
  /\ writing.conn = c /\ ending[c] # "reset" /\ space[c] = 0
  /\ mWriteBuffer' = [mWriteBuffer EXCEPT ![c] = writing.data]
  /\ Accepted(c)
  /\ UNCHANGED <<net, epoll, phase, mEnabled, mDispatched, mWriteEof, ends,
                 pc, events, running>>

\* ECONNRESET, told once, maybe when a part is written: receive() returns false.
WriteFails(c) ==
  /\ writing.conn = c /\ ending[c] = "reset"
  /\ mWriteEof' = [mWriteEof EXCEPT ![c] = TRUE]
  /\ ending' = [ending EXCEPT ![c] = "end"]
  /\ writing' = NoWriting
  /\ UNCHANGED <<queue, unread, arrived, space, wire, epoll, phase, mEnabled, mDispatched,
                 mWriteBuffer, taken, ends, pc, events, running>>

-----------------------------------------------------------------------------
(* The dispatcher's thread *)

Init ==
  /\ phase = [c \in Conn |-> "none"]
  /\ queue = <<>>
  /\ unread = [c \in Conn |-> 0] /\ arrived = [c \in Conn |-> 0]
  /\ ending = [c \in Conn |-> "no"]
  /\ space = [c \in Conn |-> Space]
  /\ wire = [c \in Conn |-> <<>>] /\ mWriteBuffer = [c \in Conn |-> <<>>]
  /\ registered = {Server} /\ ready = <<>>
  /\ mEnabled = [s \in Source |-> TRUE]
  /\ mDispatched = [s \in Source |-> s = Server]
  /\ mWriteEof = [c \in Conn |-> FALSE]
  /\ taken = [c \in Conn |-> 0] /\ ends = [c \in Conn |-> FALSE]
  /\ pc = "wait" /\ events = <<>> /\ running = Nobody
  /\ writing = NoWriting

\* A source is in the events of a cycle once.
Fetched(s) == \E i \in DOMAIN events : events[i].source = s

\* epoll_wait() takes sources from its list, forgets their edges and returns
\* those that are still ready; meanwhile more may come.
EpollFetch ==
  /\ pc = "wait" /\ ready # <<>> /\ Len(events) < MaxEvents
  /\ ~Fetched(Head(ready))
  /\ ready' = Tail(ready)
  /\ events' = LET s == Head(ready)
               IN  IF CanRead(s) \/ CanWrite(s)
                     THEN Append(events, [source |-> s, read |-> CanRead(s)])
                     ELSE events
  /\ UNCHANGED <<net, source, registered, pc, running, writing>>

EpollWait ==
  /\ pc = "wait" /\ events # <<>>
  /\ ready # <<>> => Len(events) = MaxEvents \/ Fetched(Head(ready))
  /\ pc' = "batch"
  /\ UNCHANGED <<net, epoll, source, events, running, writing>>

Ready(s) ==
  /\ pc = "batch" /\ running = Nobody
  /\ events # <<>> /\ Head(events).source = s
  /\ events' = Tail(events)

\* ReceiverSource::handleReady(): one read(); nothing is done if it can write.
HandleRead(c) ==
  LET size == IF unread[c] < ReadRoom THEN unread[c] ELSE ReadRoom
  IN  /\ Ready(c) /\ Head(events).read
      /\ unread' = [unread EXCEPT ![c] = @ - size]
      /\ IF size = 0
           THEN /\ ends' = [ends EXCEPT ![c] = TRUE]
                /\ mWriteEof' = [mWriteEof EXCEPT ![c] = @ \/ ending[c] = "reset"]
                /\ ending' = [ending EXCEPT ![c] = "end"]
           ELSE UNCHANGED <<ends, mWriteEof, ending>>
      /\ running' = c
      /\ UNCHANGED <<phase, mEnabled, mDispatched, mWriteBuffer, taken, pc, writing, epoll,
                     queue, arrived, space, wire>>

HandleWritable(c) ==
  /\ Ready(c) /\ ~Head(events).read
  /\ UNCHANGED <<net, epoll, source, pc, running, writing>>

\* TcpServer::handleReady()
HandleServer ==
  /\ Ready(Server)
  /\ pc' = "accept"
  /\ UNCHANGED <<net, epoll, source, running, writing>>

\* A slip: if for while, one connection for each event.
AcceptOnce(c) ==
  /\ pc = "accept" /\ running = Nobody /\ queue # <<>> /\ c = Head(queue)
  /\ queue' = Tail(queue)
  /\ phase' = [phase EXCEPT ![c] = "open"]
  /\ manageDispatching(c, TRUE)
  /\ running' = c /\ pc' = "batch"
  /\ UNCHANGED <<unread, ending, arrived, space, wire, mEnabled, mWriteEof,
                 mWriteBuffer, taken, ends, events, writing>>

\* One turn of its loop: accept(), and the factory makes a connection of it.
Accept(c) ==
  /\ pc = "accept" /\ running = Nobody /\ queue # <<>> /\ c = Head(queue)
  /\ queue' = Tail(queue)
  /\ phase' = [phase EXCEPT ![c] = "open"]
  /\ manageDispatching(c, TRUE)
  /\ running' = c
  /\ UNCHANGED <<unread, ending, arrived, space, wire, mEnabled, mWriteEof,
                 mWriteBuffer, taken, ends, pc, events, writing>>

\* The factory method returns 0.
Reject(c) ==
  /\ pc = "accept" /\ running = Nobody /\ queue # <<>> /\ c = Head(queue)
  /\ queue' = Tail(queue)
  /\ phase' = [phase EXCEPT ![c] = "closed"]
  /\ UNCHANGED <<unread, ending, arrived, space, wire, epoll, mEnabled, mDispatched,
                 mWriteEof, mWriteBuffer, taken, ends, loop>>

AcceptedAll ==
  /\ pc = "accept" /\ running = Nobody /\ queue = <<>>
  /\ pc' = "batch"
  /\ UNCHANGED <<net, epoll, source, events, running, writing>>

EventsHandled ==
  /\ pc = "batch" /\ running = Nobody /\ events = <<>>
  /\ pc' = "wait"
  /\ UNCHANGED <<net, epoll, source, events, running, writing>>

-----------------------------------------------------------------------------
(* The application, called by a source *)

\* Its code runs, and is not in a call that has not returned.
Runs == running # Nobody /\ writing = NoWriting

Send(c, n, isBuffer) ==
  /\ Runs /\ phase[c] = "open"
  /\ taken[c] + n <= MaxOut
  /\ receive(c, Numbered(taken[c], taken[c] + n), isBuffer)
  /\ UNCHANGED <<net, epoll, phase, mEnabled, mDispatched, mWriteEof, ends,
                 pc, events, running>>

\* ReceiverSource::receiveEnd(): what feeds the connection has ended.
SendEnd(c) ==
  /\ Runs /\ phase[c] = "open"
  /\ mWriteEof' = [mWriteEof EXCEPT ![c] = TRUE]
  /\ UNCHANGED <<net, epoll, phase, mEnabled, mDispatched, mWriteBuffer, taken, ends, loop>>

setEnabled(s, enabled) ==
  /\ Runs /\ s \in {Server} \cup {c \in Conn : phase[c] = "open"}
  /\ mEnabled' = [mEnabled EXCEPT ![s] = enabled]
  /\ manageDispatching(s, enabled)
  /\ UNCHANGED <<net, phase, mWriteEof, mWriteBuffer, taken, ends, loop>>

\* A source that was fetched in this cycle and is closed before its turn
\* would read() from the descriptor -1, and abort.
MayClose(c) == ~Fetched(c)

close(c) ==
  /\ Runs /\ phase[c] = "open" /\ MayClose(c)
  /\ CloseFd(c)
  /\ UNCHANGED <<queue, arrived, space, wire, mEnabled, mWriteEof, mWriteBuffer, taken, ends, loop>>

Return ==
  /\ Runs
  /\ running' = Nobody
  /\ UNCHANGED <<net, epoll, source, pc, events, writing>>

-----------------------------------------------------------------------------
(* The peers *)

Connect(c) ==
  /\ phase[c] = "none"
  /\ phase' = [phase EXCEPT ![c] = "queued"]
  /\ queue' = Append(queue, c)
  /\ ready' = Edge(Server)
  /\ UNCHANGED <<unread, ending, arrived, space, wire, registered, mEnabled,
                 mDispatched, mWriteEof, mWriteBuffer, taken, ends, loop>>

\* handleReady() reads once: what one read() leaves waits for an edge that
\* need not come.  So peers wait until what they sent is read.
MayArrive(c, n) == Bursty \/ unread[c] + n <= ReadRoom
MayEnd(c) == Bursty \/ unread[c] = 0

PeerSend(c, n) ==
  /\ phase[c] \in {"queued", "open"} /\ ending[c] = "no"
  /\ arrived[c] + n <= MaxIn /\ MayArrive(c, n)
  /\ arrived' = [arrived EXCEPT ![c] = @ + n]
  /\ unread' = [unread EXCEPT ![c] = @ + n]
  /\ ready' = Edge(c)
  /\ UNCHANGED <<queue, ending, space, wire, registered, source, loop>>

PeerEnd(c, how) ==
  /\ phase[c] \in {"queued", "open"} /\ ending[c] = "no" /\ MayEnd(c)
  /\ ending' = [ending EXCEPT ![c] = how]
  /\ ready' = Edge(c)
  /\ UNCHANGED <<queue, unread, arrived, space, wire, registered, source, loop>>

\* The peer reads; the socket reports it if a write() was refused.
PeerRead(c) ==
  /\ phase[c] = "open" /\ space[c] < Space
  /\ space' = [space EXCEPT ![c] = Space]
  /\ ready' = IF space[c] = 0 THEN Edge(c) ELSE ready
  /\ UNCHANGED <<queue, unread, ending, arrived, wire, registered, source, loop>>

-----------------------------------------------------------------------------
(* The specification *)

Thread ==
  \/ EpollFetch \/ EpollWait \/ HandleServer \/ AcceptedAll \/ EventsHandled \/ Return
  \/ \E c \in Conn : HandleRead(c) \/ HandleWritable(c) \/ Accept(c) \/ Reject(c)
  \/ \E c \in Written :
       \/ \E size \in 1..MaxOut : Write(c, size)
       \/ WriteWouldBlock(c) \/ WriteFails(c)

Application ==
  \/ \E c \in Written, n \in 1..MaxOut, isBuffer \in BOOLEAN : Send(c, n, isBuffer)
  \/ \E c \in Written : SendEnd(c)
  \/ \E c \in Conn : close(c)
  \/ \E s \in Switched, enabled \in BOOLEAN : setEnabled(s, enabled)

Peers ==
  \/ \E c \in Conn : Connect(c) \/ PeerRead(c)
  \/ \E c \in Conn, n \in 1..MaxIn : PeerSend(c, n)
  \/ \E c \in Conn, how \in {"end", "reset"} : PeerEnd(c, how)

Next == Thread \/ Application \/ Peers

Spec == Init /\ [][Next]_vars

\* The thread runs and the code it calls returns.
FairSpec == Spec /\ WF_vars(Thread)

-----------------------------------------------------------------------------
(* Properties *)

Waiting(s) ==
  IF s = Server THEN queue # <<>>
  ELSE phase[s] = "open" /\ (unread[s] > 0 \/ (ending[s] # "no" /\ ~ends[s]))

\* What waits at an enabled source - connections at the server, bytes or the
\* end at a connection - has an edge that is still to be told, or was told
\* and is still to be handled.  Otherwise edge-triggered epoll would let the
\* thread sleep over it (dispatcher.cpp:204, receiversource.cpp:35).
NoneOverslept ==
  \A s \in Source : Waiting(s) /\ mEnabled[s] =>
    \/ s \in S!ToSet(ready)
    \/ \E i \in DOMAIN events : events[i].source = s /\ (s = Server \/ events[i].read)
    \/ s = Server /\ pc = "accept"

\* What the socket has taken, followed by what the write buffer holds, begins
\* with all that receive() accepted, in order, however write() cut it.  Only
\* what is being written goes beyond that, and what was refused after a part
\* of it was written, which nothing follows (receiversource.cpp:80-149).
OutputInOrder ==
  \A c \in Conn :
    LET out == wire[c] \o mWriteBuffer[c]
    IN  /\ out = Numbered(0, Len(out))
        /\ taken[c] <= Len(out)
        /\ taken[c] < Len(out) =>
             writing.conn = c \/ (mWriteEof[c] /\ mWriteBuffer[c] = <<>>)

\* Every connection that a peer opens is accepted or refused, unless the
\* server is disabled for good (tcpserver.cpp:64).
EventuallyAccepted ==
  \A c \in Conn : phase[c] = "queued" ~> phase[c] # "queued" \/ ~mEnabled[Server]

\* Bytes and ends that arrive at a connection reach its receiver, also if they
\* came before it was accepted or while it was disabled
\* (receiversource.cpp:35, source.cpp:29).
EventuallyReceived ==
  \A c \in Conn :
    phase[c] = "open" /\ Waiting(c) ~> ~Waiting(c) \/ ~mEnabled[c]

\* Nothing that peers do waits for ever, although each readiness is told once.
EventuallyTold == EventuallyAccepted /\ EventuallyReceived
=============================================================================

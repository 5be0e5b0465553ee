-------------------------------- MODULE Hbdp --------------------------------
(***************************************************************************)
(* HBDP, the HTTP Bidirectional Protocol: net/hbdpserver.*,                *)
(* hbdpconnection.*.  A client opens a connection with a GET and posts     *)
(* numbered requests to it; the newest one is held until there is output.  *)
(* The requests come on HTTP connections of their own, so that they arrive *)
(* in any order and more than once, and their calls interleave; each gets  *)
(* its calls in the order that Http keeps: made, data, then the end or an  *)
(* abort.  A request's body is its serial number, at most once.            *)
(***************************************************************************)
EXTENDS Integers, Sequences

CONSTANTS MaxConnections, \* bound: connections ever made
          MaxSerial,      \* bound: serial numbers
          MaxRequests,    \* bound: requests to connections
          MaxOut,         \* bound: bytes the application sends on one
          SIZE16,         \* 65536 in the code: one more than a Size16 holds
          Liberties       \* rules that clients and the application do not keep

ASSUME HbdpAssumption ==
  /\ {MaxConnections, MaxSerial, MaxRequests, MaxOut} \subseteq Nat
  /\ SIZE16 \in Nat \ {0} /\ Liberties \subseteq {"overlap", "delete", "flood"}

S == INSTANCE SequencesExt

VARIABLES
  milliseconds,  \* the dispatcher's clock,
  mConnections,  \* the server's list, which is in the order of their making
  made,          \* connections ever made
  mId, mSerialNumber, mHbdpRequest, mOut, mEndReceived,
  requests,      \* [on, serial, state]: on is the connection, or 0 (as is
                 \* serial) for a SimpleHttpRequest
  mData,         \* the reply's data, of each request
  answered,      \* sendEnd() was called for them
  got,           \* what the connection's receiver received,
  sent           \* and how many units it sent

connection == <<mId, mSerialNumber, mHbdpRequest, mOut, mEndReceived>>
server == <<milliseconds, mConnections, made>>
http == <<requests, mData, answered>>
application == <<got, sent>>
vars == <<server, connection, http, application>>

Connection == 1..MaxConnections

Init ==
  /\ milliseconds = 0 /\ mConnections = {} /\ made = 0
  /\ mId = [c \in Connection |-> 0] /\ mSerialNumber = [c \in Connection |-> 0]
  /\ mHbdpRequest = [c \in Connection |-> 0] /\ mOut = [c \in Connection |-> <<>>]
  /\ mEndReceived = [c \in Connection |-> FALSE]
  /\ requests = <<>> /\ mData = <<>> /\ answered = {}
  /\ got = [c \in Connection |-> <<>>] /\ sent = [c \in Connection |-> 0]

-----------------------------------------------------------------------------
(* HbdpServer *)

\* GET: the reply tells the client the id, which is the time.
Create ==
  /\ made < MaxConnections
  /\ made' = made + 1
  /\ mId' = [mId EXCEPT ![made'] = milliseconds]
  /\ mConnections' = mConnections \cup {made'}
  /\ UNCHANGED <<milliseconds, mSerialNumber, mHbdpRequest, mOut, mEndReceived,
                 http, application>>

Tick ==
  /\ milliseconds < MaxConnections
  /\ milliseconds' = milliseconds + 1
  /\ UNCHANGED <<mConnections, made, connection, http, application>>

\* The connection a URI names: the first of that id, if there is one.
Named(id) ==
  {c \in mConnections :
     mId[c] = id /\ \A d \in mConnections : mId[d] = id => c <= d}

-----------------------------------------------------------------------------
(* HbdpConnection *)

\* A new HTTP request, which belongs to connection c or, for 0, to none.
Request(c, serial) ==
  /\ Len(requests) < MaxRequests
  /\ requests' = Append(requests, [on |-> c, serial |-> serial, state |-> "receiving"])
  /\ mData' = Append(mData, <<>>)

\* endRequest(), of what is held.
endRequest(c) == answered' = answered \cup ({mHbdpRequest[c]} \ {0})

\* The connection takes what comes for mHbdpRequest, whichever request it
\* comes from: a client ends the body of a request before it begins the next.
MayAccept(c) ==
  "overlap" \in Liberties
    \/ \A r \in DOMAIN requests : requests[r].on = c => requests[r].state # "receiving"

\* 404 Not Found, and 410 Gone for a request that comes too early or again.
Refuse(id, serial) ==
  /\ \A c \in Named(id) : mSerialNumber[c] # serial
  /\ Request(0, 0)
  /\ UNCHANGED <<server, connection, answered, application>>

\* A slip: mSerialNumber is not counted up.
AcceptAgain(c, serial) ==
  /\ mSerialNumber[c] = serial /\ serial < MaxSerial /\ MayAccept(c)
  /\ Request(c, serial)
  /\ endRequest(c)
  /\ mHbdpRequest' = [mHbdpRequest EXCEPT ![c] = Len(requests')]
  /\ mEndReceived' = [mEndReceived EXCEPT ![c] = FALSE]
  /\ UNCHANGED <<server, mId, mSerialNumber, mOut, application>>

\* A slip: the held request is not ended.
AcceptOver(c, serial) ==
  /\ mSerialNumber[c] = serial /\ serial < MaxSerial /\ MayAccept(c)
  /\ Request(c, serial)
  /\ mSerialNumber' = [mSerialNumber EXCEPT ![c] = @ + 1]
  /\ mHbdpRequest' = [mHbdpRequest EXCEPT ![c] = Len(requests')]
  /\ mEndReceived' = [mEndReceived EXCEPT ![c] = FALSE]
  /\ UNCHANGED <<server, mId, mOut, answered, application>>

\* POST
Accept(c, serial) ==
  /\ mSerialNumber[c] = serial /\ serial < MaxSerial /\ MayAccept(c)
  /\ Request(c, serial)
  /\ mSerialNumber' = [mSerialNumber EXCEPT ![c] = @ + 1]
  /\ endRequest(c)
  /\ mHbdpRequest' = [mHbdpRequest EXCEPT ![c] = Len(requests')]
  /\ mEndReceived' = [mEndReceived EXCEPT ![c] = FALSE]
  /\ UNCHANGED <<server, mId, mOut, application>>

\* DELETE with a wrong number is refused, and the connection deleted all the
\* same, with a request that is held.
MayDelete(c, serial) ==
  "delete" \in Liberties \/ mSerialNumber[c] = serial \/ mHbdpRequest[c] = 0

Delete(c, serial) ==
  /\ MayAccept(c) /\ MayDelete(c, serial)
  /\ Request(0, 0)
  /\ IF mSerialNumber[c] = serial
       THEN /\ endRequest(c)
            /\ mSerialNumber' = [mSerialNumber EXCEPT ![c] = @ + 1]
            /\ mHbdpRequest' = [mHbdpRequest EXCEPT ![c] = 0]
       ELSE UNCHANGED <<answered, mSerialNumber, mHbdpRequest>>
  /\ mConnections' = mConnections \ {c}
  /\ UNCHANGED <<milliseconds, made, mId, mOut, mEndReceived, application>>

-----------------------------------------------------------------------------
(* HbdpRequest, called by its HTTP connection *)

Calls(r, state) ==
  /\ requests[r].state = "receiving"
  /\ requests' = [requests EXCEPT ![r].state = state]

\* receiveData(): passed on at once.
receiveData(r) ==
  LET c == requests[r].on
  IN  /\ c # 0 /\ requests[r].state = "receiving"
      /\ requests[r].serial \notin S!ToSet(got[c])
      /\ got' = [got EXCEPT ![c] = Append(@, requests[r].serial)]
      /\ UNCHANGED <<server, connection, http, sent>>

\* A slip: mOut is sent and kept.
FlushedKeeping(c) ==
  /\ mData' = [mData EXCEPT ![mHbdpRequest[c]] = @ \o mOut[c]]
  /\ UNCHANGED mOut

\* All of mOut is sent.  poppedAll() passes its length as a Size16 and pops as
\* many bytes as are left of it.
Flushed(c) ==
  /\ mData' = [mData EXCEPT ![mHbdpRequest[c]] = @ \o mOut[c]]
  /\ mOut' = [mOut EXCEPT ![c] = SubSeq(@, (Len(@) % SIZE16) + 1, Len(@))]

\* receiveEnd(), handleEnd()
receiveEnd(r) ==
  LET c == requests[r].on
  IN  /\ c # 0 /\ Calls(r, "ended")
      /\ mEndReceived' = [mEndReceived EXCEPT ![c] = TRUE]
      /\ IF mOut[c] # <<>>
           THEN /\ Flushed(c)
                /\ endRequest(c)
                /\ mHbdpRequest' = [mHbdpRequest EXCEPT ![c] = 0]
           ELSE UNCHANGED <<mData, mOut, answered, mHbdpRequest>>
      /\ UNCHANGED <<server, mId, mSerialNumber, application>>

\* receiveAbort(): the request stays the one that will be answered.
receiveAbort(r) ==
  /\ requests[r].on # 0 /\ Calls(r, "aborted")
  /\ UNCHANGED <<server, connection, mData, answered, application>>

\* SimpleHttpRequest::receiveEnd() and receiveAbort()
SimpleEnd(r, state) ==
  /\ requests[r].on = 0 /\ Calls(r, state)
  /\ answered' = IF state = "ended" THEN answered \cup {r} ELSE answered
  /\ UNCHANGED <<server, connection, mData, application>>

-----------------------------------------------------------------------------
(* The application *)

\* A slip: it does not matter whether the request has ended.
HoldsAny(c) == mHbdpRequest[c] # 0

\* There is a request that can be answered.
Holds(c) == mHbdpRequest[c] # 0 /\ mEndReceived[c]

\* An application lets no more output wait than poppedAll() can count: of more
\* the client gets some twice (hbdpconnection.cpp:74, readbuffer.h:171).
MayWait(c) == "flood" \in Liberties \/ Len(mOut[c]) + 1 < SIZE16

\* receive(const String *) and receive(Buffer *)
receive(c) ==
  LET unit == sent[c] + 1
  IN  /\ c \in mConnections /\ sent[c] < MaxOut
      /\ sent' = [sent EXCEPT ![c] = unit]
      /\ IF Holds(c)
           THEN /\ mData' = [mData EXCEPT ![mHbdpRequest[c]] = Append(@, unit)]
                /\ endRequest(c)
                /\ mHbdpRequest' = [mHbdpRequest EXCEPT ![c] = 0]
                /\ UNCHANGED mOut
           ELSE /\ MayWait(c)
                /\ mOut' = [mOut EXCEPT ![c] = Append(@, unit)]
                /\ UNCHANGED <<mData, answered, mHbdpRequest>>
      /\ UNCHANGED <<server, mId, mSerialNumber, mEndReceived, requests, got>>

-----------------------------------------------------------------------------
(* The specification *)

Next ==
  \/ Create \/ Tick
  \/ \E id \in 0..MaxConnections, serial \in 0..MaxSerial :
       \/ Refuse(id, serial)
       \/ \E c \in Named(id) : Accept(c, serial) \/ Delete(c, serial)
  \/ \E r \in 1..Len(requests) :
       \/ receiveData(r) \/ receiveEnd(r) \/ receiveAbort(r)
       \/ \E state \in {"ended", "aborted"} : SimpleEnd(r, state)
  \/ \E c \in Connection : receive(c)

Spec == Init /\ [][Next]_vars

-----------------------------------------------------------------------------
(* Properties *)

\* Of two requests of a connection, the one with the lower serial number.
Precedes(r, q) ==
  requests[r].on = requests[q].on /\ requests[r].serial < requests[q].serial

Ascending(units) == \A k, l \in DOMAIN units : k < l => units[k] < units[l]
Before(units, others) ==
  \A k \in DOMAIN units, l \in DOMAIN others : units[k] < others[l]

\* Output is neither lost nor doubled nor reordered by the server: the replies
\* of a connection, in the order of their serial numbers, and what waits in
\* mOut are what the application sent (hbdpconnection.cpp:69, 95-119), if it
\* keeps the rule "flood".
OutputOnceInOrder ==
  \A c \in 1..made :
    LET replies == {r \in DOMAIN requests : requests[r].on = c}
    IN  /\ Ascending(mOut[c]) /\ \A r \in replies : Ascending(mData[r])
        /\ \A r \in replies : Before(mData[r], mOut[c])
        /\ \A r, q \in replies : Precedes(r, q) => Before(mData[r], mData[q])
        /\ S!ToSet(mOut[c]) \cup UNION {S!ToSet(mData[r]) : r \in replies} = 1..sent[c]

\* However requests arrive - early, late, again - the receiver gets the bodies
\* of a connection in the order of their serial numbers, each at most once,
\* and no serial number is accepted twice (hbdpconnection.cpp:51).
InputOnceInOrder ==
  /\ \A c \in 1..made : Ascending(got[c])
  /\ \A r, q \in DOMAIN requests :
       r < q /\ requests[r].on = requests[q].on /\ requests[r].on # 0 => Precedes(r, q)

\* No request of a client is forgotten: each was answered, or is the newest of
\* its connection; and that is held only if it has not ended or there is no
\* output for it (hbdpconnection.cpp:57, 72).
NoneForgotten ==
  \A r \in DOMAIN requests :
    LET c == requests[r].on
    IN  c # 0 /\ r \notin answered =>
          /\ c \in mConnections /\ r = mHbdpRequest[c]
          /\ requests[r].state = "ended" => mOut[c] = <<>>

\* What is answered was received to its end or broken off: output that comes
\* while a request is still coming waits, and neither it nor the next request
\* ends that one (hbdpconnection.cpp:57, 97, 110).
AnsweredWhenEnded ==
  \A r \in answered : requests[r].state # "receiving"
=============================================================================

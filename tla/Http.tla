-------------------------------- MODULE Http --------------------------------
(***************************************************************************)
(* An HttpConnection, the HttpRequests it makes, and their replies:        *)
(* net/httpconnection.*, httprequest.*, httpserver.*.  The input arrives   *)
(* in any pieces; receive() calls process() as long as that finds          *)
(* something, and each call of process() is a step.                        *)
(* A word of the protocol is one character here: the parser never looks    *)
(* into it, and what follows it may come in another piece.  mInputBuffer   *)
(* is its characters, its iterator an offset; block boundaries matter only *)
(* under the iterator and are kept as `stuck'.                             *)
(***************************************************************************)
EXTENDS Integers, Sequences

CONSTANTS Requests,    \* what the peer may ask
          MaxRequests, \* bound: requests it asks
          MaxData,     \* bound: units of data in a reply
          Liberties    \* rules that callers do not keep

S == INSTANCE SequencesExt

Header == {<<"Content-Length", "0">>, <<"Content-Length", "1">>, <<"Content-Length", "2">>,
           <<"Connection", "Keep-Alive">>, <<"Connection", "close">>}

ASSUME HttpAssumption ==
  /\ \A r \in Requests :
       /\ {r.method, r.uri, r.version} \subseteq STRING
       /\ r.headers \in Seq(Header) /\ r.body \in Seq(STRING)
  /\ MaxRequests \in Nat /\ MaxData \in Nat
  /\ Liberties \subseteq {"cut", "pipeline", "error"}

VARIABLES
  asked,         \* the requests of the peer
  toSend,        \* what it still has to send of them
  garbled,       \* it left out a character of the last one
  ended,         \* it has closed its side
  input,         \* mInputBuffer
  scanned,       \* mInputBufferIterator: its offset,
  stuck,         \* and whether it is at the end of a block that is not the last
  mState,
  mMethod, mUri, \* also the key and the value of a header
  mKeepAlive,
  mHttpRequest,  \* the request being received, 0 for none
  mDataLeft,
  receiving,     \* receive() is in its loop
  failed,        \* it has returned false
  handed,        \* the calls made to the application and its requests
  live,          \* the requests that exist
  held,          \* those of the application, which reply when they like
  mStatusSent, mData,
  wire           \* what the replies wrote

peer == <<asked, toSend, garbled, ended>>
buffer == <<input, scanned, stuck>>
parser == <<mState, mMethod, mUri, mKeepAlive, mHttpRequest, mDataLeft, receiving, failed>>
replies == <<held, mStatusSent, mData, wire>>
vars == <<peer, buffer, parser, handed, live, replies>>

-----------------------------------------------------------------------------
(* What the peer sends, and what the application should get of it *)

Line(h) == <<h[1], ":", " ", h[2], "\r", "\n">>

Lines == [r \in Requests |->
  <<r.method, " ", r.uri, " ", r.version, "\r", "\n">>
    \o S!FlattenSeq([i \in DOMAIN r.headers |-> Line(r.headers[i])])
    \o <<"\r", "\n">>]

\* Each separator but the one that ends the headers can be left out.
Omissible == [r \in Requests |->
  {i \in DOMAIN Lines[r] : Lines[r][i] \in {" ", ":", "\r", "\n"}} \ {Len(Lines[r]) - 1}]

Calls == [r \in Requests |->
  <<<<"new", <<r.method>>, <<r.uri>>, <<r.version>>>>>>
    \o [i \in DOMAIN r.headers |-> <<"header", <<r.headers[i][1]>>, <<r.headers[i][2]>>>>]
    \o [i \in DOMAIN r.body |-> <<"data", r.body[i]>>]
    \o <<<<"end">>>>]

Keeps(r) ==
  r.version = "HTTP/1.1" \/ \E i \in DOMAIN r.headers : r.headers[i] = <<"Connection", "Keep-Alive">>

\* Where process() takes it that there is a request.
InRequest == {"REQUEST_LINE_EOL", "PRE_KEY", "KEY", "PRE_VALUE", "VALUE",
              "HEADER_EOL", "HEADERS_END_EOL", "DATA"}

-----------------------------------------------------------------------------
(* The parts of process() *)

Init ==
  /\ asked = <<>> /\ toSend = <<>> /\ garbled = FALSE /\ ended = FALSE
  /\ input = <<>> /\ scanned = 0 /\ stuck = FALSE
  /\ mState = "PRE_METHOD" /\ mMethod = <<>> /\ mUri = <<>> /\ mKeepAlive = FALSE
  /\ mHttpRequest = 0 /\ mDataLeft = 0 /\ receiving = FALSE /\ failed = FALSE
  /\ handed = <<>> /\ live = {}
  /\ held = {} /\ mStatusSent = {} /\ mData = <<>> /\ wire = <<>>

\* eatSpaces() would pop as many.
Spaces ==
  CHOOSE n \in 0..Len(input) :
    /\ \A j \in 1..n : input[j] = " "
    /\ n = Len(input) \/ input[n + 1] # " "

\* A slip: process() called once for each piece.
FoundOnce(n) == receiving' = FALSE /\ UNCHANGED failed

\* The loop of receive() goes on.
Found(n) == receiving' = (n < Len(input)) /\ UNCHANGED failed

NotFound == receiving' = FALSE /\ UNCHANGED failed

\* close() deletes the request and keeps the pointer to it.
Close == live' = live \ {mHttpRequest}

Error ==
  /\ receiving' = FALSE /\ failed' = TRUE
  /\ mKeepAlive' = FALSE
  /\ Close
  /\ UNCHANGED <<mMethod, mUri, mHttpRequest, mDataLeft, handed, held>>

\* pop() and popped(): the iterator falls back to the start of the buffer.
Popped(n) ==
  input' = SubSeq(input, n + 1, Len(input)) /\ scanned' = 0 /\ stuck' = FALSE

\* process() found what it looked for in the first n characters.
PopFound(n) == Popped(n) /\ Found(n)

\* The states that look for a word: `pre' eats the spaces before it, then
\* locateChar() looks for the character that ends it.
Skipped(pre) == IF mState = pre THEN Spaces ELSE 0

Ends(pre, state, terminators) ==
  LET from == Skipped(pre) + scanned + 1
  IN  {i \in from..Len(input) :
         /\ mState \in {pre, state} /\ ~stuck
         /\ input[i] \in terminators
         /\ \A j \in from..(i - 1) : input[j] \notin terminators}

Text(pre, i) == SubSeq(input, Skipped(pre) + 1, i - 1)

\* No word yet: nothing but spaces, or no end of it.
Incomplete(pre, state, terminators) ==
  /\ mState \in {pre, state}
  /\ Ends(pre, state, terminators) = {}
  /\ mState' = IF mState = pre /\ Spaces = Len(input) THEN pre ELSE state
  /\ input' = SubSeq(input, Skipped(pre) + 1, Len(input))
  /\ scanned' = IF stuck THEN scanned ELSE Len(input) - Skipped(pre)
  /\ NotFound
  /\ UNCHANGED <<stuck, mMethod, mUri, mKeepAlive, mHttpRequest, mDataLeft,
                 handed, live, held>>

Malformed(pre, state, terminators, fail) ==
  \E i \in Ends(pre, state, terminators) :
    /\ input[i] = fail
    /\ mState' = state
    /\ input' = SubSeq(input, Skipped(pre) + 1, Len(input))
    /\ scanned' = i - Skipped(pre) - 1
    /\ UNCHANGED stuck
    /\ Error

-----------------------------------------------------------------------------
(* process(), by the value of mState *)

Method ==
  \E i \in Ends("PRE_METHOD", "METHOD", {" ", "\r"}) :
    /\ input[i] = " "
    /\ PopFound(i)
    /\ mMethod' = Text("PRE_METHOD", i)
    /\ mState' = "PRE_URI"
    /\ UNCHANGED <<mUri, mKeepAlive, mHttpRequest, mDataLeft, handed, live, held>>

Uri ==
  \E i \in Ends("PRE_URI", "URI", {" ", "\r"}) :
    /\ input[i] = " "
    /\ PopFound(i)
    /\ mUri' = Text("PRE_URI", i)
    /\ mState' = "PRE_VERSION"
    /\ UNCHANGED <<mMethod, mKeepAlive, mHttpRequest, mDataLeft, handed, live, held>>

Versions == {<<"HTTP/1.0">>, <<"HTTP/1.1">>}

\* HttpServer::instantiateHttpRequest(): the application makes a request, or
\* returns 0 and gets a SimpleHttpRequest that says 501.
Version(own) ==
  \E i \in Ends("PRE_VERSION", "VERSION", {" ", "\r"}) :
    /\ input[i] = "\r" /\ Text("PRE_VERSION", i) \in Versions
    /\ PopFound(i)
    /\ mKeepAlive' = (Text("PRE_VERSION", i) = <<"HTTP/1.1">>)
    /\ mHttpRequest' = Len(mData) + 1
    /\ live' = live \cup {Len(mData) + 1}
    /\ held' = IF own THEN held \cup {Len(mData) + 1} ELSE held
    /\ mDataLeft' = 0
    /\ handed' = Append(handed, <<"new", mMethod, mUri, Text("PRE_VERSION", i)>>)
    /\ mState' = "REQUEST_LINE_EOL"
    /\ UNCHANGED <<mMethod, mUri>>

UnknownVersion ==
  \E i \in Ends("PRE_VERSION", "VERSION", {" ", "\r"}) :
    /\ input[i] = "\r" /\ Text("PRE_VERSION", i) \notin Versions
    /\ Popped(i)
    /\ mState' = "VERSION"
    /\ Error

EndOfLine(state) ==
  /\ mState = state /\ input[1] = "\n"
  /\ PopFound(1)
  /\ mState' = "PRE_KEY"
  /\ UNCHANGED <<mMethod, mUri, mKeepAlive, mHttpRequest, mDataLeft, handed, live, held>>

NoEndOfLine(state) ==
  /\ mState = state /\ input[1] # "\n"
  /\ Popped(1)
  /\ UNCHANGED mState
  /\ Error

LastHeader == mState = "PRE_KEY" /\ Spaces < Len(input) /\ input[Spaces + 1] = "\r"

HeadersEnd ==
  /\ LastHeader
  /\ PopFound(Spaces + 1)
  /\ mState' = "HEADERS_END_EOL"
  /\ UNCHANGED <<mMethod, mUri, mKeepAlive, mHttpRequest, mDataLeft, handed, live, held>>

Key ==
  \E i \in Ends("PRE_KEY", "KEY", {":", "\r"}) :
    /\ ~LastHeader /\ input[i] = ":"
    /\ PopFound(i)
    /\ mMethod' = Text("PRE_KEY", i)
    /\ mState' = "PRE_VALUE"
    /\ UNCHANGED <<mUri, mKeepAlive, mHttpRequest, mDataLeft, handed, live, held>>

\* atoi(), which makes 0 of what is no number.
Number(text) ==
  CASE text = <<"1">> -> 1 [] text = <<"2">> -> 2 [] OTHER -> 0

\* handleHeader(), and receiveHeader()
Value ==
  \E i \in Ends("PRE_VALUE", "VALUE", {"\r", "\n"}) :
    LET value == Text("PRE_VALUE", i)
    IN  /\ input[i] = "\r"
        /\ PopFound(i)
        /\ mUri' = value
        /\ mDataLeft' = IF mMethod = <<"Content-Length">> THEN Number(value) ELSE mDataLeft
        /\ mKeepAlive' = (mKeepAlive \/ (mMethod = <<"Connection">> /\ value = <<"Keep-Alive">>))
        /\ handed' = Append(handed, <<"header", mMethod, value>>)
        /\ mState' = "HEADER_EOL"
        /\ UNCHANGED <<mMethod, mHttpRequest, live, held>>

\* A slip: mStatusSent not looked at.
ReplyAgain(i, data) ==
  <<[of |-> i, part |-> "status", size |-> 0], [of |-> i, part |-> "length", size |-> data],
    [of |-> i, part |-> "data", size |-> data]>>

Reply(i, data) ==
  (IF i \in mStatusSent THEN <<>> ELSE <<[of |-> i, part |-> "status", size |-> 0]>>)
    \o <<[of |-> i, part |-> "length", size |-> data], [of |-> i, part |-> "data", size |-> data]>>

\* sendStatus() and sendEnd(); the length is that of all the data.
SendReply(i, data) ==
  /\ wire' = wire \o Reply(i, data)
  /\ mStatusSent' = mStatusSent \cup {i}

\* A slip: the request is not forgotten.
RequestEndKept(calls) ==
  /\ handed' = handed \o calls \o <<<<"end">>>>
  /\ UNCHANGED mHttpRequest
  /\ receiving' = FALSE /\ UNCHANGED failed
  /\ mState' = IF mKeepAlive THEN "PRE_METHOD" ELSE mState
  /\ IF mHttpRequest \in held
       THEN UNCHANGED <<live, mStatusSent, wire>>
       ELSE live' = live \ {mHttpRequest} /\ SendReply(mHttpRequest, 0)

\* receiveEnd(): the request is forgotten; a SimpleHttpRequest replies and
\* deletes itself.
RequestEnd(calls) ==
  /\ handed' = handed \o calls \o <<<<"end">>>>
  /\ mHttpRequest' = 0
  /\ receiving' = FALSE /\ UNCHANGED failed
  /\ mState' = IF mKeepAlive THEN "PRE_METHOD" ELSE mState
  /\ IF mHttpRequest \in held
       THEN UNCHANGED <<live, mStatusSent, wire>>
       ELSE live' = live \ {mHttpRequest} /\ SendReply(mHttpRequest, 0)

NoData ==
  /\ mState = "HEADERS_END_EOL" /\ input[1] = "\n" /\ mDataLeft = 0
  /\ Popped(1)
  /\ RequestEnd(<<>>)
  /\ UNCHANGED <<mMethod, mUri, mKeepAlive, mDataLeft, held, mData>>

DataFollows ==
  /\ mState = "HEADERS_END_EOL" /\ input[1] = "\n" /\ mDataLeft > 0
  /\ PopFound(1)
  /\ mState' = "DATA"
  /\ UNCHANGED <<mMethod, mUri, mKeepAlive, mHttpRequest, mDataLeft, handed, live, replies>>

\* receiveData(), called once for all the data of a piece, is recorded for
\* each unit of it.
Taken(n) == [i \in 1..n |-> <<"data", input[i]>>]


Consume(n) ==
  /\ Popped(n)
  /\ mDataLeft' = mDataLeft - n

Data ==
  /\ mState = "DATA" /\ Len(input) < mDataLeft
  /\ Consume(Len(input))
  /\ handed' = handed \o Taken(Len(input))
  /\ NotFound
  /\ UNCHANGED <<mState, mMethod, mUri, mKeepAlive, mHttpRequest, live, replies>>

LastData ==
  /\ mState = "DATA" /\ Len(input) >= mDataLeft
  /\ Consume(mDataLeft)
  /\ RequestEnd(Taken(mDataLeft))
  /\ UNCHANGED <<mMethod, mUri, mKeepAlive, held, mData>>

Tokens ==
  \/ Method \/ Uri \/ UnknownVersion \/ Key \/ Value \/ HeadersEnd
  \/ Incomplete("PRE_METHOD", "METHOD", {" ", "\r"})
  \/ Incomplete("PRE_URI", "URI", {" ", "\r"})
  \/ Incomplete("PRE_VERSION", "VERSION", {" ", "\r"})
  \/ Incomplete("PRE_KEY", "KEY", {":", "\r"}) /\ ~LastHeader
  \/ Incomplete("PRE_VALUE", "VALUE", {"\r", "\n"})
  \/ Malformed("PRE_METHOD", "METHOD", {" ", "\r"}, "\r")
  \/ Malformed("PRE_URI", "URI", {" ", "\r"}, "\r")
  \/ Malformed("PRE_VERSION", "VERSION", {" ", "\r"}, " ")
  \/ Malformed("PRE_KEY", "KEY", {":", "\r"}, "\r") /\ ~LastHeader
  \/ Malformed("PRE_VALUE", "VALUE", {"\r", "\n"}, "\n")
  \/ \E state \in {"REQUEST_LINE_EOL", "HEADER_EOL"} : EndOfLine(state)
  \/ \E state \in {"REQUEST_LINE_EOL", "HEADER_EOL", "HEADERS_END_EOL"} : NoEndOfLine(state)

process ==
  /\ receiving
  /\ \/ Tokens /\ UNCHANGED replies
     \/ \E own \in BOOLEAN :
          Version(own) /\ mData' = Append(mData, 0) /\ UNCHANGED <<mStatusSent, wire>>
     \/ NoData \/ DataFollows \/ Data \/ LastData
  /\ UNCHANGED peer

-----------------------------------------------------------------------------
(* Called by the TCP connection *)

Replied(i) == \E k \in DOMAIN wire : wire[k].of = i /\ wire[k].part = "length"

\* An iterator at the end of the last block stays there when another block
\* follows: a word must not be cut between blocks.
MayCut(fresh) == "cut" \in Liberties \/ ~(fresh /\ input # <<>> /\ scanned = Len(input))

\* close() leaves mHttpRequest on a deleted request: after an error in a
\* request that was made, nothing must come.
MayGoOn == "error" \in Liberties \/ ~(failed /\ mHttpRequest # 0)

\* Nor must input come behind a request that is not replied to, or after which
\* the connection is not kept: the peer knows of both from its side (MayAsk).
MayFollow ==
  "pipeline" \in Liberties
    \/ (mHttpRequest = 0 =>
          mState \notin InRequest /\ \A i \in 1..Len(mData) : Replied(i))

\* receive(const String *) and receive(Buffer *): the former goes on in the
\* last block if that has room, the latter begins one.
receive(n, fresh) ==
  /\ ~receiving /\ ~ended /\ n <= Len(toSend)
  /\ MayCut(fresh) /\ MayGoOn /\ MayFollow
  /\ input' = input \o SubSeq(toSend, 1, n)
  /\ toSend' = SubSeq(toSend, n + 1, Len(toSend))
  /\ stuck' = (stuck \/ (fresh /\ input # <<>> /\ scanned = Len(input)))
  /\ receiving' = TRUE
  /\ UNCHANGED <<asked, garbled, ended, scanned, mState, mMethod, mUri, mKeepAlive,
                 mHttpRequest, mDataLeft, failed, handed, live, replies>>

receiveEnd ==
  /\ ~receiving /\ ~ended /\ MayGoOn
  /\ ended' = TRUE
  /\ IF mHttpRequest # 0
       THEN handed' = Append(handed, <<"abort">>) /\ live' = live \ {mHttpRequest}
       ELSE UNCHANGED <<handed, live>>
  /\ mHttpRequest' = 0
  /\ mKeepAlive' = FALSE
  /\ UNCHANGED <<asked, toSend, garbled, buffer, mState, mMethod, mUri, mDataLeft,
                 receiving, failed, replies>>

-----------------------------------------------------------------------------
(* The application's requests *)

sendStatus(i) ==
  /\ i \in held /\ i \in live /\ ~Replied(i)
  /\ mStatusSent' = mStatusSent \cup {i}
  /\ wire' = IF i \in mStatusSent THEN wire
             ELSE Append(wire, [of |-> i, part |-> "status", size |-> 0])
  /\ UNCHANGED <<peer, buffer, parser, handed, live, held, mData>>

sendData(i) ==
  /\ i \in held /\ i \in live /\ ~Replied(i) /\ mData[i] < MaxData
  /\ mData' = [mData EXCEPT ![i] = @ + 1]
  /\ UNCHANGED <<peer, buffer, parser, handed, live, held, mStatusSent, wire>>

sendEnd(i) ==
  /\ i \in held /\ i \in live /\ ~Replied(i)
  /\ SendReply(i, mData[i])
  /\ UNCHANGED <<peer, buffer, parser, handed, live, held, mData>>

-----------------------------------------------------------------------------
(* The peer *)

\* Input that is left when a request ends is looked at when more comes, and
\* replies of held requests come late: the peer asks when it has its reply,
\* and if the connection is kept.
MayAsk ==
  \/ "pipeline" \in Liberties
  \/ asked = <<>>
  \/ toSend = <<>> /\ Replied(Len(asked)) /\ Keeps(asked[Len(asked)])

Ask(r) ==
  /\ ~ended /\ ~garbled /\ Len(asked) < MaxRequests /\ MayAsk
  /\ asked' = Append(asked, r)
  /\ toSend' = toSend \o Lines[r] \o r.body
  /\ UNCHANGED <<garbled, ended, buffer, parser, handed, live, replies>>

\* The last request of the peer lacks a separator.
AskGarbled(r, i) ==
  /\ ~ended /\ ~garbled /\ Len(asked) < MaxRequests /\ MayAsk
  /\ i \in Omissible[r]
  /\ asked' = Append(asked, r)
  /\ toSend' = toSend \o S!RemoveAt(Lines[r], i) \o r.body
  /\ garbled' = TRUE
  /\ UNCHANGED <<ended, buffer, parser, handed, live, replies>>

-----------------------------------------------------------------------------
(* The specification *)

Delivery == \E n \in 1..Len(toSend), fresh \in BOOLEAN : receive(n, fresh)

Next ==
  \/ process
  \/ receiveEnd
  \/ Delivery
  \/ \E i \in 1..Len(mData) : sendStatus(i) \/ sendData(i) \/ sendEnd(i)
  \/ \E r \in Requests : Ask(r)
  \/ \E r \in Requests : \E i \in Omissible[r] : AskGarbled(r, i)

Spec == Init /\ [][Next]_vars

\* A peer that has begun a request sends the rest of it, unless it closes.
FairSpec == Spec /\ WF_vars(process \/ Delivery)

-----------------------------------------------------------------------------
(* Properties *)

Expected == S!FlattenSeq([i \in DOMAIN asked |-> Calls[asked[i]]])


\* The calls of receive(), process() and receiveEnd() go to a request that
\* exists, which neither ended nor was deleted before, and the states between
\* a request line and the end of the data have one
\* (httpconnection.cpp:165-196).
RequestAlive ==
  /\ mHttpRequest # 0 => mHttpRequest \in live \/ failed
  /\ receiving /\ mState \in InRequest => mHttpRequest \in live

\* On the wire the replies are whole and in the order of the requests: one
\* status, then the length, then as much data (httprequest.cpp:31-112).
RepliesWhole ==
  \A k \in DOMAIN wire :
    LET before == IF k = 1 THEN [of |-> 0, part |-> "data", size |-> 0] ELSE wire[k - 1]
    IN  CASE wire[k].part = "status" -> before.part = "data" /\ wire[k].of > before.of
          [] wire[k].part = "length" -> before.part = "status" /\ wire[k].of = before.of
          [] OTHER -> before.part = "length" /\ wire[k].of = before.of
                        /\ wire[k].size = before.size

\* A request that was sent is handed over to its end, unless the peer closes
\* or has left something out (httpconnection.cpp:54-60).
EventuallyHanded ==
  \A i \in 1..MaxRequests :
    Len(asked) >= i ~>
      \/ Len(SelectSeq(handed, LAMBDA c : c = <<"end">>)) >= i
      \/ ended \/ garbled
=============================================================================

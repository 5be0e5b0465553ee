----------------------------- MODULE HbdpProofs -----------------------------
(***************************************************************************)
(* Hbdp, for every number of connections, requests and serial numbers: if  *)
(* a client ends the body of a request before it begins the next, and the  *)
(* application lets no more than 65535 bytes wait, input and output come   *)
(* once and in order, and no held request is forgotten.                    *)
(***************************************************************************)
EXTENDS Hbdp, TLAPS, SequenceTheorems

-----------------------------------------------------------------------------
(* The inductive invariant *)

\* The requests of a connection.
On(c) == {r \in DOMAIN requests : requests[r].on = c}

Rec == [on : Nat, serial : Nat, state : {"receiving", "ended", "aborted"}]

\* Every variable has its type, and what names a connection or a request
\* names one that was made.
Typed ==
  /\ made \in 0..MaxConnections /\ mConnections \subseteq 1..made
  /\ mSerialNumber \in [Connection -> Nat] /\ sent \in [Connection -> Nat]
  /\ mHbdpRequest \in [Connection -> 0..Len(requests)]
  /\ mEndReceived \in [Connection -> BOOLEAN]
  /\ mOut \in [Connection -> Seq(Nat)] /\ got \in [Connection -> Seq(Nat)]
  /\ requests \in Seq(Rec) /\ mData \in Seq(Seq(Nat)) /\ Len(mData) = Len(requests)
  /\ answered \subseteq 1..Len(requests)
  /\ \A r \in 1..Len(requests) : requests[r].on \in 0..made

\* The serial numbers of a connection's requests ascend, and its counter is
\* above them.
Serials(c) ==
  /\ \A r \in On(c) : requests[r].serial < mSerialNumber[c]
  /\ \A r, q \in On(c) : r < q => requests[r].serial < requests[q].serial

\* mHbdpRequest is the newest request, and no other one is still coming; its
\* end is the one that mEndReceived tells of.
Newest(c) ==
  /\ mHbdpRequest[c] # 0 =>
       /\ mHbdpRequest[c] \in On(c) /\ \A r \in On(c) : r <= mHbdpRequest[c]
       /\ requests[mHbdpRequest[c]].state = "ended" => mEndReceived[c]
  /\ \A r \in On(c) :
       requests[r].state = "receiving" => r = mHbdpRequest[c] /\ ~mEndReceived[c]

\* What was received are the bodies of requests, in their order.
Got(c) ==
  /\ Ascending(got[c])
  /\ \A x \in S!ToSet(got[c]) : \E r \in On(c) : requests[r].serial = x

\* OutputOnceInOrder, by the places of the requests, and that nothing waits
\* while a request is held that can be answered.
Output(c) ==
  /\ Holds(c) => mOut[c] = <<>>
  /\ Ascending(mOut[c]) /\ \A r \in On(c) : Ascending(mData[r])
  /\ \A r \in On(c) : Before(mData[r], mOut[c])
  /\ \A r, q \in On(c) : r < q => Before(mData[r], mData[q])
  /\ \A u : u \in 1..sent[c] <=>
       u \in S!ToSet(mOut[c]) \/ \E r \in On(c) : u \in S!ToSet(mData[r])

Each(c) == Serials(c) /\ Newest(c) /\ Got(c) /\ Output(c)

\* What waits can be counted by poppedAll().
Counted == \A c \in Connection : Len(mOut[c]) < SIZE16

Inv == Typed /\ Counted /\ AnsweredWhenEnded /\ \A c \in Connection : Each(c)

-----------------------------------------------------------------------------
(* Sequences *)

\* The elements of a sequence are at its places.
LEMMA Places ==
  ASSUME NEW q, NEW x PROVE x \in S!ToSet(q) <=> \E i \in DOMAIN q : q[i] = x
BY DEF S!ToSet

\* Nothing comes before or behind what is empty.
LEMMA Emptied ==
  /\ S!ToSet(<<>>) = {} /\ Ascending(<<>>)
  /\ \A q : Before(<<>>, q) /\ Before(q, <<>>)
BY DEF S!ToSet, Ascending, Before

\* Before() is about the elements.
LEMMA BeforeSets ==
  ASSUME NEW p, NEW q
  PROVE  Before(p, q) <=> \A x \in S!ToSet(p), y \in S!ToSet(q) : x < y
BY DEF Before, S!ToSet

\* What is appended above all the rest keeps a sequence ascending.
LEMMA Appended ==
  ASSUME NEW q \in Seq(Nat), NEW e \in Nat
  PROVE  /\ Append(q, e) \in Seq(Nat)
         /\ S!ToSet(Append(q, e)) = S!ToSet(q) \cup {e}
         /\ Ascending(q) /\ (\A x \in S!ToSet(q) : x < e) => Ascending(Append(q, e))
<1>. DEFINE r == Append(q, e)
<1>1. /\ r \in Seq(Nat) /\ Len(q) \in Nat /\ DOMAIN q = 1..Len(q)
      /\ DOMAIN r = 1..(Len(q) + 1)
      /\ \A i \in 1..Len(q) : r[i] = q[i]
      /\ r[Len(q) + 1] = e
  BY AppendProperties
<1>. HIDE DEF r
<1>2. \A x : x \in S!ToSet(r) <=> x \in S!ToSet(q) \cup {e}
  BY <1>1, SMTT(60) DEF S!ToSet
<1>3. ASSUME Ascending(q), \A x \in S!ToSet(q) : x < e PROVE Ascending(r)
  <2>1. \A i \in 1..Len(q) : q[i] < e
    BY <1>1, <1>3, Places
  <2>. QED
    BY <1>1, <1>3, <2>1, SMTT(60) DEF Ascending
<1>. QED
  BY <1>1, <1>2, <1>3 DEF r

\* Two ascending sequences, the one before the other.
LEMMA Joined ==
  ASSUME NEW p \in Seq(Nat), NEW q \in Seq(Nat)
  PROVE  /\ p \o q \in Seq(Nat)
         /\ S!ToSet(p \o q) = S!ToSet(p) \cup S!ToSet(q)
         /\ Ascending(p) /\ Ascending(q) /\ Before(p, q) => Ascending(p \o q)
<1>. DEFINE r == p \o q
<1>1. /\ r \in Seq(Nat) /\ Len(r) = Len(p) + Len(q)
      /\ \A i \in 1..(Len(p) + Len(q)) :
           r[i] = IF i <= Len(p) THEN p[i] ELSE q[i - Len(p)]
  BY ConcatProperties
<1>2. /\ Len(p) \in Nat /\ DOMAIN p = 1..Len(p) /\ Len(q) \in Nat /\ DOMAIN q = 1..Len(q)
  OBVIOUS
<1>. HIDE DEF r
<1>3. DOMAIN r = 1..(Len(p) + Len(q))
  BY <1>1, <1>2
<1>4. /\ \A i \in 1..Len(p) : i \in DOMAIN r /\ r[i] = p[i]
      /\ \A i \in 1..Len(q) : Len(p) + i \in DOMAIN r /\ r[Len(p) + i] = q[i]
      /\ \A i \in DOMAIN r : i \in 1..Len(p) \/ i - Len(p) \in 1..Len(q)
  <2>1. ASSUME NEW i \in 1..Len(p) PROVE i \in DOMAIN r /\ r[i] = p[i]
    <3>1. i \in 1..(Len(p) + Len(q)) /\ i <= Len(p)
      BY <1>2
    <3>. QED
      BY <1>1, <1>3, <3>1
  <2>2. ASSUME NEW i \in 1..Len(q)
        PROVE  Len(p) + i \in DOMAIN r /\ r[Len(p) + i] = q[i]
    <3>1. /\ Len(p) + i \in 1..(Len(p) + Len(q)) /\ ~(Len(p) + i <= Len(p))
          /\ Len(p) + i - Len(p) = i
      BY <1>2
    <3>. QED
      BY <1>1, <1>3, <3>1, SMTT(60)
  <2>3. \A i \in DOMAIN r : i \in 1..Len(p) \/ i - Len(p) \in 1..Len(q)
    BY <1>2, <1>3
  <2>. QED
    BY <2>1, <2>2, <2>3
<1>5. \A x \in S!ToSet(r) : x \in S!ToSet(p) \cup S!ToSet(q)
  <2>1. TAKE x \in S!ToSet(r)
  <2>2. PICK i \in DOMAIN r : r[i] = x
    BY Places
  <2>3. CASE i \in 1..Len(p)
    BY <1>2, <1>4, <2>2, <2>3, Places
  <2>4. CASE i - Len(p) \in 1..Len(q)
    <3>1. r[i] = q[i - Len(p)]
      BY <1>1, <1>2, <1>3, <2>2, <2>4
    <3>. QED
      BY <1>2, <2>2, <2>4, <3>1, Places
  <2>. QED
    BY <1>4, <2>2, <2>3, <2>4
<1>6. \A x \in S!ToSet(p) \cup S!ToSet(q) : x \in S!ToSet(r)
  BY <1>2, <1>4 DEF S!ToSet
<1>7. ASSUME Ascending(p), Ascending(q), Before(p, q) PROVE Ascending(r)
  <2>1. SUFFICES ASSUME NEW k \in DOMAIN r, NEW l \in DOMAIN r, k < l
                 PROVE  r[k] < r[l]
    BY DEF Ascending
  <2>2. /\ r[k] = IF k <= Len(p) THEN p[k] ELSE q[k - Len(p)]
        /\ r[l] = IF l <= Len(p) THEN p[l] ELSE q[l - Len(p)]
    BY <1>1, <1>3
  <2>3. CASE l <= Len(p)
    BY <1>2, <1>3, <1>7, <2>1, <2>2, <2>3 DEF Ascending
  <2>4. CASE k <= Len(p) /\ ~(l <= Len(p))
    <3>1. k \in DOMAIN p /\ l - Len(p) \in DOMAIN q
      BY <1>2, <1>3, <2>4
    <3>. QED
      BY <1>7, <2>2, <2>4, <3>1 DEF Before
  <2>5. CASE ~(k <= Len(p))
    <3>1. /\ k - Len(p) \in DOMAIN q /\ l - Len(p) \in DOMAIN q
          /\ k - Len(p) < l - Len(p) /\ ~(l <= Len(p))
      BY <1>2, <1>3, <2>1, <2>5
    <3>. QED
      BY <1>7, <2>2, <2>5, <3>1 DEF Ascending
  <2>. QED
    BY <1>2, <1>3, <2>3, <2>4, <2>5
<1>. QED
  BY <1>1, <1>5, <1>6, <1>7 DEF r

-----------------------------------------------------------------------------
(* Steps *)

\* Nothing changes that Each(c) is about.
Kept(c) ==
  /\ On(c)' = On(c)
  /\ \A r \in On(c) : requests'[r] = requests[r] /\ mData'[r] = mData[r]
  /\ mSerialNumber'[c] = mSerialNumber[c] /\ mHbdpRequest'[c] = mHbdpRequest[c]
  /\ mOut'[c] = mOut[c] /\ mEndReceived'[c] = mEndReceived[c]
  /\ got'[c] = got[c] /\ sent'[c] = sent[c]

LEMMA EachKept ==
  ASSUME NEW c \in Connection, Each(c), Kept(c) PROVE Each(c)'
<1>1. Serials(c)' /\ Newest(c)' /\ Got(c)'
  BY DEF Each, Serials, Newest, Got, Kept, Ascending
<1>2. Output(c)'
  BY DEF Each, Output, Kept, Holds, Ascending, Before
<1>. QED
  BY <1>1, <1>2 DEF Each

\* The lists behind a request that comes, or for 0 is refused.
LEMMA Added ==
  ASSUME Typed, NEW c \in 0..made, NEW serial \in Nat, Request(c, serial)
  PROVE  LET n == Len(requests) + 1
         IN  /\ requests' \in Seq(Rec) /\ mData' \in Seq(Seq(Nat))
             /\ Len(requests') = n /\ Len(mData') = n
             /\ Len(requests) \in Nat
             /\ \A r \in 1..Len(requests) :
                  requests'[r] = requests[r] /\ mData'[r] = mData[r]
             /\ requests'[n] = [on |-> c, serial |-> serial, state |-> "receiving"]
             /\ mData'[n] = <<>>
             /\ On(c)' = On(c) \cup {n}
             /\ \A d : d # c => On(d)' = On(d)
             /\ \A d : On(d) \subseteq 1..Len(requests)
<1>. DEFINE n == Len(requests) + 1
            new == [on |-> c, serial |-> serial, state |-> "receiving"]
<1>1. requests \in Seq(Rec) /\ mData \in Seq(Seq(Nat)) /\ Len(mData) = Len(requests)
  BY DEF Typed
<1>2. new \in Rec /\ <<>> \in Seq(Nat)
  BY DEF Rec, Typed
<1>3. /\ requests' \in Seq(Rec) /\ Len(requests') = n
      /\ \A r \in 1..Len(requests) : requests'[r] = requests[r]
      /\ requests'[n] = new
  <2>1. requests' = Append(requests, new)
    BY DEF Request
  <2>. HIDE DEF new
  <2>. QED
    BY <1>1, <1>2, <2>1, AppendProperties
<1>4. /\ mData' \in Seq(Seq(Nat)) /\ Len(mData') = n
      /\ \A r \in 1..Len(requests) : mData'[r] = mData[r]
      /\ mData'[n] = <<>>
  BY <1>1, <1>2, AppendProperties DEF Request
<1>5. /\ Len(requests) \in Nat /\ DOMAIN requests = 1..Len(requests)
      /\ DOMAIN requests' = 1..n
  BY <1>1, <1>3
<1>6. On(c)' = On(c) \cup {n} /\ \A d : d # c => On(d)' = On(d)
  BY <1>3, <1>5 DEF On
<1>7. \A d : On(d) \subseteq 1..Len(requests)
  BY <1>5 DEF On
<1>. QED
  BY <1>3, <1>4, <1>5, <1>6, <1>7

\* The requests when one of them ends or breaks off.
LEMMA Called ==
  ASSUME Typed, NEW r \in 1..Len(requests), NEW state \in {"ended", "aborted"},
         Calls(r, state)
  PROVE  /\ requests' \in Seq(Rec) /\ Len(requests') = Len(requests)
         /\ requests[r].state = "receiving" /\ requests'[r].state = state
         /\ requests'[r].on = requests[r].on
         /\ requests'[r].serial = requests[r].serial
         /\ \A q \in 1..Len(requests) \ {r} : requests'[q] = requests[q]
         /\ \A d : On(d)' = On(d) /\ On(d) \subseteq 1..Len(requests)
<1>1. /\ requests \in Seq(Rec) /\ DOMAIN requests = 1..Len(requests)
      /\ requests[r] \in Rec /\ Len(requests) \in Nat
  BY DEF Typed
<1>. DEFINE new == [requests[r] EXCEPT !.state = state]
<1>2. /\ requests' = [requests EXCEPT ![r] = new] /\ requests[r].state = "receiving"
      /\ new \in Rec /\ new.state = state
      /\ new.on = requests[r].on /\ new.serial = requests[r].serial
  BY <1>1 DEF Calls, Rec
<1>. HIDE DEF new
<1>3. /\ requests' \in Seq(Rec) /\ Len(requests') = Len(requests)
      /\ DOMAIN requests' = DOMAIN requests /\ requests'[r] = new
      /\ \A q \in 1..Len(requests) \ {r} : requests'[q] = requests[q]
  BY <1>1, <1>2, ExceptSeq
<1>4. \A q \in 1..Len(requests) : requests'[q].on = requests[q].on
  BY <1>1, <1>2, <1>3
<1>5. \A d : On(d)' = On(d) /\ On(d) \subseteq 1..Len(requests)
  BY <1>1, <1>3, <1>4 DEF On
<1>. QED
  BY <1>2, <1>3, <1>5

\* What is known of any request of a connection.
LEMMA OnTyped ==
  ASSUME Typed
  PROVE  /\ Len(requests) \in Nat /\ DOMAIN requests = 1..Len(requests)
         /\ \A r \in 1..Len(requests) :
              requests[r] \in Rec /\ requests[r].serial \in Nat
         /\ \A c : \A r \in On(c) : r \in 1..Len(requests) /\ requests[r].on = c
<1>1. /\ Len(requests) \in Nat /\ DOMAIN requests = 1..Len(requests)
      /\ \A r \in 1..Len(requests) : requests[r] \in Rec
  BY DEF Typed
<1>. QED
  BY <1>1 DEF On, Rec

-----------------------------------------------------------------------------
(* Types *)

\* What a request's calls do.
OfRequest(r) ==
  \/ receiveData(r) \/ receiveEnd(r) \/ receiveAbort(r)
  \/ \E state \in {"ended", "aborted"} : SimpleEnd(r, state)

LEMMA Made ==
  ASSUME Typed
  PROVE  /\ made \in Nat /\ MaxConnections \in Nat /\ MaxOut \in Nat
         /\ 1..made \subseteq Connection
         /\ \A id : Named(id) \subseteq mConnections
         /\ mConnections \subseteq Connection
         /\ \A r \in 1..Len(requests) :
              requests[r].on \in 0..made /\ requests[r].on \in {0} \cup Connection
<1>1. made \in Nat /\ MaxConnections \in Nat /\ MaxOut \in Nat /\ made <= MaxConnections
  BY HbdpAssumption DEF Typed
<1>2. 1..made \subseteq Connection
  BY <1>1 DEF Connection
<1>3. \A i \in 0..made : i \in {0} \cup Connection
  BY <1>1 DEF Connection
<1>. QED
  BY <1>1, <1>2, <1>3 DEF Named, Typed

LEMMA TypeConnection ==
  ASSUME Typed, NEW c \in mConnections, NEW serial \in Nat,
         Accept(c, serial) \/ Delete(c, serial)
  PROVE  Typed'
<1>1. /\ c \in Connection /\ c \in 0..made /\ 0 \in 0..made /\ made \in Nat
      /\ mHbdpRequest[c] \in 0..Len(requests) /\ mSerialNumber[c] \in Nat
  BY Made DEF Typed
<1>2. PICK d \in {0, c}, s \in Nat : Request(d, s)
  BY DEF Accept, Delete
<1>. DEFINE n == Len(requests) + 1
<1>3. /\ requests' \in Seq(Rec) /\ mData' \in Seq(Seq(Nat))
      /\ Len(requests') = n /\ Len(mData') = n /\ Len(requests) \in Nat
      /\ \A r \in 1..n : requests'[r].on \in 0..made
  <2>1. d \in 0..made
    BY <1>1, <1>2
  <2>2. /\ requests' \in Seq(Rec) /\ mData' \in Seq(Seq(Nat))
        /\ Len(requests') = n /\ Len(mData') = n /\ Len(requests) \in Nat
        /\ requests'[n] = [on |-> d, serial |-> s, state |-> "receiving"]
        /\ \A r \in 1..Len(requests) : requests'[r] = requests[r]
    BY <1>2, <2>1, Added
  <2>3. \A r \in 1..n : r = n \/ r \in 1..Len(requests)
    BY <2>2
  <2>4. \A r \in 1..Len(requests) : requests[r].on \in 0..made
    BY Made
  <2>. HIDE DEF n
  <2>5. requests'[n].on \in 0..made
    BY <2>1, <2>2
  <2>6. \A r \in 1..Len(requests) : requests'[r].on \in 0..made
    BY <2>2, <2>4
  <2>. QED
    BY <2>2, <2>3, <2>5, <2>6
<1>. HIDE DEF n
<1>4. /\ answered' \subseteq 1..n /\ mHbdpRequest' \in [Connection -> 0..n]
  <2>1. 1..Len(requests) \subseteq 1..n /\ 0..Len(requests) \subseteq 0..n /\ n \in 0..n
    BY <1>3 DEF n
  <2>2. answered' \subseteq answered \cup ({mHbdpRequest[c]} \ {0})
    BY DEF Accept, Delete, endRequest
  <2>3. {mHbdpRequest[c]} \ {0} \subseteq 1..n
    BY <1>1, <1>3 DEF n
  <2>4. \/ mHbdpRequest' = mHbdpRequest
        \/ mHbdpRequest' = [mHbdpRequest EXCEPT ![c] = n]
        \/ mHbdpRequest' = [mHbdpRequest EXCEPT ![c] = 0]
    BY <1>3 DEF Accept, Delete
  <2>5. 0 \in 0..n
    BY <1>3 DEF n
  <2>. QED
    BY <2>1, <2>2, <2>3, <2>4, <2>5 DEF Typed
<1>5. /\ mSerialNumber' \in [Connection -> Nat]
      /\ mEndReceived' \in [Connection -> BOOLEAN]
      /\ mConnections' \subseteq mConnections /\ made' = made
      /\ mOut' = mOut /\ got' = got /\ sent' = sent
  <2>1. CASE Accept(c, serial)
    BY <1>1, <2>1 DEF Accept, Typed, server, application
  <2>2. CASE Delete(c, serial)
    <3>1. mSerialNumber' = mSerialNumber \/ mSerialNumber' = [mSerialNumber EXCEPT ![c] = @ + 1]
      BY <2>2 DEF Delete
    <3>2. mSerialNumber' \in [Connection -> Nat]
      BY <1>1, <3>1, SMTT(60) DEF Typed
    <3>3. /\ mEndReceived' = mEndReceived /\ mConnections' = mConnections \ {c}
          /\ made' = made /\ mOut' = mOut /\ got' = got /\ sent' = sent
      BY <2>2 DEF Delete, application
    <3>. QED
      BY <3>2, <3>3 DEF Typed
  <2>. QED
    BY <2>1, <2>2
<1>. QED
  BY <1>3, <1>4, <1>5 DEF Typed

\* What can be counted is popped when it is sent.
LEMMA FlushedAll ==
  ASSUME Typed, Counted, NEW c \in Connection, Flushed(c)
  PROVE  mOut' = [mOut EXCEPT ![c] = <<>>]
<1>1. mOut[c] \in Seq(Nat) /\ Len(mOut[c]) \in Nat /\ Len(mOut[c]) < SIZE16
  BY DEF Typed, Counted
<1>2. SIZE16 \in Nat
  BY HbdpAssumption
<1>. DEFINE n == Len(mOut[c])
<1>3. n \in Nat /\ n < SIZE16
  BY <1>1
<1>4. SubSeq(mOut[c], n + 1, n) = <<>>
  BY <1>1
<1>5. mOut' = [mOut EXCEPT ![c] = SubSeq(mOut[c], (n % SIZE16) + 1, n)]
  BY DEF Flushed
<1>. HIDE DEF n
<1>6. n % SIZE16 = n
  BY <1>2, <1>3
<1>. QED
  BY <1>4, <1>5, <1>6

\* A step lets more wait only by the rule "flood", and only on one connection.
LEMMA CountedStep ==
  ASSUME "flood" \notin Liberties, Typed, Counted, \A c \in Connection : Newest(c),
         [Next]_vars
  PROVE  Counted'
<1>1. ASSUME mOut' = mOut PROVE Counted'
  BY <1>1 DEF Counted
<1>2. ASSUME NEW c \in Connection, receive(c) PROVE Counted'
  <2>1. CASE Holds(c)
    BY <1>1, <1>2, <2>1 DEF receive
  <2>2. CASE ~Holds(c)
    <3>1. /\ mOut' = [mOut EXCEPT ![c] = Append(mOut[c], sent[c] + 1)]
          /\ Len(mOut[c]) + 1 < SIZE16
      BY <1>2, <2>2 DEF receive, MayWait
    <3>2. mOut[c] \in Seq(Nat) /\ sent[c] + 1 \in Nat
      BY DEF Typed
    <3>3. Len(Append(mOut[c], sent[c] + 1)) = Len(mOut[c]) + 1
      BY <3>2
    <3>4. /\ mOut'[c] = Append(mOut[c], sent[c] + 1)
          /\ \A d \in Connection : d # c => mOut'[d] = mOut[d]
      BY <3>1 DEF Typed
    <3>. QED
      BY <3>1, <3>3, <3>4 DEF Counted
  <2>. QED
    BY <2>1, <2>2
<1>3. ASSUME NEW r \in 1..Len(requests), receiveEnd(r) PROVE Counted'
  <2>. DEFINE c == requests[r].on
  <2>1. c \in Connection
    BY <1>3, Made DEF receiveEnd, Typed, Connection
  <2>2. CASE mOut[c] = <<>>
    BY <1>1, <1>3, <2>2 DEF receiveEnd
  <2>3. CASE mOut[c] # <<>>
    <3>1. Flushed(c)
      BY <1>3, <2>3 DEF receiveEnd
    <3>. HIDE DEF c
    <3>2. mOut' = [mOut EXCEPT ![c] = <<>>]
      BY <2>1, <3>1, FlushedAll
    <3>3. /\ mOut'[c] = <<>> /\ Len(<<>>) < SIZE16
          /\ \A d \in Connection : d # c => mOut'[d] = mOut[d]
      BY <2>1, <3>2, HbdpAssumption DEF Typed
    <3>. QED
      BY <3>3 DEF Counted
  <2>. QED
    BY <2>2, <2>3
<1>4. ASSUME NEW r \in 1..Len(requests),
             \/ receiveData(r) \/ receiveAbort(r)
             \/ \E state \in {"ended", "aborted"} : SimpleEnd(r, state)
      PROVE  Counted'
  BY <1>1, <1>4 DEF receiveData, receiveAbort, SimpleEnd, connection
<1>5. ASSUME NEW c, NEW serial, Accept(c, serial) \/ Delete(c, serial) PROVE Counted'
  BY <1>1, <1>5 DEF Accept, Delete
<1>6. ASSUME NEW id, NEW serial, Refuse(id, serial) PROVE Counted'
  BY <1>1, <1>6 DEF Refuse, connection
<1>7. CASE Create \/ Tick \/ UNCHANGED vars
  BY <1>1, <1>7 DEF Create, Tick, vars, connection
<1>. QED
  BY <1>2, <1>3, <1>4, <1>5, <1>6, <1>7 DEF Next

LEMMA TypeRequest ==
  ASSUME Typed, Counted, \A c \in Connection : Newest(c),
         NEW r \in 1..Len(requests), OfRequest(r)
  PROVE  Typed'
<1>1. /\ requests[r] \in Rec /\ requests[r].on \in {0} \cup Connection
      /\ Len(requests) \in Nat
  BY Made, SMTT(60) DEF Typed
<1>2. CASE receiveData(r)
  <2>. DEFINE c == requests[r].on
  <2>1. /\ c \in Connection /\ requests[r].serial \in Nat /\ got[c] \in Seq(Nat)
        /\ got' = [got EXCEPT ![c] = Append(got[c], requests[r].serial)]
    BY <1>1, <1>2 DEF receiveData, Typed, Rec
  <2>. HIDE DEF c
  <2>2. got' \in [Connection -> Seq(Nat)]
    BY <2>1, Appended DEF Typed
  <2>. QED
    BY <1>2, <2>2 DEF receiveData, Typed, server, connection, http
<1>3. CASE receiveEnd(r)
  <2>. DEFINE c == requests[r].on
              h == mHbdpRequest[c]
  <2>1. /\ c \in Connection /\ h = r
        /\ mOut[c] \in Seq(Nat) /\ Calls(r, "ended")
    <3>1. c \in Connection /\ Calls(r, "ended") /\ requests[r].state = "receiving"
      BY <1>1, <1>3 DEF receiveEnd, Calls
    <3>2. r \in On(c)
      BY <1>1 DEF On, Typed
    <3>. QED
      BY <3>1, <3>2 DEF Newest, Typed
  <2>2. /\ requests' \in Seq(Rec) /\ Len(requests') = Len(requests)
        /\ \A q \in 1..Len(requests) : requests'[q].on = requests[q].on
    BY <2>1, Called
  <2>3. mEndReceived' \in [Connection -> BOOLEAN]
    BY <1>3, <2>1 DEF receiveEnd, Typed
  <2>4. CASE mOut[c] # <<>>
    <3>1. /\ mData' = [mData EXCEPT ![h] = mData[h] \o mOut[c]]
          /\ Flushed(c) /\ answered' = answered \cup ({h} \ {0})
          /\ mHbdpRequest' = [mHbdpRequest EXCEPT ![c] = 0]
      BY <1>3, <2>4 DEF receiveEnd, Flushed, endRequest
    <3>2. mData' \in Seq(Seq(Nat)) /\ Len(mData') = Len(mData)
      <4>1. r \in 1..Len(mData) /\ mData \in Seq(Seq(Nat)) /\ mData[r] \in Seq(Nat)
        BY <1>1 DEF Typed
      <4>2. mData[r] \o mOut[c] \in Seq(Nat)
        BY <2>1, <4>1
      <4>. QED
        BY <2>1, <3>1, <4>1, <4>2, ExceptSeq
    <3>. HIDE DEF c, h
    <3>3. answered' \subseteq 1..Len(requests) /\ mHbdpRequest' \in [Connection -> 0..Len(requests)]
      BY <1>1, <2>1, <3>1 DEF Typed
    <3>4. mOut' \in [Connection -> Seq(Nat)]
      <4>1. <<>> \in Seq(Nat)
        OBVIOUS
      <4>. QED
        BY <2>1, <3>1, <4>1, FlushedAll DEF Typed
    <3>. QED
      BY <1>3, <2>2, <2>3, <3>2, <3>3, <3>4
      DEF receiveEnd, Typed, server, application
  <2>5. CASE mOut[c] = <<>>
    BY <1>3, <2>2, <2>3, <2>5 DEF receiveEnd, Typed, server, application
  <2>. QED
    BY <2>4, <2>5
<1>4. CASE receiveAbort(r)
  <2>1. /\ requests' \in Seq(Rec) /\ Len(requests') = Len(requests)
        /\ \A q \in 1..Len(requests) : requests'[q].on = requests[q].on
    BY <1>4, Called DEF receiveAbort
  <2>. QED
    BY <1>4, <2>1 DEF receiveAbort, Typed, server, connection, application
<1>5. ASSUME NEW state \in {"ended", "aborted"}, SimpleEnd(r, state) PROVE Typed'
  <2>1. /\ requests' \in Seq(Rec) /\ Len(requests') = Len(requests)
        /\ \A q \in 1..Len(requests) : requests'[q].on = requests[q].on
    BY <1>5, Called DEF SimpleEnd
  <2>. QED
    BY <1>5, <2>1 DEF SimpleEnd, Typed, server, connection, application
<1>. QED
  BY <1>2, <1>3, <1>4, <1>5 DEF OfRequest

LEMMA TypeReceive ==
  ASSUME Typed, NEW c \in Connection, receive(c) PROVE Typed'
<1>. DEFINE h == mHbdpRequest[c]
            unit == sent[c] + 1
<1>1. /\ unit \in Nat /\ h \in 0..Len(requests) /\ mOut[c] \in Seq(Nat)
      /\ Len(requests) \in Nat /\ mData \in Seq(Seq(Nat))
  BY DEF Typed
<1>2. sent' = [sent EXCEPT ![c] = unit]
  BY DEF receive
<1>3. CASE Holds(c)
  <2>1. /\ mData' = [mData EXCEPT ![h] = Append(mData[h], unit)]
        /\ answered' = answered \cup ({h} \ {0})
        /\ mHbdpRequest' = [mHbdpRequest EXCEPT ![c] = 0] /\ mOut' = mOut
    BY <1>3 DEF receive, endRequest
  <2>2. h \in 1..Len(mData) /\ h \in 1..Len(requests) /\ mData[h] \in Seq(Nat)
    BY <1>1, <1>3 DEF Holds, Typed
  <2>. HIDE DEF unit, h
  <2>3. mData' \in Seq(Seq(Nat)) /\ Len(mData') = Len(mData)
    BY <1>1, <2>1, <2>2, Appended, ExceptSeq
  <2>4. answered' \subseteq 1..Len(requests) /\ mHbdpRequest' \in [Connection -> 0..Len(requests)]
    BY <1>1, <2>1, <2>2, SMTT(60) DEF Typed
  <2>. QED
    BY <1>1, <1>2, <2>1, <2>3, <2>4, ZenonT(60) DEF receive, Typed, server
<1>4. CASE ~Holds(c)
  <2>1. mOut' = [mOut EXCEPT ![c] = Append(mOut[c], unit)]
    BY <1>4 DEF receive
  <2>. HIDE DEF unit, h
  <2>2. mOut' \in [Connection -> Seq(Nat)]
    BY <1>1, <2>1, Appended DEF Typed
  <2>. QED
    BY <1>1, <1>2, <1>4, <2>2 DEF receive, Typed, server
<1>. QED
  BY <1>3, <1>4

LEMMA TypeOthers ==
  ASSUME Typed,
         Create \/ Tick \/ \E id, serial : Refuse(id, serial)
  PROVE  Typed'
<1>1. CASE Create
  <2>1. made' \in 0..MaxConnections /\ mConnections' \subseteq 1..made' /\ 0..made \subseteq 0..made'
    <3>1. /\ made \in Nat /\ MaxConnections \in Nat /\ made < MaxConnections
          /\ made' = made + 1 /\ mConnections' = mConnections \cup {made'}
          /\ mConnections \subseteq 1..made
      BY <1>1, Made DEF Create, Typed
    <3>. QED
      BY <3>1
  <2>. QED
    BY <1>1, <2>1 DEF Create, Typed, http, application
<1>2. CASE Tick
  BY <1>2 DEF Tick, Typed, connection, http, application
<1>3. ASSUME NEW id, NEW serial, Refuse(id, serial) PROVE Typed'
  <2>. DEFINE n == Len(requests) + 1
  <2>1. 0 \in 0..made
    BY Made
  <2>2. Request(0, 0)
    BY <1>3 DEF Refuse
  <2>3. /\ requests' \in Seq(Rec) /\ mData' \in Seq(Seq(Nat))
        /\ Len(requests') = n /\ Len(mData') = n /\ Len(requests) \in Nat
        /\ requests'[n] = [on |-> 0, serial |-> 0, state |-> "receiving"]
        /\ \A r \in 1..Len(requests) : requests'[r] = requests[r]
    BY <2>1, <2>2, Added
  <2>4. /\ \A r \in 1..n : r = n \/ r \in 1..Len(requests)
        /\ 1..Len(requests) \subseteq 1..n /\ 0..Len(requests) \subseteq 0..n
    BY <2>3
  <2>. HIDE DEF n
  <2>6. \A r \in 1..Len(requests) : requests[r].on \in 0..made
    BY Made
  <2>7. requests'[n].on \in 0..made
    BY <2>1, <2>3
  <2>8. \A r \in 1..Len(requests) : requests'[r].on \in 0..made
    BY <2>3, <2>6
  <2>5. \A r \in 1..n : requests'[r].on \in 0..made
    BY <2>4, <2>7, <2>8
  <2>. QED
    BY <1>3, <2>3, <2>4, <2>5 DEF Refuse, Typed, server, connection, application
<1>. QED
  BY <1>1, <1>2, <1>3

-----------------------------------------------------------------------------
(* Clients that end the body of a request before they begin the next *)

\* What is held is not coming any more when the next request is accepted.
LEMMA AnsweredStep ==
  ASSUME Inv, "overlap" \notin Liberties, NEW c \in Connection, MayAccept(c),
         NEW d \in 0..made, NEW s \in Nat, Request(d, s),
         answered' = answered \/ endRequest(c)
  PROVE  AnsweredWhenEnded'
<1>1. /\ Len(requests) \in Nat /\ answered \subseteq 1..Len(requests)
      /\ DOMAIN requests = 1..Len(requests)
      /\ \A r \in 1..Len(requests) : requests'[r] = requests[r]
  <2>1. Typed /\ answered \subseteq 1..Len(requests)
    BY DEF Inv, Typed
  <2>. QED
    BY <2>1, Added, OnTyped
<1>2. answered' \subseteq answered \cup ({mHbdpRequest[c]} \ {0})
  BY DEF endRequest
<1>3. ASSUME mHbdpRequest[c] # 0
      PROVE  mHbdpRequest[c] \in 1..Len(requests) /\ requests[mHbdpRequest[c]].state # "receiving"
  BY <1>1, <1>3 DEF Inv, Each, Newest, On, MayAccept
<1>. QED
  BY <1>1, <1>2, <1>3 DEF Inv, AnsweredWhenEnded

LEMMA AcceptStep ==
  ASSUME Inv, "overlap" \notin Liberties,
         NEW c \in mConnections, NEW serial \in Nat, Accept(c, serial)
  PROVE  AnsweredWhenEnded' /\ \A d \in Connection : Each(d)'
<1>. DEFINE n == Len(requests) + 1
<1>1. /\ Typed /\ c \in Connection /\ c # 0 /\ c \in 0..made
      /\ mSerialNumber[c] = serial /\ MayAccept(c) /\ Request(c, serial)
      /\ serial + 1 \in Nat
  <2>1. Typed /\ mSerialNumber[c] = serial /\ MayAccept(c) /\ Request(c, serial)
    BY DEF Inv, Accept
  <2>2. made \in Nat /\ c \in Connection /\ c \in 1..made
    BY <2>1, Made DEF Typed
  <2>. QED
    BY <2>1, <2>2
<1>2. /\ Len(requests') = n /\ Len(requests) \in Nat
      /\ \A r \in 1..Len(requests) : requests'[r] = requests[r] /\ mData'[r] = mData[r]
      /\ requests'[n] = [on |-> c, serial |-> serial, state |-> "receiving"]
      /\ mData'[n] = <<>>
      /\ On(c)' = On(c) \cup {n}
      /\ \A d : d # c => On(d)' = On(d)
      /\ \A d : On(d) \subseteq 1..Len(requests)
  BY <1>1, Added
<1>3. AnsweredWhenEnded'
  BY <1>1, AnsweredStep DEF Accept
<1>4. ASSUME NEW d \in Connection, d # c PROVE Each(d)'
  <2>1. Kept(d)
    BY <1>2, <1>4 DEF Kept, Accept, Inv, Typed, application
  <2>. QED
    BY <2>1, EachKept DEF Inv
<1>5. /\ mSerialNumber'[c] = serial + 1 /\ mHbdpRequest'[c] = n
      /\ ~mEndReceived'[c] /\ mOut' = mOut /\ got' = got /\ sent' = sent
  BY <1>1, <1>2 DEF Accept, Typed, application
<1>6. /\ Each(c) /\ n \notin 1..Len(requests) /\ n # 0
      /\ \A r \in On(c) : r \in 1..Len(requests) /\ r < n /\ ~(n < r) /\ requests[r].serial \in Nat
  <2>1. Each(c) /\ n \notin 1..Len(requests) /\ n # 0
    BY <1>1, <1>2 DEF Inv
  <2>2. \A r \in 1..Len(requests) : r < n /\ ~(n < r)
    BY <1>2
  <2>. QED
    BY <1>1, <2>1, <2>2, OnTyped
<1>7. \A r \in On(c) : requests[r].state # "receiving"
  BY <1>1 DEF MayAccept, On
<1>. HIDE DEF n
<1>8. Serials(c)'
  <2>1. \A r \in On(c) : requests'[r].serial < serial
    BY <1>1, <1>2, <1>6 DEF Each, Serials
  <2>2. requests'[n].serial = serial /\ ~(n < n)
    BY <1>2 DEF n
  <2>3. \A r, q \in On(c) : r < q => requests'[r].serial < requests'[q].serial
    BY <1>2, <1>6 DEF Each, Serials
  <2>4. \A r \in On(c) : requests'[r].serial < serial + 1
    BY <1>1, <1>2, <1>6, <2>1
  <2>. QED
    BY <1>1, <1>2, <1>5, <1>6, <2>1, <2>2, <2>3, <2>4 DEF Serials
<1>9. Newest(c)'
  <2>1. requests'[n].state = "receiving" /\ n <= n /\ \A r \in On(c) : r <= n
    BY <1>2, <1>6 DEF n
  <2>2. \A r \in On(c) : requests'[r].state # "receiving"
    BY <1>2, <1>6, <1>7
  <2>. QED
    BY <1>2, <1>5, <2>1, <2>2 DEF Newest
<1>10. Got(c)'
  BY <1>2, <1>5, <1>6 DEF Each, Got
<1>11. Output(c)'
  <2>1. \A r \in On(c) : mData'[r] = mData[r]
    BY <1>2
  <2>2. ~Holds(c)'
    BY <1>5 DEF Holds
  <2>3. /\ Ascending(mData'[n]) /\ S!ToSet(mData'[n]) = {}
        /\ \A q : Before(mData'[n], q) /\ Before(q, mData'[n])
    BY <1>2, Emptied
  <2>4. Output(c)
    BY <1>6 DEF Each
  <2>. QED
    BY <1>2, <1>5, <2>1, <2>2, <2>3, <2>4 DEF Output
<1>. QED
  BY <1>3, <1>4, <1>8, <1>9, <1>10, <1>11 DEF Each

\* Nobody else's requests are disturbed by one that is refused.
LEMMA RefusedKeeps ==
  ASSUME Typed, NEW s \in Nat, Request(0, s)
  PROVE  /\ \A d \in Connection : On(d)' = On(d)
         /\ \A d \in Connection : \A r \in On(d) :
              requests'[r] = requests[r] /\ mData'[r] = mData[r]
<1>1. 0 \in 0..made /\ \A d \in Connection : d # 0
  BY Made DEF Connection
<1>2. /\ \A d : d # 0 => On(d)' = On(d)
      /\ \A r \in 1..Len(requests) : requests'[r] = requests[r] /\ mData'[r] = mData[r]
      /\ \A d : On(d) \subseteq 1..Len(requests)
  BY <1>1, Added
<1>. QED
  BY <1>1, <1>2

LEMMA DeleteStep ==
  ASSUME Inv, "overlap" \notin Liberties,
         NEW c \in mConnections, NEW serial \in Nat, Delete(c, serial)
  PROVE  AnsweredWhenEnded' /\ \A d \in Connection : Each(d)'
<1>1. Typed /\ c \in Connection /\ 0 \in 0..made /\ MayAccept(c) /\ Request(0, 0)
  BY Made DEF Inv, Delete
<1>2. /\ \A d \in Connection : On(d)' = On(d)
      /\ \A d \in Connection : \A r \in On(d) :
           requests'[r] = requests[r] /\ mData'[r] = mData[r]
  BY <1>1, RefusedKeeps
<1>3. AnsweredWhenEnded'
  BY <1>1, AnsweredStep DEF Delete
<1>4. \A d \in Connection :
        /\ mOut'[d] = mOut[d] /\ mEndReceived'[d] = mEndReceived[d]
        /\ got'[d] = got[d] /\ sent'[d] = sent[d]
  BY DEF Delete, application
<1>5. ASSUME NEW d \in Connection, d # c \/ mSerialNumber[c] # serial PROVE Each(d)'
  <2>1. mSerialNumber'[d] = mSerialNumber[d] /\ mHbdpRequest'[d] = mHbdpRequest[d]
    BY <1>5 DEF Delete, Inv, Typed
  <2>2. Kept(d)
    BY <1>2, <1>4, <2>1 DEF Kept
  <2>. QED
    BY <2>2, EachKept DEF Inv
<1>6. ASSUME mSerialNumber[c] = serial PROVE Each(c)'
  <2>1. mSerialNumber'[c] = mSerialNumber[c] + 1 /\ mHbdpRequest'[c] = 0
    BY <1>1, <1>6 DEF Delete, Typed
  <2>2. Each(c) /\ mSerialNumber[c] \in Nat /\ \A r \in On(c) : requests[r].serial \in Nat
    <3>1. Each(c) /\ mSerialNumber[c] \in Nat
      BY <1>1 DEF Inv, Typed
    <3>. QED
      BY <1>1, <3>1, OnTyped
  <2>3. Serials(c)'
    BY <1>1, <1>2, <2>1, <2>2 DEF Each, Serials
  <2>4. Newest(c)'
    BY <1>1, <1>2, <2>1 DEF Newest, MayAccept, On
  <2>5. Got(c)'
    BY <1>1, <1>2, <1>4, <2>2 DEF Each, Got
  <2>6. Output(c)'
    BY <1>1, <1>2, <1>4, <2>1, <2>2 DEF Each, Output, Holds
  <2>. QED
    BY <2>3, <2>4, <2>5, <2>6 DEF Each
<1>. QED
  BY <1>3, <1>5, <1>6

\* A request that is still coming is the newest of its connection.
LEMMA Coming ==
  ASSUME Inv, NEW r \in 1..Len(requests),
         requests[r].on # 0, requests[r].state = "receiving"
  PROVE  LET c == requests[r].on
         IN  /\ c \in Connection /\ r \in On(c) /\ Each(c)
             /\ mHbdpRequest[c] = r /\ r # 0 /\ ~mEndReceived[c]
             /\ \A q \in On(c) : q <= r /\ (q # r => requests[q].state # "receiving")
<1>. DEFINE c == requests[r].on
<1>1. Typed /\ c \in Connection /\ r \in On(c) /\ r # 0
  BY Made, OnTyped DEF Inv, On
<1>. QED
  BY <1>1 DEF Inv, Each, Newest

LEMMA DataStep ==
  ASSUME Inv, NEW r \in 1..Len(requests), receiveData(r)
  PROVE  AnsweredWhenEnded' /\ \A d \in Connection : Each(d)'
<1>1. PICK c \in Connection :
        /\ requests[r].on = c /\ r \in On(c) /\ Each(c)
        /\ \A q \in On(c) : q <= r
  BY Coming DEF receiveData
<1>2. /\ Typed /\ got \in [Connection -> Seq(Nat)] /\ got[c] \in Seq(Nat)
      /\ \A q \in On(c) : q \in 1..Len(requests) /\ requests[q].serial \in Nat
  <2>1. Typed /\ got \in [Connection -> Seq(Nat)]
    BY DEF Inv, Typed
  <2>. QED
    BY <2>1, OnTyped
<1>3. PICK e \in Nat :
        /\ requests[r].serial = e
        /\ got' = [got EXCEPT ![c] = Append(got[c], e)] /\ e \notin S!ToSet(got[c])
  BY <1>1, <1>2 DEF receiveData
<1>4. /\ requests' = requests /\ answered' = answered /\ mData' = mData /\ mOut' = mOut
      /\ mSerialNumber' = mSerialNumber /\ mHbdpRequest' = mHbdpRequest
      /\ mEndReceived' = mEndReceived /\ sent' = sent
  BY DEF receiveData, http, connection
<1>5. \A d : On(d)' = On(d)
  BY <1>4 DEF On
<1>6. AnsweredWhenEnded'
  BY <1>4 DEF Inv, AnsweredWhenEnded
<1>7. ASSUME NEW d \in Connection, d # c PROVE Each(d)'
  <2>1. Kept(d)
    BY <1>2, <1>3, <1>4, <1>5, <1>7 DEF Kept
  <2>. QED
    BY <2>1, EachKept DEF Inv
<1>8. Serials(c)' /\ Newest(c)'
  BY <1>1, <1>4, <1>5 DEF Each, Serials, Newest
<1>9. Got(c)'
  <2>1. got'[c] = Append(got[c], e)
    BY <1>1, <1>2, <1>3
  <2>2. ASSUME NEW x \in S!ToSet(got[c]) PROVE x < e
    <3>1. PICK q \in On(c) : requests[q].serial = x
      BY <1>1 DEF Each, Got
    <3>2. q = r \/ q < r
      <4>1. q \in 1..Len(requests) /\ q <= r /\ Len(requests) \in Nat
        BY <1>1, <1>2, <3>1, OnTyped
      <4>. QED
        BY <4>1
    <3>. QED
      BY <1>1, <1>3, <3>1, <3>2 DEF Each, Serials
  <2>3. Ascending(got[c])
    BY <1>1 DEF Each, Got
  <2>4. Ascending(got'[c]) /\ S!ToSet(got'[c]) = S!ToSet(got[c]) \cup {e}
    BY <1>2, <2>1, <2>2, <2>3, Appended
  <2>5. \A x \in S!ToSet(got[c]) \cup {e} : \E q \in On(c) : requests[q].serial = x
    BY <1>1, <1>3 DEF Each, Got
  <2>. QED
    BY <1>4, <1>5, <2>4, <2>5 DEF Got
<1>10. Output(c)'
  BY <1>1, <1>4, <1>5 DEF Each, Output, Holds
<1>. QED
  BY <1>6, <1>7, <1>8, <1>9, <1>10 DEF Each

\* A request that breaks off, or that no connection is concerned with.
LEMMA AbortStep ==
  ASSUME Inv, NEW r \in 1..Len(requests),
         receiveAbort(r) \/ \E state \in {"ended", "aborted"} : SimpleEnd(r, state)
  PROVE  AnsweredWhenEnded' /\ \A d \in Connection : Each(d)'
<1>1. /\ mData' = mData /\ mOut' = mOut /\ got' = got /\ sent' = sent
      /\ mSerialNumber' = mSerialNumber /\ mHbdpRequest' = mHbdpRequest
      /\ mEndReceived' = mEndReceived
      /\ answered' \subseteq answered \cup {r}
  BY DEF receiveAbort, SimpleEnd, connection, application
<1>2. PICK state \in {"ended", "aborted"} :
        Calls(r, state) /\ (requests[r].on = 0 \/ state = "aborted")
  BY DEF receiveAbort, SimpleEnd
<1>3. Typed
  BY DEF Inv
<1>4. /\ requests'[r].state = state
      /\ requests'[r].on = requests[r].on /\ requests'[r].serial = requests[r].serial
      /\ \A q \in 1..Len(requests) \ {r} : requests'[q] = requests[q]
      /\ \A d : On(d)' = On(d) /\ On(d) \subseteq 1..Len(requests)
  BY <1>2, <1>3, Called
<1>5. AnsweredWhenEnded'
  BY <1>1, <1>2, <1>4 DEF Inv, Typed, AnsweredWhenEnded
<1>6. ASSUME NEW d \in Connection PROVE Each(d)'
  <2>1. Each(d) /\ d # 0
    BY DEF Inv, Connection
  <2>2. \A q \in On(d) :
          /\ requests'[q].serial = requests[q].serial
          /\ \/ requests'[q].state = requests[q].state
             \/ requests'[q].state = "aborted"
    BY <1>2, <1>4, <2>1 DEF On
  <2>3. Serials(d)' /\ Newest(d)' /\ Got(d)'
    BY <1>1, <1>4, <2>1, <2>2 DEF Each, Serials, Newest, Got
  <2>4. Output(d)'
    BY <1>1, <1>4, <2>1 DEF Each, Output, Holds
  <2>. QED
    BY <2>3, <2>4 DEF Each
<1>. QED
  BY <1>5, <1>6

\* The newest request's reply gets what is above all that was sent before:
\* what waited, or a unit.
LEMMA Replied ==
  ASSUME Typed, NEW c \in Connection, Output(c), NEW r \in On(c),
         \A q \in On(c) : q <= r,
         NEW N, Ascending(mData'[r]),
         S!ToSet(mData'[r]) = S!ToSet(mData[r]) \cup N,
         \A q \in On(c) : q # r => \A x \in S!ToSet(mData[q]), y \in N : x < y,
         \A u : u \in 1..sent'[c] <=> u \in 1..sent[c] \cup N,
         S!ToSet(mOut[c]) \subseteq N,
         mOut'[c] = <<>>, On(c)' = On(c),
         \A q \in On(c) : q # r => mData'[q] = mData[q]
  PROVE  Output(c)'
<1>1. \A q \in On(c) : q \in 1..Len(requests) /\ (q = r \/ q < r) /\ ~(r < q)
  <2>1. ASSUME NEW q \in On(c) PROVE q \in 1..Len(requests) /\ (q = r \/ q < r) /\ ~(r < q)
    <3>1. q \in 1..Len(requests) /\ r \in 1..Len(requests) /\ Len(requests) \in Nat /\ q <= r
      BY OnTyped
    <3>. QED
      BY <3>1
  <2>. QED
    BY <2>1
<1>2. \A q \in On(c)' : Ascending(mData'[q]) /\ Before(mData'[q], mOut'[c])
  BY Emptied DEF Output
<1>3. ASSUME NEW q \in On(c), NEW p \in On(c), q < p PROVE Before(mData'[q], mData'[p])
  <2>1. q # r /\ mData'[q] = mData[q] /\ Before(mData[q], mData[p])
    BY <1>1, <1>3 DEF Output
  <2>2. CASE p # r
    BY <2>1, <2>2
  <2>3. CASE p = r
    <3>1. \A x \in S!ToSet(mData[q]), y \in S!ToSet(mData'[r]) : x < y
      BY <2>1, <2>3, BeforeSets
    <3>. QED
      BY <2>1, <2>3, <3>1, BeforeSets
  <2>. QED
    BY <2>2, <2>3
<1>4. \A u : u \in 1..sent'[c] <=> \E q \in On(c) : u \in S!ToSet(mData'[q])
  <2>1. \A u : u \in 1..sent[c] <=>
          u \in S!ToSet(mOut[c]) \/ \E q \in On(c) : u \in S!ToSet(mData[q])
    BY DEF Output
  <2>2. \A q \in On(c) :
          S!ToSet(mData'[q]) = IF q = r THEN S!ToSet(mData[r]) \cup N ELSE S!ToSet(mData[q])
    OBVIOUS
  <2>. QED
    BY <2>1, <2>2
<1>5. S!ToSet(mOut'[c]) = {} /\ Ascending(mOut'[c])
  BY Emptied
<1>. QED
  BY <1>2, <1>3, <1>4, <1>5 DEF Output

LEMMA EndStep ==
  ASSUME Inv, NEW r \in 1..Len(requests), receiveEnd(r)
  PROVE  AnsweredWhenEnded' /\ \A d \in Connection : Each(d)'
<1>1. PICK c \in Connection :
        /\ requests[r].on = c /\ r \in On(c) /\ Each(c) /\ mHbdpRequest[c] = r /\ r # 0
        /\ \A q \in On(c) : q <= r /\ (q # r => requests[q].state # "receiving")
  BY Coming DEF receiveEnd, Calls
<1>2. /\ Typed /\ mOut[c] \in Seq(Nat) /\ mData[r] \in Seq(Nat)
      /\ r \in 1..Len(mData) /\ mData \in Seq(Seq(Nat)) /\ answered \subseteq 1..Len(requests)
  BY SMTT(60) DEF Inv, Typed
<1>3. Calls(r, "ended") /\ mEndReceived' = [mEndReceived EXCEPT ![c] = TRUE]
  BY <1>1 DEF receiveEnd
<1>4. /\ requests'[r].state = "ended" /\ requests[r].state = "receiving"
      /\ requests'[r].serial = requests[r].serial
      /\ \A q \in 1..Len(requests) \ {r} : requests'[q] = requests[q]
      /\ \A d : On(d)' = On(d) /\ On(d) \subseteq 1..Len(requests)
  BY <1>2, <1>3, Called
<1>5. /\ mSerialNumber' = mSerialNumber /\ got' = got /\ sent' = sent
      /\ mEndReceived'[c] = TRUE
      /\ \A d \in Connection : d # c => mEndReceived'[d] = mEndReceived[d]
  BY <1>2, <1>3 DEF receiveEnd, Typed, application
<1>6. CASE mOut[c] = <<>>
  <2>1. mData' = mData /\ mOut' = mOut /\ answered' = answered /\ mHbdpRequest' = mHbdpRequest
    BY <1>1, <1>6 DEF receiveEnd
  <2>. QED
    <3>1. AnsweredWhenEnded'
      BY <1>2, <1>4, <2>1 DEF Inv, AnsweredWhenEnded
    <3>2. ASSUME NEW d \in Connection, d # c PROVE Each(d)'
      <4>1. r \notin On(d)
        BY <1>1, <3>2 DEF On
      <4>2. Kept(d)
        BY <1>4, <1>5, <2>1, <3>2, <4>1 DEF Kept
      <4>. QED
        BY <4>2, EachKept DEF Inv
    <3>3. Serials(c)' /\ Newest(c)' /\ Got(c)'
      BY <1>1, <1>4, <1>5, <2>1, SMTT(60) DEF Each, Serials, Newest, Got
    <3>4. Output(c)'
      BY <1>1, <1>4, <1>5, <1>6, <2>1 DEF Each, Output
    <3>. QED
      BY <3>1, <3>2, <3>3, <3>4 DEF Each
<1>7. CASE mOut[c] # <<>>
  <2>. DEFINE D == mData[r] \o mOut[c]
  <2>1. /\ mData' = [mData EXCEPT ![r] = D] /\ mOut' = [mOut EXCEPT ![c] = <<>>]
        /\ answered' = answered \cup {r} /\ mHbdpRequest' = [mHbdpRequest EXCEPT ![c] = 0]
    <3>1. Flushed(c)
      BY <1>1, <1>7 DEF receiveEnd
    <3>2. mOut' = [mOut EXCEPT ![c] = <<>>]
      BY <3>1, FlushedAll DEF Inv
    <3>. QED
      BY <1>1, <1>7, <3>2 DEF receiveEnd, Flushed, endRequest
  <2>2. /\ D \in Seq(Nat) /\ S!ToSet(D) = S!ToSet(mData[r]) \cup S!ToSet(mOut[c])
        /\ Ascending(D)
    BY <1>1, <1>2, Joined DEF Each, Output
  <2>. HIDE DEF D
  <2>3. /\ mData'[r] = D /\ \A q \in 1..Len(requests) \ {r} : mData'[q] = mData[q]
    BY <1>2, <2>1, <2>2, ExceptSeq DEF Typed
  <2>4. /\ mOut'[c] = <<>> /\ mHbdpRequest'[c] = 0
        /\ \A d \in Connection :
             d # c => mOut'[d] = mOut[d] /\ mHbdpRequest'[d] = mHbdpRequest[d]
    BY <1>2, <2>1 DEF Typed
  <2>5. AnsweredWhenEnded'
    BY <1>2, <1>4, <2>1 DEF Inv, AnsweredWhenEnded
  <2>6. ASSUME NEW d \in Connection, d # c PROVE Each(d)'
    <3>1. r \notin On(d)
      BY <1>1, <2>6 DEF On
    <3>2. Kept(d)
      BY <1>4, <1>5, <2>3, <2>4, <2>6, <3>1 DEF Kept
    <3>. QED
      BY <3>2, EachKept DEF Inv
  <2>7. Serials(c)' /\ Newest(c)' /\ Got(c)'
    BY <1>1, <1>4, <1>5, <2>4 DEF Each, Serials, Newest, Got
  <2>8. Output(c)'
    <3>1. Output(c) /\ \A q \in On(c) : q <= r
      BY <1>1 DEF Each
    <3>2. PICK N : N = S!ToSet(mOut[c])
      OBVIOUS
    <3>3. \A q \in On(c) : q # r => \A x \in S!ToSet(mData[q]), y \in N : x < y
      BY <3>1, <3>2, BeforeSets DEF Output
    <3>4. \A u : u \in 1..sent'[c] <=> u \in 1..sent[c] \cup N
      BY <1>5, <3>1, <3>2 DEF Output
    <3>5. /\ Ascending(mData'[r]) /\ S!ToSet(mData'[r]) = S!ToSet(mData[r]) \cup N
          /\ \A q \in On(c) : q # r => mData'[q] = mData[q]
      BY <1>4, <2>2, <2>3, <3>2
    <3>6. Typed /\ r \in On(c) /\ On(c)' = On(c) /\ S!ToSet(mOut[c]) \subseteq N
      BY <1>1, <1>2, <1>4, <3>2
    <3>. QED
      BY <2>4, <3>1, <3>3, <3>4, <3>5, <3>6, Replied
  <2>. QED
    BY <2>5, <2>6, <2>7, <2>8 DEF Each
<1>. QED
  BY <1>6, <1>7

LEMMA ReceiveStep ==
  ASSUME Inv, NEW c \in Connection, receive(c)
  PROVE  AnsweredWhenEnded' /\ \A d \in Connection : Each(d)'
<1>1. PICK unit \in Nat : unit = sent[c] + 1
  BY DEF Inv, Typed
<1>2. /\ Typed /\ Each(c) /\ Output(c) /\ sent[c] \in Nat
      /\ mOut[c] \in Seq(Nat) /\ mData \in Seq(Seq(Nat)) /\ Len(mData) = Len(requests)
      /\ mHbdpRequest[c] \in 0..Len(requests)
  BY DEF Inv, Typed, Each
<1>3. /\ requests' = requests /\ got' = got /\ mSerialNumber' = mSerialNumber
      /\ mEndReceived' = mEndReceived /\ sent' = [sent EXCEPT ![c] = unit]
      /\ sent'[c] = unit /\ \A d \in Connection : d # c => sent'[d] = sent[d]
  BY <1>1 DEF receive, Inv, Typed
<1>4. \A d : On(d)' = On(d) /\ On(d) \subseteq 1..Len(requests)
  BY <1>2, <1>3, OnTyped DEF On
<1>5. \A u : u \in 1..sent'[c] <=> u \in 1..sent[c] \cup {unit}
  BY <1>1, <1>2, <1>3
<1>6. \A u \in 1..sent[c] : u < unit
  BY <1>1, <1>2
<1>7. CASE Holds(c)
  <2>1. PICK r \in On(c) : mHbdpRequest[c] = r /\ r # 0 /\ \A q \in On(c) : q <= r
    BY <1>2, <1>7 DEF Holds, Each, Newest
  <2>. DEFINE D == Append(mData[r], unit)
  <2>2. /\ mData' = [mData EXCEPT ![r] = D] /\ answered' = answered \cup {r}
        /\ mHbdpRequest' = [mHbdpRequest EXCEPT ![c] = 0] /\ mOut' = mOut
    BY <1>1, <1>7, <2>1 DEF receive, endRequest
  <2>3. r \in 1..Len(mData) /\ mData[r] \in Seq(Nat) /\ mOut[c] = <<>>
    BY <1>2, <1>4, <1>7 DEF Output
  <2>4. /\ D \in Seq(Nat) /\ S!ToSet(D) = S!ToSet(mData[r]) \cup {unit} /\ Ascending(D)
    BY <1>2, <1>6, <2>3, Appended DEF Output
  <2>. HIDE DEF D
  <2>5. mData'[r] = D /\ \A q \in 1..Len(requests) \ {r} : mData'[q] = mData[q]
    BY <1>2, <2>2, <2>3, <2>4, ExceptSeq
  <2>6. mHbdpRequest'[c] = 0 /\ \A d \in Connection : d # c => mHbdpRequest'[d] = mHbdpRequest[d]
    BY <1>2, <2>2 DEF Typed
  <2>7. AnsweredWhenEnded'
    <3>1. requests[r].state # "receiving"
      BY <1>2, <1>7 DEF Each, Newest, Holds
    <3>. QED
      BY <1>3, <2>2, <3>1 DEF Inv, AnsweredWhenEnded
  <2>8. ASSUME NEW d \in Connection, d # c PROVE Each(d)'
    <3>1. r \notin On(d)
      BY <2>8 DEF On
    <3>2. Kept(d)
      BY <1>3, <1>4, <2>2, <2>5, <2>6, <2>8, <3>1 DEF Kept
    <3>. QED
      BY <3>2, EachKept DEF Inv
  <2>9. Serials(c)' /\ Newest(c)' /\ Got(c)'
    BY <1>2, <1>3, <1>4, <1>7, <2>6 DEF Each, Serials, Newest, Got, Holds
  <2>10. Output(c)'
    <3>1. \A q \in On(c) : q # r => \A x \in S!ToSet(mData[q]), y \in {unit} : x < y
      BY <1>2, <1>6 DEF Output
    <3>2. S!ToSet(mOut[c]) \subseteq {unit} /\ mOut'[c] = <<>>
      BY <2>2, <2>3, Emptied
    <3>3. \A q \in On(c) : q # r => mData'[q] = mData[q]
      BY <1>4, <2>5
    <3>4. /\ Ascending(mData'[r]) /\ S!ToSet(mData'[r]) = S!ToSet(mData[r]) \cup {unit}
      BY <2>4, <2>5
    <3>5. Typed /\ Output(c) /\ r \in On(c) /\ On(c)' = On(c) /\ \A q \in On(c) : q <= r
      BY <1>2, <1>4, <2>1
    <3>. QED
      BY <1>5, <3>1, <3>2, <3>3, <3>4, <3>5, Replied, ZenonT(60)
  <2>. QED
    BY <2>7, <2>8, <2>9, <2>10 DEF Each
<1>8. CASE ~Holds(c)
  <2>1. /\ mOut' = [mOut EXCEPT ![c] = Append(mOut[c], unit)]
        /\ mData' = mData /\ answered' = answered /\ mHbdpRequest' = mHbdpRequest
    BY <1>1, <1>8 DEF receive
  <2>2. /\ mOut'[c] = Append(mOut[c], unit)
        /\ \A d \in Connection : d # c => mOut'[d] = mOut[d]
    BY <1>2, <2>1 DEF Typed
  <2>3. AnsweredWhenEnded'
    BY <1>3, <2>1 DEF Inv, AnsweredWhenEnded
  <2>4. ASSUME NEW d \in Connection, d # c PROVE Each(d)'
    <3>1. Kept(d)
      BY <1>3, <1>4, <2>1, <2>2, <2>4 DEF Kept
    <3>. QED
      BY <3>1, EachKept DEF Inv
  <2>5. Serials(c)' /\ Newest(c)' /\ Got(c)'
    BY <1>2, <1>3, <1>4, <2>1 DEF Each, Serials, Newest, Got
  <2>6. Output(c)'
    <3>1. /\ Ascending(mOut'[c]) /\ S!ToSet(mOut'[c]) = S!ToSet(mOut[c]) \cup {unit}
      BY <1>2, <1>6, <2>2, Appended DEF Output
    <3>2. \A q \in On(c) : Before(mData[q], mOut'[c])
      BY <1>2, <1>6, <3>1, BeforeSets DEF Output
    <3>3. ~Holds(c)'
      BY <1>3, <1>8, <2>1 DEF Holds
    <3>4. \A u : u \in 1..sent'[c] <=>
            u \in S!ToSet(mOut'[c]) \/ \E q \in On(c) : u \in S!ToSet(mData[q])
      BY <1>2, <1>5, <3>1 DEF Output
    <3>. QED
      BY <1>2, <1>4, <2>1, <3>1, <3>2, <3>3, <3>4 DEF Output
  <2>. QED
    BY <2>3, <2>4, <2>5, <2>6 DEF Each
<1>. QED
  BY <1>7, <1>8

-----------------------------------------------------------------------------
(* The theorems *)

LEMMA InvInitially == Init => Inv
<1>. SUFFICES ASSUME Init PROVE Inv
  OBVIOUS
<1>1. Typed
  BY HbdpAssumption, MaxConnections \in Nat DEF Init, Typed
<1>2. AnsweredWhenEnded
  BY DEF Init, AnsweredWhenEnded
<1>4. Counted
  BY HbdpAssumption DEF Init, Counted
<1>3. ASSUME NEW c \in Connection PROVE Each(c)
  <2>1. On(c) = {} /\ mHbdpRequest[c] = 0 /\ mOut[c] = <<>> /\ got[c] = <<>> /\ sent[c] = 0
    BY DEF Init, On
  <2>2. Serials(c) /\ Newest(c)
    BY <2>1 DEF Serials, Newest
  <2>3. Got(c) /\ Output(c)
    BY <2>1, Emptied DEF Got, Output
  <2>. QED
    BY <2>2, <2>3 DEF Each
<1>. QED
  BY <1>1, <1>2, <1>3, <1>4 DEF Inv

LEMMA InvStep ==
  ASSUME "overlap" \notin Liberties, "flood" \notin Liberties, Inv, [Next]_vars
  PROVE  Inv'
<1>. DEFINE Rest == Typed /\ AnsweredWhenEnded /\ \A c \in Connection : Each(c)
<1>7. Counted'
  BY CountedStep DEF Inv, Each
<1>1. ASSUME NEW c \in mConnections, NEW serial \in 0..MaxSerial, Accept(c, serial)
      PROVE  Rest'
  BY <1>1, TypeConnection, AcceptStep DEF Inv
<1>2. ASSUME NEW c \in mConnections, NEW serial \in 0..MaxSerial, Delete(c, serial)
      PROVE  Rest'
  BY <1>2, TypeConnection, DeleteStep DEF Inv
<1>3. ASSUME NEW r \in 1..Len(requests), OfRequest(r) PROVE Rest'
  <2>1. \A c \in Connection : Newest(c)
    BY DEF Inv, Each
  <2>2. Typed'
    BY <1>3, <2>1, TypeRequest DEF Inv
  <2>3. AnsweredWhenEnded' /\ \A d \in Connection : Each(d)'
    BY <1>3, DataStep, EndStep, AbortStep DEF OfRequest
  <2>. QED
    BY <2>2, <2>3 DEF Connection
<1>4. ASSUME NEW c \in Connection, receive(c) PROVE Rest'
  BY <1>4, TypeReceive, ReceiveStep DEF Inv
<1>5. ASSUME NEW id, NEW serial, Refuse(id, serial) PROVE Rest'
  <2>1. Typed /\ Typed' /\ Request(0, 0)
    BY <1>5, TypeOthers DEF Inv, Refuse
  <2>2. AnsweredWhenEnded'
    <3>1. \A r \in 1..Len(requests) : requests'[r] = requests[r]
      <4>1. 0 \in 0..made
        BY <2>1, Made
      <4>. QED
        BY <2>1, <4>1, Added
    <3>. QED
      BY <1>5, <2>1, <3>1 DEF Inv, AnsweredWhenEnded, Refuse, Typed
  <2>3. ASSUME NEW d \in Connection PROVE Each(d)'
    <3>1. Kept(d)
      BY <1>5, <2>1, RefusedKeeps DEF Kept, Refuse, connection, application
    <3>. QED
      BY <3>1, EachKept DEF Inv
  <2>. QED
    BY <2>1, <2>2, <2>3
<1>6. ASSUME Create \/ Tick \/ UNCHANGED vars PROVE Rest'
  <2>1. /\ requests' = requests /\ mData' = mData /\ answered' = answered
        /\ mSerialNumber' = mSerialNumber /\ mHbdpRequest' = mHbdpRequest
        /\ mOut' = mOut /\ mEndReceived' = mEndReceived /\ got' = got /\ sent' = sent
    BY <1>6 DEF Create, Tick, vars, connection, http, application
  <2>2. Typed'
    <3>1. CASE UNCHANGED vars
      BY <2>1, <3>1 DEF Inv, Typed, vars, server
    <3>. QED
      BY <1>6, <3>1, TypeOthers DEF Inv
  <2>3. AnsweredWhenEnded'
    BY <2>1 DEF Inv, AnsweredWhenEnded
  <2>4. ASSUME NEW d \in Connection PROVE Each(d)'
    BY <2>1, EachKept DEF Inv, Kept, On
  <2>. QED
    BY <2>2, <2>3, <2>4
<1>. QED
  <2>1. MaxSerial \in Nat /\ \A id : Named(id) \subseteq mConnections
    BY HbdpAssumption, Made DEF Inv
  <2>. QED
    BY <1>1, <1>2, <1>3, <1>4, <1>5, <1>6, <1>7, <2>1 DEF Next, OfRequest, Inv

LEMMA InvAlways ==
  ASSUME "overlap" \notin Liberties, "flood" \notin Liberties PROVE Spec => []Inv
<1>1. Init => Inv
  BY InvInitially
<1>2. Inv /\ [Next]_vars => Inv'
  BY InvStep
<1>. QED
  BY <1>1, <1>2, PTL DEF Spec

\* Output is neither lost nor doubled nor reordered (HbdpConnection::receive
\* and handleEnd), however requests and calls interleave.
THEOREM OutputAlwaysOnceInOrder ==
  ASSUME "overlap" \notin Liberties, "flood" \notin Liberties
  PROVE  Spec => []OutputOnceInOrder
<1>1. Inv => OutputOnceInOrder
  <2>. SUFFICES ASSUME Inv, NEW c \in 1..made
                PROVE  LET replies == {r \in DOMAIN requests : requests[r].on = c}
                       IN  /\ Ascending(mOut[c]) /\ \A r \in replies : Ascending(mData[r])
                           /\ \A r \in replies : Before(mData[r], mOut[c])
                           /\ \A r, q \in replies : Precedes(r, q) => Before(mData[r], mData[q])
                           /\ S!ToSet(mOut[c]) \cup UNION {S!ToSet(mData[r]) : r \in replies} = 1..sent[c]
    BY DEF OutputOnceInOrder
  <2>1. Typed /\ c \in Connection /\ Output(c) /\ Serials(c)
    BY Made DEF Inv, Each
  <2>2. ASSUME NEW r \in On(c), NEW q \in On(c), Precedes(r, q) PROVE r < q
    <3>1. /\ r \in Nat /\ q \in Nat /\ requests[r].serial \in Nat /\ requests[q].serial \in Nat
      BY <2>1, OnTyped
    <3>2. requests[r].serial < requests[q].serial
      BY <2>2 DEF Precedes
    <3>3. ~(q < r) /\ q # r
      BY <2>1, <3>1, <3>2 DEF Serials
    <3>. QED
      BY <3>1, <3>3
  <2>3. \A u : u \in S!ToSet(mOut[c]) \cup UNION {S!ToSet(mData[r]) : r \in On(c)}
               <=> u \in 1..sent[c]
    BY <2>1 DEF Output
  <2>4. S!ToSet(mOut[c]) \cup UNION {S!ToSet(mData[r]) : r \in On(c)} = 1..sent[c]
    BY <2>3
  <2>5. \A r, q \in On(c) : Precedes(r, q) => Before(mData[r], mData[q])
    BY <2>1, <2>2 DEF Output
  <2>. QED
    BY <2>1, <2>4, <2>5 DEF Output, On
<1>. QED
  BY <1>1, InvAlways, PTL

\* The bodies come in the order of the serial numbers, each at most once, and
\* no number is accepted twice (HbdpConnection::instantiateHttpRequest).
THEOREM InputAlwaysOnceInOrder ==
  ASSUME "overlap" \notin Liberties, "flood" \notin Liberties
  PROVE  Spec => []InputOnceInOrder
<1>1. Inv => InputOnceInOrder
  <2>. SUFFICES ASSUME Inv PROVE InputOnceInOrder
    OBVIOUS
  <2>1. Typed
    BY DEF Inv
  <2>2. \A c \in 1..made : Ascending(got[c])
    BY <2>1, Made DEF Inv, Each, Got
  <2>3. ASSUME NEW r \in DOMAIN requests, NEW q \in DOMAIN requests,
               r < q, requests[r].on = requests[q].on, requests[r].on # 0
        PROVE  Precedes(r, q)
    <3>1. PICK c \in Connection : r \in On(c) /\ q \in On(c)
      BY <2>1, <2>3, Made, OnTyped DEF On
    <3>. QED
      BY <2>3, <3>1 DEF Inv, Each, Serials, Precedes
  <2>. QED
    BY <2>2, <2>3 DEF InputOnceInOrder
<1>. QED
  BY <1>1, InvAlways, PTL

\* No request is answered while it is still coming (HbdpConnection::receive,
\* endRequest).
THEOREM AlwaysAnsweredWhenEnded ==
  ASSUME "overlap" \notin Liberties, "flood" \notin Liberties
  PROVE  Spec => []AnsweredWhenEnded
<1>1. Inv => AnsweredWhenEnded
  BY DEF Inv
<1>. QED
  BY <1>1, InvAlways, PTL

-----------------------------------------------------------------------------
(* Requests that are held *)

\* Of one request.
Remembered(r) ==
  LET c == requests[r].on
  IN  c # 0 /\ r \notin answered =>
        /\ c \in mConnections /\ r = mHbdpRequest[c]
        /\ requests[r].state = "ended" => mOut[c] = <<>>

LEMMA RememberedStep ==
  ASSUME "overlap" \notin Liberties, "flood" \notin Liberties,
         "delete" \notin Liberties,
         Inv, NoneForgotten, [Next]_vars
  PROVE  NoneForgotten'
<1>1. /\ Typed /\ DOMAIN requests = 1..Len(requests) /\ Len(requests) \in Nat
      /\ \A r \in 1..Len(requests) : Remembered(r)
  BY OnTyped DEF Inv, NoneForgotten, Remembered
<1>2. Typed' /\ DOMAIN requests' = 1..Len(requests')
  BY InvStep DEF Inv, Typed
<1>3. SUFFICES \A r \in 1..Len(requests') : Remembered(r)'
  BY <1>2 DEF NoneForgotten, Remembered
<1>4. /\ 1..made \subseteq Connection /\ mConnections \subseteq Connection
      /\ \A id : Named(id) \subseteq mConnections
      /\ \A r \in 1..Len(requests) : requests[r].on \in 0..made
      /\ made \in Nat /\ 0 \in 0..made /\ 0 \notin Connection /\ MaxSerial \in Nat
  BY <1>1, Made, HbdpAssumption DEF Connection
<1>5. ASSUME NEW c \in mConnections, NEW serial \in Nat, Accept(c, serial),
             NEW r \in 1..Len(requests')
      PROVE  Remembered(r)'
  <2>. DEFINE n == Len(requests) + 1
  <2>1. c \in 0..made /\ c # 0 /\ Request(c, serial)
    <3>1. c \in 1..made /\ Request(c, serial)
      BY <1>1, <1>5 DEF Accept, Typed
    <3>. QED
      BY <1>4, <3>1
  <2>2. /\ Len(requests') = n
        /\ \A q \in 1..Len(requests) : requests'[q] = requests[q]
        /\ requests'[n] = [on |-> c, serial |-> serial, state |-> "receiving"]
    BY <1>1, <2>1, Added
  <2>3. /\ mConnections' = mConnections /\ mOut' = mOut
        /\ answered' = answered \cup ({mHbdpRequest[c]} \ {0})
        /\ mHbdpRequest'[c] = n
        /\ \A d \in Connection : d # c => mHbdpRequest'[d] = mHbdpRequest[d]
    BY <1>1, <1>4, <1>5, <2>2 DEF Accept, endRequest, server, Typed
  <2>4. CASE r = n
    BY <2>2, <2>3, <2>4 DEF Remembered
  <2>5. CASE r \in 1..Len(requests)
    <3>1. r # 0 /\ requests'[r] = requests[r] /\ Remembered(r) /\ mConnections \subseteq Connection
      BY <1>1, <1>4, <2>2, <2>5
    <3>. QED
      BY <2>3, <3>1 DEF Remembered
  <2>. QED
    BY <1>1, <2>2, <2>4, <2>5
<1>6. ASSUME NEW c \in mConnections, NEW serial \in Nat, Delete(c, serial),
             NEW r \in 1..Len(requests')
      PROVE  Remembered(r)'
  <2>. DEFINE n == Len(requests) + 1
  <2>1. Request(0, 0)
    BY <1>6 DEF Delete
  <2>2. /\ Len(requests') = n
        /\ \A q \in 1..Len(requests) : requests'[q] = requests[q]
        /\ requests'[n] = [on |-> 0, serial |-> 0, state |-> "receiving"]
    BY <1>1, <1>4, <2>1, Added
  <2>3. CASE r = n
    BY <2>2, <2>3 DEF Remembered
  <2>4. CASE r \in 1..Len(requests)
    <3>1. r # 0 /\ requests'[r] = requests[r] /\ Remembered(r)
      BY <1>1, <2>2, <2>4
    <3>2. mOut' = mOut /\ mConnections' = mConnections \ {c} /\ answered \subseteq answered'
      BY <1>6 DEF Delete, endRequest
    <3>3. CASE requests[r].on # c
      <4>1. requests[r].on # 0 /\ r \notin answered =>
              mHbdpRequest'[requests[r].on] = mHbdpRequest[requests[r].on]
        BY <1>1, <1>4, <1>6, <3>1, <3>3 DEF Delete, Typed, Remembered
      <4>. QED
        BY <3>1, <3>2, <3>3, <4>1 DEF Remembered
    <3>4. CASE requests[r].on = c
      <4>1. r \in answered \/ r = mHbdpRequest[c]
        BY <1>4, <3>1, <3>4 DEF Remembered
      <4>2. CASE mSerialNumber[c] = serial
        <5>1. answered' = answered \cup ({mHbdpRequest[c]} \ {0})
          BY <1>6, <4>2 DEF Delete, endRequest
        <5>. QED
          BY <3>1, <4>1, <5>1 DEF Remembered
      <4>3. CASE mSerialNumber[c] # serial
        BY <1>6, <3>1, <3>2, <4>1, <4>3 DEF Delete, MayDelete, Remembered
      <4>. QED
        BY <4>2, <4>3
    <3>. QED
      BY <3>3, <3>4
  <2>. QED
    BY <1>1, <2>2, <2>3, <2>4
<1>7. ASSUME NEW id, NEW serial, Refuse(id, serial), NEW r \in 1..Len(requests')
      PROVE  Remembered(r)'
  <2>. DEFINE n == Len(requests) + 1
  <2>1. Request(0, 0)
    BY <1>7 DEF Refuse
  <2>2. /\ Len(requests') = n
        /\ \A q \in 1..Len(requests) : requests'[q] = requests[q]
        /\ requests'[n] = [on |-> 0, serial |-> 0, state |-> "receiving"]
    BY <1>1, <1>4, <2>1, Added
  <2>3. CASE r = n
    BY <2>2, <2>3 DEF Remembered
  <2>4. CASE r \in 1..Len(requests)
    <3>1. requests'[r] = requests[r] /\ Remembered(r)
      BY <1>1, <2>2, <2>4
    <3>. QED
      BY <1>7, <3>1 DEF Remembered, Refuse, server, connection
  <2>. QED
    BY <1>1, <2>2, <2>3, <2>4
<1>8. ASSUME NEW q \in 1..Len(requests), receiveData(q), NEW r \in 1..Len(requests')
      PROVE  Remembered(r)'
  BY <1>1, <1>8 DEF receiveData, Remembered, server, connection, http
<1>9. ASSUME NEW q \in 1..Len(requests), receiveEnd(q), NEW r \in 1..Len(requests')
      PROVE  Remembered(r)'
  <2>1. PICK c \in Connection :
          /\ requests[q].on = c /\ c # 0 /\ mHbdpRequest[c] = q /\ q # 0
          /\ requests[q].state = "receiving" /\ Calls(q, "ended")
    BY <1>9, Coming DEF receiveEnd, Calls
  <2>2. /\ Len(requests') = Len(requests) /\ requests'[q].on = c
        /\ \A p \in 1..Len(requests) \ {q} : requests'[p] = requests[p]
    BY <1>1, <2>1, Called
  <2>3. mConnections' = mConnections /\ answered \subseteq answered'
    BY <1>9 DEF receiveEnd, endRequest, server
  <2>4. CASE mOut[c] = <<>>
    <3>1. mOut' = mOut /\ mHbdpRequest' = mHbdpRequest
      BY <1>9, <2>1, <2>4 DEF receiveEnd
    <3>2. Remembered(r)
      BY <1>1, <2>2
    <3>3. CASE r = q
      BY <2>1, <2>2, <2>3, <2>4, <3>1, <3>2, <3>3 DEF Remembered
    <3>4. CASE r # q
      BY <2>2, <2>3, <3>1, <3>2, <3>4 DEF Remembered
    <3>. QED
      BY <3>3, <3>4
  <2>5. CASE mOut[c] # <<>>
    <3>1. /\ mOut' = [mOut EXCEPT ![c] = <<>>]
          /\ answered' = answered \cup {q} /\ mHbdpRequest' = [mHbdpRequest EXCEPT ![c] = 0]
      <4>1. Flushed(c)
        BY <1>9, <2>1, <2>5 DEF receiveEnd
      <4>2. mOut' = [mOut EXCEPT ![c] = <<>>]
        BY <4>1, FlushedAll DEF Inv
      <4>. QED
        BY <1>9, <2>1, <2>5, <4>2 DEF receiveEnd, Flushed, endRequest
    <3>2. CASE r = q
      BY <3>1, <3>2 DEF Remembered
    <3>3. CASE r # q
      <4>1. Remembered(r) /\ requests'[r] = requests[r]
        BY <1>1, <2>2, <3>3
      <4>2. r \notin answered => requests[r].on # c
        BY <2>1, <3>3, <4>1 DEF Remembered
      <4>3. requests[r].on # 0 /\ r \notin answered => requests[r].on \in Connection
        BY <1>4, <4>1 DEF Remembered
      <4>. QED
        BY <1>1, <2>3, <3>1, <4>1, <4>2, <4>3 DEF Remembered, Typed
    <3>. QED
      BY <3>2, <3>3
  <2>. QED
    BY <2>4, <2>5
<1>10. ASSUME NEW q \in 1..Len(requests), NEW r \in 1..Len(requests'),
              receiveAbort(q) \/ \E state \in {"ended", "aborted"} : SimpleEnd(q, state)
       PROVE  Remembered(r)'
  <2>1. PICK state \in {"ended", "aborted"} :
          Calls(q, state) /\ (requests[q].on = 0 \/ state = "aborted")
    BY <1>10 DEF receiveAbort, SimpleEnd
  <2>2. /\ Len(requests') = Len(requests)
        /\ requests'[q].on = requests[q].on /\ requests'[q].state = state
        /\ \A p \in 1..Len(requests) \ {q} : requests'[p] = requests[p]
    BY <1>1, <2>1, Called
  <2>3. /\ mConnections' = mConnections /\ answered \subseteq answered'
        /\ mOut' = mOut /\ mHbdpRequest' = mHbdpRequest
    BY <1>10 DEF receiveAbort, SimpleEnd, server, connection
  <2>4. Remembered(r)
    BY <1>1, <2>2
  <2>5. requests'[r].on = requests[r].on
    BY <2>2
  <2>6. requests[r].on # 0 /\ requests'[r].state = "ended" => requests[r].state = "ended"
    BY <2>1, <2>2
  <2>. QED
    BY <2>3, <2>4, <2>5, <2>6 DEF Remembered
<1>11. ASSUME NEW c \in Connection, receive(c), NEW r \in 1..Len(requests')
       PROVE  Remembered(r)'
  <2>1. /\ requests' = requests /\ mConnections' = mConnections
        /\ Remembered(r) /\ Each(c) /\ c # 0 /\ r # 0
    BY <1>1, <1>4, <1>11 DEF receive, server, Inv
  <2>2. CASE Holds(c)
    <3>1. /\ answered' = answered \cup ({mHbdpRequest[c]} \ {0}) /\ mOut' = mOut
          /\ mHbdpRequest' = [mHbdpRequest EXCEPT ![c] = 0]
      BY <1>11, <2>2 DEF receive, endRequest
    <3>2. requests[r].on # 0 /\ r \notin answered => requests[r].on \in Connection
      BY <1>4, <2>1 DEF Remembered
    <3>. QED
      BY <1>1, <2>1, <3>1, <3>2 DEF Remembered, Typed
  <2>3. CASE ~Holds(c)
    <3>1. /\ answered' = answered /\ mHbdpRequest' = mHbdpRequest
          /\ \A d \in Connection : d # c => mOut'[d] = mOut[d]
      BY <1>1, <1>11, <2>3 DEF receive, Typed
    <3>2. CASE requests[r].on # c
      <4>1. requests[r].on # 0 /\ r \notin answered => requests[r].on \in Connection
        BY <1>4, <2>1 DEF Remembered
      <4>. QED
        BY <2>1, <3>1, <3>2, <4>1 DEF Remembered
    <3>3. CASE requests[r].on = c
      <4>1. r \notin answered => requests[r].state # "ended"
        BY <2>1, <2>3, <3>3 DEF Remembered, Each, Newest, Holds
      <4>. QED
        BY <2>1, <3>1, <3>3, <4>1 DEF Remembered
    <3>. QED
      BY <3>2, <3>3
  <2>. QED
    BY <2>2, <2>3
<1>12. ASSUME Create \/ Tick \/ UNCHANGED vars, NEW r \in 1..Len(requests')
       PROVE  Remembered(r)'
  <2>1. /\ requests' = requests /\ answered' = answered /\ mHbdpRequest' = mHbdpRequest
        /\ mOut' = mOut /\ mConnections \subseteq mConnections'
    BY <1>12 DEF Create, Tick, vars, server, connection, http
  <2>. QED
    BY <1>1, <2>1 DEF Remembered
<1>. QED
  <2>1. 0..MaxSerial \subseteq Nat
    BY <1>4
  <2>. QED
    BY <1>4, <1>5, <1>6, <1>7, <1>8, <1>9, <1>10, <1>11, <1>12, <2>1 DEF Next

\* If clients do not name a wrong number to delete a connection with a request
\* that is held: every request is answered, or is the one that is held, and
\* then there is no output for it (HbdpConnection::instantiateHttpRequest,
\* handleEnd).
THEOREM NeverForgotten ==
  ASSUME "overlap" \notin Liberties, "flood" \notin Liberties,
         "delete" \notin Liberties
  PROVE  Spec => []NoneForgotten
<1>1. Init => NoneForgotten
  BY DEF Init, NoneForgotten
<1>2. Inv /\ NoneForgotten /\ [Next]_vars => NoneForgotten'
  BY RememberedStep
<1>. QED
  BY <1>1, <1>2, InvAlways, PTL DEF Spec
=============================================================================

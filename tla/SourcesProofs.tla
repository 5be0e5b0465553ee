--------------------------- MODULE SourcesProofs ---------------------------
(***************************************************************************)
(* Sources, for every number of connections and whatever is sent on them:  *)
(* their output is the wire's and the buffer's, in order; and, if peers    *)
(* wait until what they sent is read, no readiness is slept over.  And     *)
(* buffers, which they read into: for any finite number of buffers that    *)
(* share any bytes, what is kept beside the blocks agrees with the blocks  *)
(* there are.                                                              *)
(***************************************************************************)
EXTENDS Sources, Buffers, TLAPS, SequenceTheorems, FiniteSetTheorems, WellFoundedInduction

-----------------------------------------------------------------------------
(* Sequences *)

\* The elements of a sequence are at its places.
LEMMA Places ==
  ASSUME NEW q, NEW x PROVE x \in S!ToSet(q) <=> \E i \in DOMAIN q : q[i] = x
BY DEF S!ToSet

\* Of Append: the elements, and the new one.
LEMMA Appended ==
  ASSUME NEW T, NEW q \in Seq(T), NEW e \in T
  PROVE  /\ Append(q, e) \in Seq(T)
         /\ S!ToSet(Append(q, e)) = S!ToSet(q) \cup {e}
         /\ DOMAIN Append(q, e) = 1..(Len(q) + 1)
         /\ \A i \in 1..Len(q) : Append(q, e)[i] = q[i]
         /\ Append(q, e)[Len(q) + 1] = e
<1>1. /\ Append(q, e) \in Seq(T) /\ Len(Append(q, e)) = Len(q) + 1
      /\ \A i \in 1..Len(q) : Append(q, e)[i] = q[i]
      /\ Append(q, e)[Len(q) + 1] = e
  BY AppendProperties
<1>2. DOMAIN Append(q, e) = 1..(Len(q) + 1) /\ DOMAIN q = 1..Len(q) /\ Len(q) \in Nat
  BY <1>1
<1>3. \A x : x \in S!ToSet(Append(q, e)) <=> x \in S!ToSet(q) \cup {e}
  BY <1>1, <1>2 DEF S!ToSet
<1>. QED
  BY <1>1, <1>2, <1>3

\* Of Tail: the places move by one, and only the head is gone.
LEMMA Tailed ==
  ASSUME NEW T, NEW q \in Seq(T), q # <<>>
  PROVE  /\ Head(q) \in T /\ Tail(q) \in Seq(T)
         /\ S!ToSet(q) = S!ToSet(Tail(q)) \cup {Head(q)}
         /\ Len(q) \in Nat \ {0} /\ Head(q) = q[1] /\ DOMAIN q = 1..Len(q)
         /\ DOMAIN Tail(q) = 1..(Len(q) - 1)
         /\ \A i \in 1..(Len(q) - 1) : Tail(q)[i] = q[i + 1]
<1>1. /\ Head(q) \in T /\ Tail(q) \in Seq(T)
      /\ Len(q) \in Nat \ {0} /\ Head(q) = q[1] /\ DOMAIN q = 1..Len(q)
      /\ DOMAIN Tail(q) = 1..(Len(q) - 1)
      /\ \A i \in 1..(Len(q) - 1) : Tail(q)[i] = q[i + 1]
  BY HeadTailProperties
<1>2. \A i \in 1..Len(q) : i = 1 \/ (i - 1 \in DOMAIN Tail(q) /\ Tail(q)[i - 1] = q[i])
  BY <1>1
<1>3. \A i \in DOMAIN Tail(q) : i + 1 \in DOMAIN q /\ Tail(q)[i] = q[i + 1]
  BY <1>1
<1>4. \A x \in S!ToSet(q) : x \in S!ToSet(Tail(q)) \cup {Head(q)}
  <2>1. TAKE x \in S!ToSet(q)
  <2>2. PICK i \in DOMAIN q : q[i] = x
    BY Places
  <2>. QED
    BY <1>1, <1>2, <2>2, Places
<1>5. \A x \in S!ToSet(Tail(q)) : x \in S!ToSet(q)
  <2>1. TAKE x \in S!ToSet(Tail(q))
  <2>2. PICK i \in DOMAIN Tail(q) : Tail(q)[i] = x
    BY Places
  <2>. QED
    BY <1>3, <2>2, Places
<1>6. Head(q) \in S!ToSet(q)
  BY <1>1, Places
<1>. QED
  BY <1>1, <1>4, <1>5, <1>6

\* Of RemoveAt: only the element at the place is gone.
LEMMA Removed ==
  ASSUME NEW T, NEW q \in Seq(T), NEW n \in 1..Len(q)
  PROVE  /\ S!RemoveAt(q, n) \in Seq(T)
         /\ S!ToSet(q) \subseteq S!ToSet(S!RemoveAt(q, n)) \cup {q[n]}
<1>1. /\ Len(q) \in Nat /\ DOMAIN q = 1..Len(q)
      /\ \A i \in 1..Len(q) : q[i] \in T
  OBVIOUS
<1>. DEFINE r == S!RemoveAt(q, n)
<1>2. /\ r \in Seq(T)
      /\ Len(r) = Len(q) - 1
      /\ \A i \in 1..(Len(q) - 1) : r[i] = IF i < n THEN q[i] ELSE q[i + 1]
  <2>. DEFINE before == SubSeq(q, 1, n - 1)
              after == SubSeq(q, n + 1, Len(q))
  <2>2. /\ before \in Seq(T) /\ Len(before) = n - 1
      /\ \A i \in 1..(n - 1) : before[i] = q[i]
    BY <1>1, SubSeqProperties
  <2>3. /\ after \in Seq(T) /\ Len(after) = Len(q) - n
      /\ \A i \in 1..(Len(q) - n) : after[i] = q[n + i]
    <3>1. \A i \in (n + 1)..Len(q) : q[i] \in T
      BY <1>1
    <3>2. /\ after \in Seq(T)
          /\ \A i \in 1..(Len(q) - (n + 1) + 1) : after[i] = q[(n + 1) + i - 1]
      BY <1>1, <3>1, SubSeqProperties
    <3>4. Len(after) = IF n + 1 <= Len(q) THEN Len(q) - (n + 1) + 1 ELSE 0
      BY <1>1, <3>1, SubSeqProperties
    <3>. HIDE DEF after, before, r
    <3>3. \A i \in 1..(Len(q) - n) : after[i] = q[n + i]
      <4>1. TAKE i \in 1..(Len(q) - n)
      <4>2. i \in 1..(Len(q) - (n + 1) + 1) /\ (n + 1) + i - 1 = n + i
        BY <1>1
      <4>. QED
        BY <3>2, <4>2
    <3>5. Len(after) = Len(q) - n
      <4>1. n \in Nat /\ Len(q) \in Nat /\ n <= Len(q)
        BY <1>1
      <4>. QED
        BY <3>4, <4>1
    <3>. QED
      BY <3>2, <3>3, <3>5
  <2>5. r = before \o after
    BY DEF S!RemoveAt
  <2>. HIDE DEF before, after, r
  <2>4. /\ r \in Seq(T)
      /\ Len(r) = Len(q) - 1
      /\ \A i \in 1..(Len(q) - 1) :
           r[i] = IF i <= n - 1 THEN before[i] ELSE after[i - (n - 1)]
    <3>1. /\ before \o after \in Seq(T)
          /\ Len(before \o after) = Len(before) + Len(after)
          /\ \A i \in 1..(Len(before) + Len(after)) : (before \o after)[i] =
               IF i <= Len(before) THEN before[i] ELSE after[i - Len(before)]
      BY <2>2, <2>3, ConcatProperties
    <3>. QED
      BY <1>1, <2>2, <2>3, <2>5, <3>1
  <2>. QED
    BY <1>1, <2>2, <2>3, <2>4
<1>. HIDE DEF r
<1>3. DOMAIN r = 1..(Len(q) - 1)
  BY <1>2
<1>4. \A i \in 1..Len(q) : i = n \/ \E j \in 1..(Len(q) - 1) : r[j] = q[i]
  <2>1. TAKE i \in 1..Len(q)
  <2>2. CASE i < n
    BY <1>1, <1>2, <2>2
  <2>3. CASE i > n
    <3>1. i - 1 \in 1..(Len(q) - 1) /\ ~(i - 1 < n)
      BY <1>1, <2>3
    <3>2. r[i - 1] = q[i - 1 + 1]
      BY <1>2, <3>1
    <3>. QED
      BY <1>1, <3>1, <3>2
  <2>. QED
    BY <1>1, <2>2, <2>3
<1>5. \A x \in S!ToSet(q) : x \in S!ToSet(r) \cup {q[n]}
  BY <1>1, <1>4, <1>3, Places
<1>. QED
  BY <1>2, <1>5 DEF r

-----------------------------------------------------------------------------
(* What is numbered *)

\* Bytes numbered on from those taken before.
LEMMA NumberedOn ==
  ASSUME NEW t \in Nat, NEW n \in Nat
  PROVE  /\ Numbered(t, t + n) \in Seq(Nat) /\ Len(Numbered(t, t + n)) = n
         /\ Numbered(0, t) \o Numbered(t, t + n) = Numbered(0, t + n)
<1>. DEFINE s == Numbered(0, t)
            u == Numbered(t, t + n)
            v == Numbered(0, t + n)
<1>1. /\ s \in Seq(Nat) /\ Len(s) = t /\ \A i \in 1..t : s[i] = i
  BY DEF Numbered
<1>2. /\ u \in Seq(Nat) /\ Len(u) = n /\ \A i \in 1..n : u[i] = t + i
  BY DEF Numbered
<1>3. /\ v \in Seq(Nat) /\ Len(v) = t + n /\ \A i \in 1..(t + n) : v[i] = i
  BY DEF Numbered
<1>. HIDE DEF s, u, v
<1>4. /\ s \o u \in Seq(Nat) /\ Len(s \o u) = t + n
      /\ \A i \in 1..(t + n) : (s \o u)[i] = IF i <= t THEN s[i] ELSE u[i - t]
  BY <1>1, <1>2, ConcatProperties, ZenonT(60)
<1>5. \A i \in 1..(t + n) : (s \o u)[i] = v[i]
  BY <1>1, <1>2, <1>3, <1>4, SMTT(60)
<1>6. s \o u = v
  BY <1>3, <1>4, <1>5, SeqEqual
<1>. QED
  BY <1>2, <1>6 DEF s, u, v

\* What is added to either of two parts comes behind the whole.
LEMMA Extended ==
  ASSUME NEW T, NEW s \in Seq(T), NEW t \in Seq(T), NEW u \in Seq(T)
  PROVE  s \o (t \o u) = (s \o t) \o u
BY ConcatAssociative, SMTT(60)

Byte == 1..MaxOut

\* Those a call of receive() may take are numbers of bytes.
LEMMA NumberedTyped ==
  ASSUME NEW t \in Nat, NEW n \in Nat, t + n <= MaxOut
  PROVE  Numbered(t, t + n) \in Seq(Byte)
BY SourcesAssumption DEF Numbered, Byte

-----------------------------------------------------------------------------
(* Types *)

\* What write() took and what is left is all the data.
LEMMA Cut ==
  ASSUME NEW T, NEW data \in Seq(T), NEW n \in 0..Len(data)
  PROVE  /\ SubSeq(data, 1, n) \in Seq(T)
         /\ SubSeq(data, n + 1, Len(data)) \in Seq(T)
         /\ SubSeq(data, 1, n) \o SubSeq(data, n + 1, Len(data)) = data
<1>1. /\ Len(data) \in Nat /\ \A i \in 1..Len(data) : data[i] \in T
  OBVIOUS
<1>2. /\ \A i \in 1..n : data[i] \in T
      /\ \A i \in (n + 1)..Len(data) : data[i] \in T
  BY <1>1
<1>3. SubSeq(data, 1, n) \in Seq(T)
  BY <1>1, <1>2, SubSeqProperties
<1>4. SubSeq(data, n + 1, Len(data)) \in Seq(T)
  BY <1>1, <1>2, SubSeqProperties
<1>5. SubSeq(data, 1, n) \o SubSeq(data, n + 1, Len(data)) = SubSeq(data, 1, Len(data))
  <2>1. /\ 1 \in 1..(Len(data) + 1) /\ n \in (1 - 1)..Len(data)
        /\ Len(data) \in n..Len(data)
    BY <1>1
  <2>. QED
    BY <2>1, ConcatAdjacentSubSeq
<1>6. SubSeq(data, 1, Len(data)) = data
  BY SubSeqFull
<1>. QED
  BY <1>3, <1>4, <1>5, <1>6, Zenon

\* What precedes anything in numbered bytes is numbered.
LEMMA BeginsNumbered ==
  ASSUME NEW T, NEW s \in Seq(T), NEW t \in Seq(T), NEW n \in Nat, s \o t = Numbered(0, n)
  PROVE  s = Numbered(0, Len(s)) /\ Len(s) \in Nat /\ Len(s) + Len(t) = n
<1>1. /\ Len(s) \in Nat /\ Len(t) \in Nat /\ Len(s \o t) = Len(s) + Len(t)
      /\ \A i \in 1..Len(s) : (s \o t)[i] = s[i]
  BY ConcatProperties
<1>2. /\ Numbered(0, n) \in Seq(Nat) /\ Len(Numbered(0, n)) = n
      /\ \A i \in 1..n : Numbered(0, n)[i] = i
  BY DEF Numbered
<1>3. /\ Numbered(0, Len(s)) \in Seq(Nat) /\ Len(Numbered(0, Len(s))) = Len(s)
      /\ \A i \in 1..Len(s) : Numbered(0, Len(s))[i] = i
  BY <1>1 DEF Numbered
<1>4. Len(s) + Len(t) = n
  BY <1>1, <1>2
<1>5. ASSUME NEW i \in 1..Len(s) PROVE s[i] = i
  <2>1. i \in 1..n
    BY <1>1, <1>4
  <2>2. (s \o t)[i] = Numbered(0, n)[i]
    OBVIOUS
  <2>. QED
    BY <1>1, <1>2, <2>1, <2>2, Zenon
<1>6. s \in Seq(Nat)
  BY <1>1, <1>5
<1>7. s = Numbered(0, Len(s))
  BY <1>3, <1>5, <1>6, SeqEqual
<1>. QED
  BY <1>1, <1>4, <1>7

Streams ==
  /\ wire \in [Conn -> Seq(Byte)] /\ mWriteBuffer \in [Conn -> Seq(Byte)]
  /\ taken \in [Conn -> 0..MaxOut] /\ space \in [Conn -> 0..Space]
  /\ mWriteEof \in [Conn -> BOOLEAN]
  /\ writing \in [conn : Conn \cup {Nobody}, data : Seq(Byte), length : 0..MaxOut]

\* What is left in the write() loop goes on where the wire ends.
InLoop(c) ==
  /\ mWriteBuffer[c] = <<>>
  /\ wire[c] \o writing.data = Numbered(0, taken[c] + writing.length)
  /\ taken[c] + writing.length <= MaxOut

Ordered == OutputInOrder /\ \A c \in Conn : writing.conn = c => InLoop(c)

\* OutputInOrder of one connection.
InOrder(c) ==
  LET out == wire[c] \o mWriteBuffer[c]
  IN  /\ out = Numbered(0, Len(out))
      /\ taken[c] <= Len(out)
      /\ taken[c] < Len(out) =>
           writing.conn = c \/ (mWriteEof[c] /\ mWriteBuffer[c] = <<>>)

LEMMA OrderedIs == Ordered <=> \A c \in Conn : InOrder(c) /\ (writing.conn = c => InLoop(c))
BY DEF Ordered, OutputInOrder, InOrder

\* One connection's output changes, in the only call there is.
LEMMA OneOrdered ==
  ASSUME Ordered, NEW c \in Conn, InOrder(c)', writing'.conn = c => InLoop(c)',
         writing.conn \in {c, Nobody}, writing'.conn \in {c, Nobody},
         \A d \in Conn \ {c} : UNCHANGED <<wire[d], mWriteBuffer[d], taken[d], mWriteEof[d]>>
  PROVE  Ordered'
<1>1. ASSUME NEW d \in Conn \ {c}
      PROVE  InOrder(d)' /\ writing'.conn # d
  <2>1. InOrder(d) /\ writing.conn # d /\ writing'.conn # d
    BY OrderedIs, SourcesAssumption, Zenon DEF SourcesAssumption
  <2>. QED
    BY <2>1 DEF InOrder
<1>. QED
  BY <1>1, Zenon DEF Ordered, OutputInOrder, InOrder

\* Nothing is sent: ends are marked only.
LEMMA OrderKept ==
  ASSUME Ordered, UNCHANGED <<wire, mWriteBuffer, taken, writing>>,
         \A c \in Conn : mWriteEof[c] => mWriteEof'[c]
  PROVE  Ordered'
BY DEF Ordered, OutputInOrder, InLoop

\* All accepted is out: there are no others in the output.
LEMMA AllOut ==
  ASSUME Streams, Ordered, NEW c \in Conn, writing.conn # c,
         mWriteBuffer[c] # <<>> \/ ~mWriteEof[c]
  PROVE  wire[c] \o mWriteBuffer[c] = Numbered(0, taken[c])
<1>1. /\ wire[c] \o mWriteBuffer[c] \in Seq(Byte) /\ Len(wire[c] \o mWriteBuffer[c]) \in Nat
      /\ taken[c] \in Nat
  <2>1. wire[c] \in Seq(Byte) /\ mWriteBuffer[c] \in Seq(Byte) /\ taken[c] \in Nat
    BY SourcesAssumption DEF Streams
  <2>. QED
    BY <2>1, ConcatProperties, LenProperties
<1>2. InOrder(c)
  BY OrderedIs
<1>. DEFINE out == wire[c] \o mWriteBuffer[c]
<1>3. /\ out = Numbered(0, Len(out)) /\ taken[c] <= Len(out)
      /\ ~(taken[c] < Len(out))
  BY <1>2 DEF InOrder
<1>. DEFINE length == Len(out)
<1>4. length \in Nat /\ taken[c] \in Nat /\ taken[c] <= length /\ ~(taken[c] < length)
  BY <1>1, <1>3
<1>. HIDE DEF length
<1>5. length = taken[c]
  BY <1>4
<1>. HIDE DEF out
<1>. QED
  BY <1>3, <1>5 DEF length, out

\* receive(), of all that the application sends: what is accepted at once comes
\* behind the rest.
LEMMA SendStep ==
  ASSUME Streams, Ordered, NEW c \in Conn, NEW n \in 1..MaxOut, NEW isBuffer \in BOOLEAN,
         Send(c, n, isBuffer)
  PROVE  Streams' /\ Ordered'
<1>. DEFINE data == Numbered(taken[c], taken[c] + n)
<1>1. n \in Nat /\ taken[c] \in Nat /\ taken[c] + n <= MaxOut /\ MaxOut \in Nat
  BY SourcesAssumption DEF Streams, Send
<1>2. /\ data \in Seq(Byte) /\ Len(data) = n
      /\ Numbered(0, taken[c]) \o data = Numbered(0, taken[c] + n)
      /\ Len(Numbered(0, taken[c] + n)) = taken[c] + n
  <2>1. taken[c] + n \in Nat /\ 0 \in Nat /\ 0 + (taken[c] + n) = taken[c] + n
    BY <1>1
  <2>2. Len(Numbered(0, 0 + (taken[c] + n))) = taken[c] + n
    BY <2>1, NumberedOn
  <2>. QED
    BY <1>1, <2>1, <2>2, NumberedOn, NumberedTyped
<1>3. /\ wire[c] \in Seq(Byte) /\ mWriteBuffer[c] \in Seq(Byte)
      /\ writing = NoWriting /\ writing.conn = Nobody /\ c # Nobody
      /\ UNCHANGED <<wire, space, mWriteEof>>
  BY SourcesAssumption DEF Streams, Send, Runs, NoWriting, net
<1>. HIDE DEF data
<1>4. receive(c, data, isBuffer)
  BY DEF Send, data
<1>5. CASE UNCHANGED <<taken, mWriteBuffer, writing>>
  BY <1>3, <1>5, OrderKept DEF Streams
<1>6. CASE /\ mWriteBuffer[c] # <<>>
           /\ mWriteBuffer' = [mWriteBuffer EXCEPT ![c] = @ \o data]
           /\ taken' = [taken EXCEPT ![c] = @ + Len(data)]
           /\ UNCHANGED writing
  <2>. DEFINE w == wire[c]
              m == mWriteBuffer[c]
  <2>1. m \o data \in Seq(Byte) /\ taken[c] + n \in 0..MaxOut
    BY <1>1, <1>2, <1>3, ConcatProperties
  <2>2. Streams'
    BY <1>2, <1>3, <1>6, <2>1 DEF Streams
  <2>3. w \o m = Numbered(0, taken[c])
    BY <1>3, <1>6, AllOut
  <2>4. wire'[c] = w /\ mWriteBuffer'[c] = m \o data /\ taken'[c] = taken[c] + n
    BY <1>2, <1>3, <1>6 DEF Streams
  <2>5. w \in Seq(Byte) /\ m \in Seq(Byte)
    BY <1>3
  <2>. HIDE DEF w, m
  <2>6. w \o (m \o data) = Numbered(0, taken[c] + n)
    <3>1. w \o (m \o data) = (w \o m) \o data
      BY <1>2, <2>5, Extended, SMTT(60)
    <3>. QED
      BY <1>2, <2>3, <3>1
  <2>7. InOrder(c)'
    BY <1>1, <1>2, <2>4, <2>6 DEF InOrder
  <2>8. \A d \in Conn \ {c} : UNCHANGED <<wire[d], mWriteBuffer[d], taken[d], mWriteEof[d]>>
    BY <1>3, <1>6 DEF Streams
  <2>. QED
    BY <1>3, <1>6, <2>2, <2>7, <2>8, OneOrdered
<1>7. CASE /\ ~mWriteEof[c] /\ mWriteBuffer[c] = <<>>
           /\ writing' = [conn |-> c, data |-> data, length |-> Len(data)]
           /\ UNCHANGED <<taken, mWriteBuffer>>
  <2>1. wire[c] \o mWriteBuffer[c] = Numbered(0, taken[c]) /\ wire[c] \o <<>> = wire[c]
    BY <1>3, <1>7, AllOut, ConcatEmptySeq
  <2>2. wire[c] = Numbered(0, taken[c])
    BY <1>7, <2>1
  <2>3. InLoop(c)'
    BY <1>1, <1>2, <1>3, <1>7, <2>2 DEF InLoop
  <2>4. InOrder(c)'
    BY <1>3, <1>7, OrderedIs DEF InOrder
  <2>5. Streams'
    BY <1>1, <1>2, <1>3, <1>7 DEF Streams
  <2>. QED
    BY <1>3, <1>7, <2>3, <2>4, <2>5, OneOrdered
<1>. QED
  BY <1>4, <1>5, <1>6, <1>7 DEF receive

\* The write() loop: what is not written yet keeps its place, and what is refused
\* is the last there is.
LEMMA WriteStep ==
  ASSUME Streams, Ordered, NEW c \in Conn,
         (\E n \in 1..MaxOut : Write(c, n)) \/ WriteWouldBlock(c) \/ WriteFails(c)
  PROVE  Streams' /\ Ordered'
<1>. DEFINE w == wire[c]
            data == writing.data
            total == taken[c] + writing.length
<1>1. /\ writing.conn = c /\ c # Nobody /\ NoWriting.conn = Nobody
      /\ NoWriting \in [conn : Conn \cup {Nobody}, data : Seq(Byte), length : 0..MaxOut]
  BY SourcesAssumption DEF Write, WriteWouldBlock, WriteFails, NoWriting
<1>2. InLoop(c) /\ InOrder(c)
  BY <1>1, OrderedIs
<1>3. /\ w \in Seq(Byte) /\ data \in Seq(Byte) /\ taken[c] \in Nat /\ writing.length \in Nat
      /\ total \in 0..MaxOut /\ total \in Nat
      /\ mWriteBuffer[c] = <<>> /\ w \o data = Numbered(0, total) /\ w \o <<>> = w
  BY <1>2, SourcesAssumption, ConcatEmptySeq DEF InLoop, Streams
<1>4. taken[c] <= Len(w) /\ Len(w) \in Nat
  BY <1>2, <1>3, LenProperties DEF InOrder
<1>. HIDE DEF w, data, total
<1>5. ASSUME NEW s \in Seq(Byte), NEW t \in Seq(Byte), s \o t = Numbered(0, total)
      PROVE  s = Numbered(0, Len(s)) /\ Len(s) \in Nat /\ Len(s) + Len(t) = total
  <2>1. total \in Nat
    BY <1>3
  <2>. QED
    BY <1>5, <2>1, BeginsNumbered, Zenon
<1>6. Len(w \o data) = total
  <2>1. Len(w) + Len(data) = total
    BY <1>3, <1>5
  <2>. QED
    BY <1>3, <2>1, ConcatProperties
<1>7. ASSUME NEW n \in 1..MaxOut, Write(c, n) PROVE Streams' /\ Ordered'
  <2>. DEFINE first == SubSeq(data, 1, n)
              rest == SubSeq(data, n + 1, Len(data))
  <2>1. /\ n \in Nat /\ n <= Len(data) /\ n <= space[c] /\ Len(data) \in Nat
        /\ wire' = [wire EXCEPT ![c] = w \o first]
        /\ space' = [space EXCEPT ![c] = @ - n]
        /\ UNCHANGED <<mWriteBuffer, mWriteEof>>
    BY <1>3, <1>7, SourcesAssumption, LenProperties DEF Write, w, data
  <2>2. n \in 0..Len(data) /\ space[c] - n \in 0..Space
    <3>1. space[c] \in 0..Space /\ Space \in Nat
      BY SourcesAssumption DEF Streams
    <3>. QED
      BY <2>1, <3>1
  <2>3. first \in Seq(Byte) /\ rest \in Seq(Byte) /\ first \o rest = data
    BY <1>3, <2>2, Cut
  <2>4. n = Len(data) => first = data
    BY <1>3, SubSeqFull
  <2>5. \/ n = Len(data) /\ Accepted(c)
        \/ writing' = [writing EXCEPT !.data = rest] /\ UNCHANGED taken
    BY <1>7 DEF Write, data
  <2>. HIDE DEF first, rest
  <2>6. w \o first \in Seq(Byte)
    BY <1>3, <2>3, ConcatProperties
  <2>7. (w \o first) \o rest = Numbered(0, total)
    <3>1. w \o (first \o rest) = (w \o first) \o rest
      <4>1. w \in Seq(Byte) /\ first \in Seq(Byte) /\ rest \in Seq(Byte)
        BY <1>3, <2>3
      <4>. QED
        BY <4>1, Extended, SMTT(60)
    <3>. QED
      BY <1>3, <2>3, <3>1
  <2>8. /\ w \o first = Numbered(0, Len(w \o first)) /\ Len(w \o first) \in Nat
        /\ (w \o first) \o <<>> = w \o first
    BY <1>5, <2>3, <2>6, <2>7, ConcatEmptySeq
  <2>9. Len(w) <= Len(w \o first)
    BY <1>3, <2>3, ConcatProperties, LenProperties
  <2>10. wire'[c] = w \o first /\ mWriteBuffer'[c] = <<>> /\ mWriteEof'[c] = mWriteEof[c]
    BY <1>3, <2>1 DEF Streams
  <2>11. /\ wire' \in [Conn -> Seq(Byte)] /\ space' \in [Conn -> 0..Space]
         /\ mWriteBuffer' \in [Conn -> Seq(Byte)] /\ mWriteEof' \in [Conn -> BOOLEAN]
    BY <2>1, <2>2, <2>6 DEF Streams
  <2>12. CASE n = Len(data) /\ Accepted(c)
    <3>1. taken' = [taken EXCEPT ![c] = total] /\ writing' = NoWriting
      BY <2>12 DEF Accepted, total
    <3>2. Streams'
      BY <1>1, <1>3, <2>11, <3>1 DEF Streams
    <3>3. taken'[c] = total /\ Len(w \o first) = total
      BY <1>6, <2>4, <2>12, <3>1 DEF Streams
    <3>4. InOrder(c)'
      BY <1>3, <2>8, <2>10, <3>3 DEF InOrder
    <3>5. \A d \in Conn \ {c} : UNCHANGED <<wire[d], mWriteBuffer[d], taken[d], mWriteEof[d]>>
      BY <2>1, <3>1 DEF Streams
    <3>. QED
      BY <1>1, <3>1, <3>2, <3>4, <3>5, OneOrdered
  <2>13. CASE writing' = [writing EXCEPT !.data = rest] /\ UNCHANGED taken
    <3>1. /\ writing'.conn = c /\ writing'.data = rest /\ writing'.length = writing.length
          /\ writing' \in [conn : Conn \cup {Nobody}, data : Seq(Byte), length : 0..MaxOut]
      BY <1>1, <2>3, <2>13 DEF Streams
    <3>2. Streams'
      BY <2>11, <2>13, <3>1 DEF Streams
    <3>3. InOrder(c)'
      BY <1>3, <1>4, <2>8, <2>9, <2>10, <2>13, <3>1 DEF InOrder
    <3>4. InLoop(c)'
      <4>1. total <= MaxOut
        BY <1>3, SourcesAssumption
      <4>2. taken'[c] + writing'.length = total
        BY <2>13, <3>1 DEF total
      <4>. QED
        BY <2>7, <2>10, <3>1, <4>1, <4>2 DEF InLoop
    <3>5. \A d \in Conn \ {c} : UNCHANGED <<wire[d], mWriteBuffer[d], taken[d], mWriteEof[d]>>
      BY <2>1, <2>13 DEF Streams
    <3>. QED
      BY <1>1, <3>1, <3>2, <3>3, <3>4, <3>5, OneOrdered
  <2>. QED
    BY <2>5, <2>12, <2>13
<1>8. CASE WriteWouldBlock(c)
  <2>1. /\ mWriteBuffer' = [mWriteBuffer EXCEPT ![c] = data]
        /\ taken' = [taken EXCEPT ![c] = total] /\ writing' = NoWriting
        /\ UNCHANGED <<wire, space, mWriteEof>>
    BY <1>8 DEF WriteWouldBlock, Accepted, net, data, total
  <2>2. Streams'
    BY <1>1, <1>3, <2>1 DEF Streams
  <2>3. wire'[c] = w /\ mWriteBuffer'[c] = data /\ taken'[c] = total
    BY <2>1 DEF Streams, w
  <2>4. InOrder(c)'
    BY <1>3, <1>6, <2>3 DEF InOrder
  <2>5. \A d \in Conn \ {c} : UNCHANGED <<wire[d], mWriteBuffer[d], taken[d], mWriteEof[d]>>
    BY <2>1 DEF Streams
  <2>. QED
    BY <1>1, <2>1, <2>2, <2>4, <2>5, OneOrdered
<1>9. CASE WriteFails(c)
  <2>1. /\ mWriteEof' = [mWriteEof EXCEPT ![c] = TRUE] /\ writing' = NoWriting
        /\ UNCHANGED <<wire, space, taken, mWriteBuffer>>
    BY <1>9 DEF WriteFails
  <2>2. Streams'
    BY <1>1, <2>1 DEF Streams
  <2>3. InOrder(c)'
    BY <1>2, <1>3, <2>1 DEF InOrder, Streams
  <2>4. \A d \in Conn \ {c} : UNCHANGED <<wire[d], mWriteBuffer[d], taken[d], mWriteEof[d]>>
    BY <2>1 DEF Streams
  <2>. QED
    BY <1>1, <2>1, <2>2, <2>3, <2>4, OneOrdered
<1>. QED
  BY <1>7, <1>8, <1>9

-----------------------------------------------------------------------------
(* What epoll keeps *)

\* An edge is added to the list of those who are known, and takes none away.
LEMMA EdgeFacts ==
  ASSUME ready \in Seq(Source), NEW s \in Source
  PROVE  /\ Edge(s) \in Seq(Source)
         /\ S!ToSet(ready) \subseteq S!ToSet(Edge(s))
         /\ s \in registered => s \in S!ToSet(Edge(s))
<1>1. /\ Append(ready, s) \in Seq(Source)
      /\ S!ToSet(Append(ready, s)) = S!ToSet(ready) \cup {s}
  BY Appended
<1>. QED
  BY <1>1 DEF Edge

\* A source that is added is known, and ready if it can be read or written.
LEMMA AddFacts ==
  ASSUME ready \in Seq(Source), registered \subseteq Source, NEW s \in Source, addSource(s)
  PROVE  /\ ready' \in Seq(Source) /\ registered' = registered \cup {s}
         /\ S!ToSet(ready) \subseteq S!ToSet(ready')
         /\ s \notin registered /\ CanRead(s) => s \in S!ToSet(ready')
<1>1. /\ Append(ready, s) \in Seq(Source)
      /\ S!ToSet(Append(ready, s)) = S!ToSet(ready) \cup {s}
  BY Appended
<1>2. \/ ready' = ready /\ (s \in registered \/ ~CanRead(s))
      \/ ready' = Append(ready, s)
  BY DEF addSource
<1>3. registered' = registered \cup {s}
  BY DEF addSource
<1>4. CASE ready' = ready /\ (s \in registered \/ ~CanRead(s))
  BY <1>3, <1>4
<1>5. CASE ready' = Append(ready, s)
  BY <1>1, <1>3, <1>5
<1>. QED
  BY <1>2, <1>4, <1>5

\* A source that is forgotten is forgotten alone.
LEMMA ForgetFacts ==
  ASSUME ready \in Seq(Source), registered \subseteq Source, NEW s \in Source, Forget(s)
  PROVE  /\ ready' \in Seq(Source) /\ registered' = registered \ {s}
         /\ S!ToSet(ready) \subseteq S!ToSet(ready') \cup {s}
<1>1. registered' = registered \ {s}
  BY DEF Forget
<1>2. CASE UNCHANGED ready
  BY <1>1, <1>2
<1>3. CASE \E i \in DOMAIN ready : ready[i] = s /\ ready' = S!RemoveAt(ready, i)
  <2>1. PICK i \in DOMAIN ready : ready[i] = s /\ ready' = S!RemoveAt(ready, i)
    BY <1>3
  <2>2. i \in 1..Len(ready)
    BY <2>1
  <2>3. /\ S!RemoveAt(ready, i) \in Seq(Source)
        /\ S!ToSet(ready) \subseteq S!ToSet(S!RemoveAt(ready, i)) \cup {ready[i]}
    BY <2>2, Removed
  <2>. QED
    BY <1>1, <2>1, <2>3
<1>. QED
  BY <1>2, <1>3 DEF Forget

\* manageDispatching() adds or forgets the source, or leaves epoll alone.
LEMMA ManageFacts ==
  ASSUME ready \in Seq(Source), registered \subseteq Source,
         mDispatched \in [Source -> BOOLEAN],
         NEW s \in Source, NEW shouldDispatch \in BOOLEAN,
         manageDispatching(s, shouldDispatch)
  PROVE  /\ ready' \in Seq(Source) /\ registered' \subseteq Source
         /\ mDispatched' = [mDispatched EXCEPT ![s] = shouldDispatch]
         /\ S!ToSet(ready) \subseteq S!ToSet(ready') \cup {s}
         /\ shouldDispatch =>
              /\ registered' = registered \cup {s}
              /\ S!ToSet(ready) \subseteq S!ToSet(ready')
              /\ s \notin registered /\ CanRead(s) => s \in S!ToSet(ready')
         /\ ~shouldDispatch =>
              registered' = IF mDispatched[s] THEN registered \ {s} ELSE registered
<1>1. CASE ~shouldDispatch /\ ~mDispatched[s]
  BY <1>1 DEF manageDispatching, epoll
<1>2. CASE shouldDispatch
  <2>1. addSource(s) /\ mDispatched' = [mDispatched EXCEPT ![s] = shouldDispatch]
    BY <1>2 DEF manageDispatching
  <2>. QED
    BY <1>2, <2>1, AddFacts
<1>3. CASE ~shouldDispatch /\ mDispatched[s]
  <2>1. Forget(s) /\ mDispatched' = [mDispatched EXCEPT ![s] = shouldDispatch]
    BY <1>3 DEF manageDispatching, removeSource
  <2>. QED
    BY <1>3, <2>1, ForgetFacts
<1>. QED
  BY <1>1, <1>2, <1>3

-----------------------------------------------------------------------------
(* Types, and what is sent *)

\* Every step but one that sends leaves what was accepted and taken alone.
LEMMA TypeStep ==
  ASSUME TypeOK, Ordered, [Next]_vars
  PROVE  TypeOK' /\ Ordered'
<1>. USE DEF net, epoll, source, loop
<1>0. /\ \A q \in Seq(Conn) : q # <<>> => Tail(q) \in Seq(Conn)
      /\ \A q \in Seq(Source) : q # <<>> => Head(q) \in Source /\ Tail(q) \in Seq(Source)
      /\ Server \in Source /\ Conn \subseteq Source /\ Written \subseteq Conn
      /\ Streams
  BY HeadTailProperties, SourcesAssumption DEF Source, TypeOK, Streams, Byte
<1>1. CASE EpollFetch
  <2>1. \A r \in BOOLEAN : Append(events, [source |-> Head(ready), read |-> r])
                             \in Seq([source : Source, read : BOOLEAN])
    BY <1>0, <1>1 DEF EpollFetch, TypeOK
  <2>2. CanRead(Head(ready)) \in BOOLEAN
    BY DEF CanRead
  <2>. QED
    BY <1>0, <1>1, <2>1, <2>2 DEF EpollFetch, TypeOK, Ordered, OutputInOrder, InLoop
<1>2. CASE EpollWait \/ HandleServer \/ AcceptedAll \/ EventsHandled \/ Return
  <2>1. events' \in Seq([source : Source, read : BOOLEAN])
    <3>1. UNCHANGED events \/ (events # <<>> /\ events' = Tail(events))
      BY <1>2 DEF EpollWait, HandleServer, AcceptedAll, EventsHandled, Return, Ready
    <3>2. events \in Seq([source : Source, read : BOOLEAN])
      BY DEF TypeOK
    <3>. QED
      BY <3>1, <3>2, HeadTailProperties
  <2>. QED
    BY <1>2, <2>1 DEF EpollWait, HandleServer, AcceptedAll, EventsHandled, Return, Ready,
                      TypeOK, Ordered, OutputInOrder, InLoop
<1>3. ASSUME NEW c \in Conn, HandleRead(c) PROVE TypeOK' /\ Ordered'
  <2>1. events' \in Seq([source : Source, read : BOOLEAN])
    BY <1>3 DEF HandleRead, Ready, TypeOK
  <2>2. unread' \in [Conn -> Nat]
    BY <1>3, SourcesAssumption, SMTT(60) DEF HandleRead, TypeOK
  <2>3. TypeOK'
    BY <1>3, <2>1, <2>2, ZenonT(60) DEF HandleRead, TypeOK
  <2>4. /\ UNCHANGED <<wire, mWriteBuffer, taken, writing>>
        /\ \A d \in Conn : mWriteEof[d] => mWriteEof'[d]
    BY <1>3 DEF HandleRead, TypeOK
  <2>. QED
    BY <2>3, <2>4, OrderKept
<1>4. ASSUME NEW c \in Conn, HandleWritable(c) PROVE TypeOK' /\ Ordered'
  <2>1. events' \in Seq([source : Source, read : BOOLEAN])
    BY <1>4 DEF HandleWritable, Ready, TypeOK
  <2>. QED
    BY <1>4, <2>1 DEF HandleWritable, TypeOK, Ordered, OutputInOrder, InLoop
<1>5. ASSUME NEW c \in Conn, Accept(c) PROVE TypeOK' /\ Ordered'
  <2>1. /\ ready' \in Seq(Source) /\ registered' \subseteq Source
        /\ mDispatched' \in [Source -> BOOLEAN]
    BY <1>0, <1>5, ManageFacts DEF Accept, TypeOK
  <2>. QED
    BY <1>0, <1>5, <2>1 DEF Accept, TypeOK, Ordered, OutputInOrder, InLoop
<1>6. ASSUME NEW c \in Conn, Reject(c) PROVE TypeOK' /\ Ordered'
  BY <1>0, <1>6 DEF Reject, TypeOK, Ordered, OutputInOrder, InLoop
<1>7. ASSUME NEW c \in Written, NEW n \in 1..MaxOut, NEW isBuffer \in BOOLEAN,
             Send(c, n, isBuffer)
      PROVE  TypeOK' /\ Ordered'
  <2>1. Streams' /\ Ordered'
    BY <1>0, <1>7, SendStep
  <2>2. /\ UNCHANGED <<net, epoll, phase, mEnabled, mDispatched, mWriteEof, ends>>
        /\ UNCHANGED <<pc, events, running>>
    BY <1>7 DEF Send
  <2>. QED
    BY <2>1, <2>2 DEF TypeOK, Streams, Byte
<1>16. ASSUME NEW c \in Written,
              (\E n \in 1..MaxOut : Write(c, n)) \/ WriteWouldBlock(c) \/ WriteFails(c)
       PROVE  TypeOK' /\ Ordered'
  <2>1. Streams' /\ Ordered'
    BY <1>0, <1>16, WriteStep
  <2>2. /\ UNCHANGED <<queue, unread, arrived, epoll, phase, mEnabled, mDispatched, ends>>
        /\ UNCHANGED <<pc, events, running>>
        /\ ending' = ending \/ ending' = [ending EXCEPT ![c] = "end"]
    BY <1>16 DEF Write, WriteWouldBlock, WriteFails
  <2>3. ending' \in [Conn -> {"no", "end", "reset"}]
    BY <2>2 DEF TypeOK
  <2>. QED
    BY <2>1, <2>2, <2>3 DEF TypeOK, Streams, Byte
<1>8. ASSUME NEW c \in Written, SendEnd(c) PROVE TypeOK' /\ Ordered'
  BY <1>8 DEF SendEnd, TypeOK, Ordered, OutputInOrder, InLoop
<1>9. ASSUME NEW c \in Conn, close(c) PROVE TypeOK' /\ Ordered'
  <2>1. ready' \in Seq(Source) /\ registered' \subseteq Source
    BY <1>0, <1>9, ForgetFacts, SMTT(60) DEF close, CloseFd, TypeOK
  <2>. QED
    BY <1>0, <1>9, <2>1 DEF close, CloseFd, TypeOK, Ordered, OutputInOrder, InLoop
<1>10. ASSUME NEW s \in Switched, NEW enabled \in BOOLEAN, setEnabled(s, enabled)
       PROVE  TypeOK' /\ Ordered'
  <2>1. s \in Source
    BY SourcesAssumption DEF Source
  <2>2. /\ ready' \in Seq(Source) /\ registered' \subseteq Source
        /\ mDispatched' \in [Source -> BOOLEAN]
    BY <1>10, <2>1, ManageFacts, ZenonT(60) DEF setEnabled, TypeOK
  <2>. QED
    BY <1>10, <2>1, <2>2 DEF setEnabled, TypeOK, Ordered, OutputInOrder, InLoop
<1>11. ASSUME NEW c \in Conn, Connect(c) PROVE TypeOK' /\ Ordered'
  <2>1. ready' \in Seq(Source)
    BY <1>0, <1>11, EdgeFacts DEF Connect, TypeOK
  <2>2. queue' \in Seq(Conn)
    BY <1>11 DEF Connect, TypeOK
  <2>. QED
    BY <1>11, <2>1, <2>2 DEF Connect, TypeOK, Ordered, OutputInOrder, InLoop
<1>12. ASSUME NEW c \in Conn, NEW n \in 1..MaxIn, PeerSend(c, n)
       PROVE  TypeOK' /\ Ordered'
  <2>1. ready' \in Seq(Source)
    BY <1>0, <1>12, EdgeFacts DEF PeerSend, TypeOK
  <2>2. arrived' \in [Conn -> Nat] /\ unread' \in [Conn -> Nat]
    <3>1. n \in Nat
      BY SourcesAssumption
    <3>2. /\ arrived' = [arrived EXCEPT ![c] = @ + n] /\ unread' = [unread EXCEPT ![c] = @ + n]
          /\ arrived \in [Conn -> Nat] /\ unread \in [Conn -> Nat]
      BY <1>12 DEF PeerSend, TypeOK
    <3>. QED
      BY <3>1, <3>2
  <2>. QED
    BY <1>12, <2>1, <2>2 DEF PeerSend, TypeOK, Ordered, OutputInOrder, InLoop
<1>13. ASSUME NEW c \in Conn, NEW how \in {"end", "reset"}, PeerEnd(c, how)
       PROVE  TypeOK' /\ Ordered'
  <2>1. ready' \in Seq(Source)
    BY <1>0, <1>13, EdgeFacts DEF PeerEnd, TypeOK
  <2>. QED
    BY <1>13, <2>1 DEF PeerEnd, TypeOK, Ordered, OutputInOrder, InLoop
<1>14. ASSUME NEW c \in Conn, PeerRead(c) PROVE TypeOK' /\ Ordered'
  <2>1. ready' \in Seq(Source)
    BY <1>0, <1>14, EdgeFacts DEF PeerRead, TypeOK
  <2>2. space' \in [Conn -> 0..Space]
    BY <1>14, SourcesAssumption DEF PeerRead, TypeOK
  <2>. QED
    BY <1>14, <2>1, <2>2 DEF PeerRead, TypeOK, Ordered, OutputInOrder, InLoop
<1>15. CASE UNCHANGED vars
  BY <1>15 DEF vars, TypeOK, Ordered, OutputInOrder, InLoop
<1>. QED
  BY <1>1, <1>2, <1>3, <1>4, <1>5, <1>6, <1>7, <1>8, <1>9, <1>10, <1>11, <1>12, <1>13,
     <1>14, <1>15, <1>16 DEF Next, Thread, Application, Peers

\* No byte is numbered yet.
LEMMA TypeInitially == Init => TypeOK /\ Ordered
<1>. SUFFICES ASSUME Init PROVE TypeOK /\ Ordered
  OBVIOUS
<1>1. TypeOK
  BY SourcesAssumption DEF Init, TypeOK, Source, NoWriting
<1>2. <<>> \o <<>> = Numbered(0, 0) /\ Len(<<>> \o <<>>) = 0
  BY DEF Numbered
<1>3. OutputInOrder
  <2>. SUFFICES ASSUME NEW c \in Conn PROVE InOrder(c)
    BY DEF OutputInOrder, InOrder
  <2>1. wire[c] = <<>> /\ mWriteBuffer[c] = <<>> /\ taken[c] = 0
    BY DEF Init
  <2>. QED
    BY <1>2, <2>1 DEF InOrder
<1>4. \A c \in Conn : writing.conn # c
  BY SourcesAssumption DEF Init, NoWriting
<1>. QED
  BY <1>1, <1>3, <1>4 DEF Ordered

\* Types and order are kept together: what is sent is typed as numbers are.
LEMMA TypedInOrder == Spec => [](TypeOK /\ Ordered)
<1>1. (TypeOK /\ Ordered) /\ [Next]_vars => (TypeOK /\ Ordered)'
  BY TypeStep
<1>. QED
  BY <1>1, TypeInitially, PTL DEF Spec

\* All that the sources and epoll keep has its type, also the room in the
\* sockets, which a write() never exceeds.
THEOREM TypeCorrect == Spec => []TypeOK
BY TypedInOrder, PTL

\* However write() cuts it, whenever peers read, and if they reset a connection
\* between two write()s: the bytes on the wire and in the buffer are numbered in
\* order, begin with all those accepted, and are followed by none once a part of
\* refused ones is among them.
THEOREM OutputAlwaysInOrder == Spec => []OutputInOrder
<1>1. Ordered => OutputInOrder
  BY DEF Ordered
<1>. QED
  BY <1>1, TypedInOrder, PTL

-----------------------------------------------------------------------------
(* No readiness is slept over *)

\* The server's queue is of connections that wait for it, each once.
Queued ==
  /\ \A i \in DOMAIN queue : phase[queue[i]] = "queued"
  /\ \A i, j \in DOMAIN queue : i # j => queue[i] # queue[j]

\* epoll knows the sources that are open and enabled, whatever calls enabled
\* and disabled them; connections are enabled before they are accepted.
Registration ==
  /\ \A s \in Source :
       /\ mDispatched[s] <=> s \in registered
       /\ s \in registered <=> mEnabled[s] /\ (s = Server \/ phase[s] = "open")
  /\ \A c \in Conn : phase[c] \in {"none", "queued"} => mEnabled[c]

\* What waits in a socket is what one read() takes, and no end is behind it.
ReadWhole ==
  \A c \in Conn : unread[c] <= ReadRoom /\ (ending[c] # "no" => unread[c] = 0)

\* What NoneOverslept asks for.
Covered(s) ==
  \/ s \in S!ToSet(ready)
  \/ \E i \in DOMAIN events : events[i].source = s /\ (s = Server \/ events[i].read)
  \/ s = Server /\ pc = "accept"

Awake == Queued /\ Registration /\ ReadWhole /\ NoneOverslept

\* A source on the list of those that are ready, or in the events, stays there.
LEMMA CoverKept ==
  ASSUME NEW s, Covered(s), UNCHANGED <<events, pc>>,
         s \in S!ToSet(ready) => s \in S!ToSet(ready')
  PROVE  Covered(s)'
BY DEF Covered

\* When the first event is handled, the others stay.
LEMMA CoverBehind ==
  ASSUME TypeOK, NEW s \in Source, Covered(s),
         events # <<>>, events' = Tail(events), UNCHANGED ready,
         s = Server => pc # "accept",
         \/ Head(events).source # s
         \/ s # Server /\ ~Head(events).read
  PROVE  Covered(s)'
<1>1. CASE s \in S!ToSet(ready)
  BY <1>1 DEF Covered
<1>2. ASSUME NEW i \in DOMAIN events, events[i].source = s, s = Server \/ events[i].read
      PROVE  Covered(s)'
  <2>1. /\ Len(events) \in Nat /\ Head(events) = events[1]
        /\ DOMAIN events = 1..Len(events) /\ DOMAIN events' = 1..(Len(events) - 1)
        /\ \A k \in 1..(Len(events) - 1) : events'[k] = events[k + 1]
    BY Tailed DEF TypeOK
  <2>2. i # 1
    BY <1>2, <2>1
  <2>3. i - 1 \in DOMAIN events' /\ events'[i - 1] = events[i]
    BY <2>1, <2>2
  <2>. QED
    BY <1>2, <2>3 DEF Covered
<1>. QED
  BY <1>1, <1>2 DEF Covered

\* What waits can be read.
LEMMA WaitingReadable ==
  ASSUME NEW s \in Source, Waiting(s) PROVE CanRead(s)
BY DEF Waiting, CanRead

\* Nothing that waits is forgotten: what was covered is, or is not waiting.
LEMMA Reduced ==
  ASSUME NoneOverslept,
         \A s \in Source : Waiting(s)' /\ mEnabled'[s] =>
           Covered(s)' \/ (Waiting(s) /\ mEnabled[s] /\ (Covered(s) => Covered(s)'))
  PROVE  NoneOverslept'
BY DEF NoneOverslept, Covered

\* Steps of the dispatcher's thread in its loop.
LEMMA LoopStep ==
  ASSUME TypeOK, Awake,
         EpollFetch \/ EpollWait \/ HandleServer \/ AcceptedAll \/ EventsHandled \/ Return
  PROVE  Awake'
<1>0. Server \in Source /\ Conn \subseteq Source /\ Server \notin Conn
  BY SourcesAssumption DEF Source
<1>1. UNCHANGED <<net, source, registered>>
  BY DEF EpollFetch, EpollWait, HandleServer, AcceptedAll, EventsHandled, Return, epoll
<1>2. Queued' /\ Registration' /\ ReadWhole'
  BY <1>1 DEF Awake, Queued, Registration, ReadWhole, net, source
<1>3. \A s \in Source : Waiting(s)' = Waiting(s) /\ mEnabled'[s] = mEnabled[s]
  BY <1>1 DEF Waiting, net, source
<1>4. ASSUME NEW s \in Source, Waiting(s), Covered(s) PROVE Covered(s)'
  <2>1. CASE EpollFetch
    <3>. DEFINE h == Head(ready)
                e == [source |-> h, read |-> CanRead(h)]
    <3>1. ready \in Seq(Source) /\ ready # <<>> /\ ready' = Tail(ready) /\ UNCHANGED pc
      BY <2>1 DEF EpollFetch, TypeOK
    <3>2. /\ h \in Source
          /\ S!ToSet(ready) = S!ToSet(ready') \cup {h}
      BY <3>1, Tailed
    <3>3. /\ \/ UNCHANGED events /\ ~CanRead(h)
             \/ events' = Append(events, e)
      BY <2>1 DEF EpollFetch
    <3>4. e \in [source : Source, read : BOOLEAN]
      BY <3>2 DEF CanRead
    <3>5. events \in Seq([source : Source, read : BOOLEAN])
      BY DEF TypeOK
    <3>. HIDE DEF h
    <3>6. CASE UNCHANGED events /\ ~CanRead(h)
      <4>1. s # h
        BY <1>4, <3>6, WaitingReadable
      <4>. QED
        BY <1>4, <3>1, <3>2, <3>6, <4>1 DEF Covered
    <3>7. CASE events' = Append(events, e)
      <4>. HIDE DEF e
      <4>1. /\ DOMAIN events' = 1..(Len(events) + 1) /\ DOMAIN events = 1..Len(events)
            /\ \A i \in 1..Len(events) : events'[i] = events[i]
            /\ events'[Len(events) + 1] = e /\ Len(events) \in Nat
        BY <3>4, <3>5, <3>7, Appended
      <4>2. CASE s = h
        <5>1. e.source = s /\ e.read
          BY <1>4, <4>2, WaitingReadable DEF e
        <5>. QED
          BY <4>1, <5>1 DEF Covered
      <4>3. CASE s # h
        BY <1>4, <3>1, <3>2, <4>1, <4>3 DEF Covered
      <4>. QED
        BY <4>2, <4>3
    <3>. QED
      BY <3>3, <3>6, <3>7
  <2>2. CASE EpollWait \/ EventsHandled \/ Return
    <3>1. UNCHANGED <<ready, events>> /\ (pc # "accept" \/ UNCHANGED pc)
      BY <2>2 DEF EpollWait, EventsHandled, Return, epoll
    <3>. QED
      BY <1>4, <3>1 DEF Covered
  <2>3. CASE HandleServer
    <3>1. /\ events # <<>> /\ events' = Tail(events) /\ UNCHANGED ready
          /\ Head(events).source = Server /\ pc = "batch" /\ pc' = "accept"
      BY <2>3 DEF HandleServer, Ready, epoll
    <3>2. CASE s = Server
      BY <3>1, <3>2 DEF Covered
    <3>3. CASE s # Server
      BY <1>4, <3>1, <3>3, CoverBehind
    <3>. QED
      BY <3>2, <3>3
  <2>4. CASE AcceptedAll
    <3>1. s # Server /\ UNCHANGED <<ready, events>>
      BY <1>4, <2>4 DEF AcceptedAll, Waiting, epoll
    <3>. QED
      BY <1>4, <3>1 DEF Covered
  <2>. QED
    BY <2>1, <2>2, <2>3, <2>4
<1>5. NoneOverslept'
  BY <1>3, <1>4, Reduced DEF Awake
<1>. QED
  BY <1>2, <1>5 DEF Awake

\* One read() takes all that waits, or finds the end.
LEMMA HandleStep ==
  ASSUME TypeOK, Awake, ~Bursty, NEW c \in Conn, HandleRead(c) \/ HandleWritable(c)
  PROVE  Awake'
<1>0. c \in Source /\ c # Server
  BY SourcesAssumption DEF Source
<1>1. /\ events # <<>> /\ events' = Tail(events) /\ Head(events).source = c
      /\ pc = "batch" /\ UNCHANGED <<pc, ready>>
  BY DEF HandleRead, HandleWritable, Ready, epoll
<1>2. ASSUME NEW s \in Source, Covered(s), s # c \/ ~Head(events).read
      PROVE  Covered(s)'
  BY <1>0, <1>1, <1>2, CoverBehind
<1>3. CASE HandleRead(c)
  <2>1. /\ unread[c] \in Nat /\ ReadRoom \in Nat \ {0} /\ unread[c] <= ReadRoom
        /\ ending[c] # "no" => unread[c] = 0
    BY SourcesAssumption DEF TypeOK, Awake, ReadWhole
  <2>2. unread' = [unread EXCEPT ![c] = 0]
    <3>. DEFINE got == IF unread[c] < ReadRoom THEN unread[c] ELSE ReadRoom
    <3>1. unread' = [unread EXCEPT ![c] = unread[c] - got]
      BY <1>3 DEF HandleRead
    <3>2. unread[c] - got = 0
      BY <2>1
    <3>. QED
      BY <3>1, <3>2
  <2>3. /\ ending' = IF unread[c] = 0 THEN [ending EXCEPT ![c] = "end"] ELSE ending
        /\ ends' = IF unread[c] = 0 THEN [ends EXCEPT ![c] = TRUE] ELSE ends
    BY <1>3, <2>1 DEF HandleRead
  <2>4. UNCHANGED <<phase, mEnabled, mDispatched, registered, ready, queue>>
    BY <1>3 DEF HandleRead, epoll
  <2>5. Queued' /\ Registration'
    BY <2>4 DEF Awake, Queued, Registration
  <2>6. ReadWhole'
    BY <2>1, <2>2, <2>3 DEF Awake, ReadWhole, TypeOK
  <2>7. ~Waiting(c)'
    BY <1>0, <2>1, <2>2, <2>3 DEF Waiting, TypeOK
  <2>8. \A s \in Source \ {c} : Waiting(s)' = Waiting(s) /\ mEnabled'[s] = mEnabled[s]
    BY <2>2, <2>3, <2>4 DEF Waiting, TypeOK, Source
  <2>9. NoneOverslept'
    BY <1>2, <2>7, <2>8, Reduced DEF Awake
  <2>. QED
    BY <2>5, <2>6, <2>9 DEF Awake
<1>4. CASE HandleWritable(c)
  <2>1. ~Head(events).read /\ UNCHANGED <<net, epoll, source>>
    BY <1>4 DEF HandleWritable
  <2>2. Queued' /\ Registration' /\ ReadWhole'
    BY <2>1 DEF Awake, Queued, Registration, ReadWhole, net, epoll, source
  <2>3. \A s \in Source : Waiting(s)' = Waiting(s) /\ mEnabled'[s] = mEnabled[s]
    BY <2>1 DEF Waiting, net, source
  <2>4. NoneOverslept'
    BY <1>2, <2>1, <2>3, Reduced DEF Awake
  <2>. QED
    BY <2>2, <2>4 DEF Awake
<1>. QED
  BY <1>3, <1>4

\* An accepted connection is added with what came before; a refused one is
\* gone, and the loop goes on.
LEMMA AcceptStep ==
  ASSUME TypeOK, Awake, NEW c \in Conn, Accept(c) \/ Reject(c)
  PROVE  Awake'
<1>0. c \in Source /\ c # Server /\ Server \notin Conn
  BY SourcesAssumption DEF Source
<1>1. /\ queue # <<>> /\ c = Head(queue) /\ queue' = Tail(queue)
      /\ pc = "accept" /\ UNCHANGED <<unread, ending, ends, mEnabled, events>>
      /\ phase' = [phase EXCEPT ![c] = IF Accept(c) THEN "open" ELSE "closed"]
  BY <1>0 DEF Accept, Reject, loop
<1>2. /\ Len(queue) \in Nat \ {0} /\ c = queue[1] /\ DOMAIN queue = 1..Len(queue)
      /\ DOMAIN queue' = 1..(Len(queue) - 1)
      /\ \A i \in 1..(Len(queue) - 1) : queue'[i] = queue[i + 1]
  BY <1>1, Tailed DEF TypeOK
<1>3. phase[c] = "queued" /\ c \notin registered /\ mEnabled[c]
  BY <1>0, <1>2 DEF Awake, Queued, Registration
<1>4. Queued'
  <2>1. ASSUME NEW i \in DOMAIN queue' PROVE phase'[queue'[i]] = "queued"
    <3>1. i + 1 \in DOMAIN queue /\ i + 1 # 1 /\ queue'[i] = queue[i + 1]
      BY <1>2, <2>1
    <3>2. queue[i + 1] # queue[1] /\ phase[queue[i + 1]] = "queued"
      BY <1>2, <3>1 DEF Awake, Queued
    <3>. QED
      BY <1>1, <1>2, <3>1, <3>2 DEF TypeOK
  <2>2. ASSUME NEW i \in DOMAIN queue', NEW j \in DOMAIN queue', i # j
        PROVE  queue'[i] # queue'[j]
    <3>1. /\ i + 1 \in DOMAIN queue /\ queue'[i] = queue[i + 1]
          /\ j + 1 \in DOMAIN queue /\ queue'[j] = queue[j + 1]
          /\ i + 1 # j + 1
      BY <1>2, <2>2
    <3>. QED
      BY <3>1 DEF Awake, Queued
  <2>. QED
    BY <2>1, <2>2 DEF Queued
<1>5. ReadWhole'
  BY <1>1 DEF Awake, ReadWhole
<1>6. \A s \in Source \ {c} : Waiting(s)' => Waiting(s) \/ s = Server
  BY <1>1 DEF Waiting, TypeOK, Source
<1>7. CASE Accept(c)
  <2>1. manageDispatching(c, TRUE) /\ UNCHANGED pc
    BY <1>7 DEF Accept
  <2>2. /\ mDispatched' = [mDispatched EXCEPT ![c] = TRUE]
        /\ registered' = registered \cup {c}
        /\ S!ToSet(ready) \subseteq S!ToSet(ready')
        /\ CanRead(c) => c \in S!ToSet(ready')
    BY <1>0, <1>3, <2>1, ManageFacts DEF TypeOK
  <2>3. Registration'
    BY <1>0, <1>1, <1>3, <1>7, <2>2 DEF Awake, Registration, TypeOK, Source
  <2>4. Waiting(c)' => CanRead(c)
    BY <1>0, <1>1 DEF Waiting, CanRead
  <2>5. \A s \in Source : Covered(s) => Covered(s)'
    BY <1>1, <2>1, <2>2, CoverKept
  <2>6. Covered(Server)'
    BY <1>1, <2>1 DEF Covered
  <2>7. NoneOverslept'
    <3>1. Waiting(c)' => Covered(c)'
      BY <2>2, <2>4 DEF Covered
    <3>. QED
      BY <1>1, <1>6, <2>5, <2>6, <3>1, Reduced DEF Awake
  <2>. QED
    BY <1>4, <1>5, <2>3, <2>7 DEF Awake
<1>8. CASE Reject(c) /\ ~Accept(c)
  <2>1. UNCHANGED <<registered, ready, mDispatched, pc>>
    BY <1>8 DEF Reject, epoll, loop
  <2>2. Registration'
    BY <1>0, <1>1, <1>3, <1>8, <2>1 DEF Awake, Registration, TypeOK, Source
  <2>3. ~Waiting(c)'
    BY <1>0, <1>1, <1>8 DEF Waiting, TypeOK
  <2>4. \A s \in Source : Covered(s) => Covered(s)'
    BY <1>1, <2>1, CoverKept
  <2>5. Covered(Server)'
    BY <1>1, <2>1 DEF Covered
  <2>6. NoneOverslept'
    BY <1>1, <1>6, <2>3, <2>4, <2>5, Reduced DEF Awake
  <2>. QED
    BY <1>4, <1>5, <2>2, <2>6 DEF Awake
<1>. QED
  BY <1>7, <1>8

\* What the application does with a connection that it has.
LEMMA ApplicationStep ==
  ASSUME TypeOK, Awake, Application
  PROVE  Awake'
<1>0. Server \in Source /\ Conn \subseteq Source /\ Server \notin Conn
  BY SourcesAssumption DEF Source
<1>1. ASSUME NEW c \in Conn, NEW n \in 1..MaxOut, NEW isBuffer \in BOOLEAN,
             Send(c, n, isBuffer)
      PROVE  Awake'
  <2>1. UNCHANGED <<phase, queue, unread, ending, ends, registered, ready, mEnabled,
                    mDispatched, events, pc>>
    BY <1>1 DEF Send, net, epoll
  <2>2. Queued' /\ Registration' /\ ReadWhole'
    BY <2>1, SMTT(60) DEF Awake, Queued, Registration, ReadWhole, TypeOK
  <2>3. \A s \in Source : Waiting(s)' = Waiting(s) /\ mEnabled'[s] = mEnabled[s]
    BY <2>1 DEF Waiting, TypeOK, Source
  <2>4. \A s \in Source : Covered(s) => Covered(s)'
    BY <2>1, CoverKept
  <2>. QED
    BY <2>2, <2>3, <2>4, Reduced DEF Awake
<1>2. ASSUME NEW c \in Conn, close(c) PROVE Awake'
  <2>1. /\ phase' = [phase EXCEPT ![c] = "closed"] /\ phase[c] = "open"
        /\ Forget(c) /\ mDispatched' = [mDispatched EXCEPT ![c] = FALSE]
        /\ unread' = [unread EXCEPT ![c] = 0] /\ ending' = [ending EXCEPT ![c] = "no"]
        /\ UNCHANGED <<queue, mEnabled, ends, events, pc>>
    BY <1>2 DEF close, CloseFd, loop
  <2>2. registered' = registered \ {c} /\ S!ToSet(ready) \subseteq S!ToSet(ready') \cup {c}
    BY <1>0, <2>1, ForgetFacts DEF TypeOK
  <2>3. Queued'
    BY <2>1 DEF Awake, Queued, TypeOK
  <2>4. Registration'
    BY <1>0, <2>1, <2>2, SMTT(60) DEF Awake, Registration, TypeOK
  <2>5. ReadWhole'
    BY <2>1, SourcesAssumption DEF Awake, ReadWhole, TypeOK
  <2>6. ~Waiting(c)'
    BY <1>0, <2>1 DEF Waiting, TypeOK
  <2>7. \A s \in Source \ {c} : Waiting(s)' = Waiting(s) /\ mEnabled'[s] = mEnabled[s]
    BY <2>1 DEF Waiting, TypeOK, Source
  <2>8. \A s \in Source \ {c} : Covered(s) => Covered(s)'
    BY <2>1, <2>2, CoverKept
  <2>9. NoneOverslept'
    BY <2>6, <2>7, <2>8, Reduced DEF Awake
  <2>. QED
    BY <2>3, <2>4, <2>5, <2>9 DEF Awake
<1>3. ASSUME NEW s \in Source, NEW enabled \in BOOLEAN, setEnabled(s, enabled)
      PROVE  Awake'
  <2>1. /\ s = Server \/ (s \in Conn /\ phase[s] = "open")
        /\ mEnabled' = [mEnabled EXCEPT ![s] = enabled]
        /\ manageDispatching(s, enabled)
        /\ UNCHANGED <<phase, queue, unread, ending, ends, events, pc>>
    BY <1>3 DEF setEnabled, net, loop
  <2>2. /\ mDispatched' = [mDispatched EXCEPT ![s] = enabled]
        /\ S!ToSet(ready) \subseteq S!ToSet(ready') \cup {s}
        /\ enabled => /\ registered' = registered \cup {s}
                      /\ S!ToSet(ready) \subseteq S!ToSet(ready')
                      /\ s \notin registered /\ CanRead(s) => s \in S!ToSet(ready')
        /\ ~enabled => registered' = IF mDispatched[s] THEN registered \ {s} ELSE registered
    <3>1. /\ ready \in Seq(Source) /\ registered \subseteq Source
          /\ mDispatched \in [Source -> BOOLEAN]
      BY DEF TypeOK
    <3>. QED
      BY <2>1, <3>1, ManageFacts
  <2>3. mDispatched[s] <=> s \in registered
    BY DEF Awake, Registration
  <2>4. registered' = IF enabled THEN registered \cup {s} ELSE registered \ {s}
    BY <2>2, <2>3
  <2>5. Queued' /\ ReadWhole'
    BY <2>1 DEF Awake, Queued, ReadWhole
  <2>6. Registration'
    BY <1>0, <2>1, <2>2, <2>4, SMTT(60) DEF Awake, Registration, TypeOK
  <2>7. \A r \in Source : Waiting(r)' = Waiting(r)
    BY <2>1 DEF Waiting
  <2>8. \A r \in Source \ {s} : mEnabled'[r] = mEnabled[r] /\ (Covered(r) => Covered(r)')
    BY <2>1, <2>2, CoverKept DEF TypeOK
  <2>9. Waiting(s) /\ mEnabled'[s] => Covered(s)' \/ (mEnabled[s] /\ (Covered(s) => Covered(s)'))
    <3>1. SUFFICES ASSUME Waiting(s), enabled
                   PROVE  Covered(s)' \/ (mEnabled[s] /\ (Covered(s) => Covered(s)'))
      BY <2>1 DEF TypeOK
    <3>2. CASE s \in registered
      BY <2>1, <2>2, <3>1, <3>2, CoverKept DEF Awake, Registration
    <3>3. CASE s \notin registered
      BY <2>2, <3>1, <3>3, WaitingReadable DEF Covered
    <3>. QED
      BY <3>2, <3>3
  <2>10. NoneOverslept'
    BY <2>7, <2>8, <2>9, Reduced DEF Awake
  <2>. QED
    BY <2>5, <2>6, <2>10 DEF Awake
<1>. QED
  <2>1. Written \subseteq Conn /\ Switched \subseteq Source
    BY SourcesAssumption DEF Source
  <2>2. CASE \E c \in Written : SendEnd(c)
    <3>1. PICK c \in Conn : SendEnd(c)
      BY <2>1, <2>2
    <3>. QED
      BY <3>1 DEF SendEnd, net, epoll, loop, Awake, Queued, Registration, ReadWhole,
                  NoneOverslept, Waiting
  <2>. QED
    BY <1>1, <1>2, <1>3, <2>1, <2>2 DEF Application

\* The write() loop may take a reset away, but no end.
LEMMA WritingStep ==
  ASSUME TypeOK, Awake, NEW c \in Conn,
         (\E n \in 1..MaxOut : Write(c, n)) \/ WriteWouldBlock(c) \/ WriteFails(c)
  PROVE  Awake'
<1>1. /\ UNCHANGED <<phase, queue, unread, ends, registered, ready, mEnabled, mDispatched,
                     events, pc>>
      /\ \/ UNCHANGED ending
         \/ ending[c] # "no" /\ ending' = [ending EXCEPT ![c] = "end"]
  BY DEF Write, WriteWouldBlock, WriteFails, net, epoll
<1>2. Queued' /\ Registration' /\ ReadWhole'
  BY <1>1, SMTT(60) DEF Awake, Queued, Registration, ReadWhole, TypeOK
<1>3. \A s \in Source : Waiting(s)' = Waiting(s) /\ mEnabled'[s] = mEnabled[s]
  BY <1>1 DEF Waiting, TypeOK, Source
<1>4. \A s \in Source : Covered(s) => Covered(s)'
  BY <1>1, CoverKept
<1>. QED
  BY <1>2, <1>3, <1>4, Reduced DEF Awake

\* What peers do: of what they make wait there is an edge.
LEMMA PeersStep ==
  ASSUME TypeOK, Awake, ~Bursty, Peers
  PROVE  Awake'
<1>0. Server \in Source /\ Conn \subseteq Source /\ Server \notin Conn
  BY SourcesAssumption DEF Source
<1>1. ASSUME NEW s \in Source, ready' = Edge(s), UNCHANGED <<events, pc>>
      PROVE  /\ \A r \in Source : Covered(r) => Covered(r)'
             /\ s \in registered => Covered(s)'
  <2>1. /\ S!ToSet(ready) \subseteq S!ToSet(ready')
        /\ s \in registered => s \in S!ToSet(ready')
    BY <1>1, EdgeFacts DEF TypeOK
  <2>2. \A r \in Source : Covered(r) => Covered(r)'
    BY <1>1, <2>1, CoverKept
  <2>. QED
    BY <2>1, <2>2 DEF Covered
<1>2. ASSUME NEW c \in Conn, Connect(c) PROVE Awake'
  <2>1. /\ phase[c] = "none" /\ phase' = [phase EXCEPT ![c] = "queued"]
        /\ queue' = Append(queue, c) /\ ready' = Edge(Server)
        /\ UNCHANGED <<unread, ending, ends, registered, mEnabled, mDispatched, events, pc>>
    BY <1>2 DEF Connect, loop
  <2>2. /\ DOMAIN queue' = 1..(Len(queue) + 1) /\ DOMAIN queue = 1..Len(queue)
        /\ Len(queue) \in Nat
        /\ \A i \in 1..Len(queue) : queue'[i] = queue[i] /\ queue[i] \in Conn
        /\ queue'[Len(queue) + 1] = c
    BY <2>1, Appended, SMTT(60) DEF TypeOK
  <2>3. \A i \in DOMAIN queue : phase[queue[i]] = "queued" /\ queue[i] # c
    BY <2>1 DEF Awake, Queued
  <2>4. ASSUME NEW i \in DOMAIN queue' PROVE phase'[queue'[i]] = "queued"
    <3>1. i \in 1..Len(queue) \/ i = Len(queue) + 1
      BY <2>2
    <3>2. phase \in [Conn -> {"none", "queued", "open", "closed"}] /\ c \in Conn
      BY DEF TypeOK
    <3>3. CASE i = Len(queue) + 1
      BY <2>1, <2>2, <3>2, <3>3
    <3>4. CASE i \in 1..Len(queue)
      <4>1. queue'[i] = queue[i] /\ queue[i] \in Conn /\ phase[queue[i]] = "queued" /\ queue[i] # c
        BY <2>2, <2>3, <3>4
      <4>. QED
        BY <2>1, <3>2, <4>1
    <3>. QED
      BY <3>1, <3>3, <3>4
  <2>5. ASSUME NEW i \in DOMAIN queue', NEW j \in DOMAIN queue', i # j
        PROVE  queue'[i] # queue'[j]
    BY <2>2, <2>3, <2>5 DEF Awake, Queued
  <2>6. Queued'
    BY <2>4, <2>5 DEF Queued
  <2>7. Registration'
    BY <1>0, <2>1, SMTT(60) DEF Awake, Registration, TypeOK
  <2>8. ReadWhole'
    BY <2>1 DEF Awake, ReadWhole
  <2>9. \A s \in Source \ {Server} : Waiting(s)' => Waiting(s)
    BY <2>1 DEF Waiting, TypeOK, Source
  <2>10. mEnabled[Server] => Covered(Server)'
    BY <1>0, <1>1, <2>1 DEF Awake, Registration
  <2>11. NoneOverslept'
    BY <1>0, <1>1, <2>1, <2>9, <2>10, Reduced DEF Awake
  <2>. QED
    BY <2>6, <2>7, <2>8, <2>11 DEF Awake
<1>3. ASSUME NEW c \in Conn,
             UNCHANGED <<phase, queue, ends, registered, mEnabled, mDispatched, events, pc>>,
             ready' = Edge(c), ReadWhole',
             \A s \in Source \ {c} : Waiting(s)' => Waiting(s)
      PROVE  Awake'
  <2>1. Queued' /\ Registration'
    BY <1>3 DEF Awake, Queued, Registration
  <2>2. Waiting(c)' /\ mEnabled'[c] => Covered(c)'
    BY <1>0, <1>1, <1>3 DEF Awake, Registration, Waiting
  <2>3. NoneOverslept'
    BY <1>0, <1>1, <1>3, <2>2, Reduced DEF Awake
  <2>. QED
    BY <1>3, <2>1, <2>3 DEF Awake
<1>4. ASSUME NEW c \in Conn, NEW n \in 1..MaxIn, PeerSend(c, n) PROVE Awake'
  <2>1. /\ UNCHANGED <<phase, queue, ends, registered, mEnabled, mDispatched, events, pc, ending>>
        /\ ready' = Edge(c) /\ ending[c] = "no"
        /\ unread' = [unread EXCEPT ![c] = @ + n] /\ unread[c] + n <= ReadRoom
    BY <1>4 DEF PeerSend, MayArrive, source, loop
  <2>2. ReadWhole'
    BY <2>1 DEF Awake, ReadWhole, TypeOK
  <2>3. \A s \in Source \ {c} : Waiting(s)' => Waiting(s)
    BY <2>1 DEF Waiting, TypeOK, Source
  <2>. QED
    BY <1>3, <2>1, <2>2, <2>3
<1>5. ASSUME NEW c \in Conn, NEW how \in {"end", "reset"}, PeerEnd(c, how) PROVE Awake'
  <2>1. /\ UNCHANGED <<phase, queue, ends, registered, mEnabled, mDispatched, events, pc, unread>>
        /\ ready' = Edge(c) /\ unread[c] = 0
        /\ ending' = [ending EXCEPT ![c] = how]
    BY <1>5 DEF PeerEnd, MayEnd, source, loop
  <2>2. ReadWhole'
    BY <2>1 DEF Awake, ReadWhole, TypeOK
  <2>3. \A s \in Source \ {c} : Waiting(s)' => Waiting(s)
    BY <2>1 DEF Waiting, TypeOK, Source
  <2>. QED
    BY <1>3, <2>1, <2>2, <2>3
<1>6. ASSUME NEW c \in Conn, PeerRead(c) PROVE Awake'
  <2>1. /\ UNCHANGED <<phase, queue, ends, registered, mEnabled, mDispatched, events, pc,
                       unread, ending>>
        /\ ready' = Edge(c) \/ UNCHANGED ready
    BY <1>6 DEF PeerRead, source, loop
  <2>2. \A s \in Source : Waiting(s)' = Waiting(s)
    BY <2>1 DEF Waiting
  <2>3. \A s \in Source : Covered(s) => Covered(s)'
    BY <1>0, <1>1, <2>1, CoverKept
  <2>4. NoneOverslept'
    BY <2>1, <2>2, <2>3, Reduced DEF Awake
  <2>. QED
    BY <2>1, <2>4 DEF Awake, Queued, Registration, ReadWhole
<1>. QED
  BY <1>2, <1>4, <1>5, <1>6 DEF Peers

\* No step, of whichever actor, lets something that waits be slept over.
LEMMA AwakeStep ==
  ASSUME TypeOK, Awake, ~Bursty, [Next]_vars
  PROVE  Awake'
<1>1. CASE Thread
  BY <1>1, LoopStep, HandleStep, AcceptStep, WritingStep, SourcesAssumption DEF Thread
<1>2. CASE UNCHANGED vars
  BY <1>2 DEF vars, net, epoll, source, loop, Awake, Queued, Registration, ReadWhole,
              NoneOverslept, Waiting
<1>. QED
  BY <1>1, <1>2, ApplicationStep, PeersStep DEF Next

\* At first nothing waits, and the server is registered.
LEMMA AwakeInitially == Init => Awake
<1>. SUFFICES ASSUME Init PROVE Awake
  OBVIOUS
<1>1. Queued /\ ReadWhole
  BY SourcesAssumption DEF Init, Queued, ReadWhole
<1>2. Registration /\ NoneOverslept
  BY SourcesAssumption, Zenon DEF Init, Registration, NoneOverslept, Waiting, Source
<1>. QED
  BY <1>1, <1>2 DEF Awake

\* Edge-triggered readiness is told once, and the thread never sleeps over
\* it: if peers wait until what they sent is read, then whatever waits at an
\* enabled source is on epoll's list, in the events of the cycle or in the
\* hands of the accepting loop - however connections are accepted, enabled,
\* disabled and closed meanwhile, and however few events a cycle fetches.
THEOREM NeverOverslept == ~Bursty => (Spec => []NoneOverslept)
<1>. SUFFICES ASSUME ~Bursty PROVE Spec => []NoneOverslept
  OBVIOUS
<1>1. TypeOK /\ TypeOK' /\ Awake /\ [Next]_vars => Awake'
  BY AwakeStep
<1>2. Awake => NoneOverslept
  BY DEF Awake
<1>. QED
  BY <1>1, <1>2, AwakeInitially, TypeCorrect, PTL DEF Spec

-----------------------------------------------------------------------------
(* Numbers *)

\* A set of numbers with an element has a least one.
LEMMA Least ==
  ASSUME NEW T \in SUBSET Nat, T # {}
  PROVE  \E x \in T : \A y \in T : x <= y
<1>. DEFINE R == OpToRel(<, Nat)
<1>1. IsWellFoundedOn(R, Nat)
  BY NatLessThanWellFounded, Zenon
<1>2. \A x, y \in Nat : <<y, x>> \in R <=> y < x
  BY DEF OpToRel
<1>. HIDE DEF R
<1>3. PICK x \in T : \A y \in T : ~(<<y, x>> \in R)
  BY <1>1, WFMin
<1>4. ASSUME NEW y \in T PROVE x <= y
  <2>1. x \in Nat /\ y \in Nat /\ ~(y < x)
    BY <1>2, <1>3
  <2>. QED
    BY <2>1
<1>. QED
  BY <1>4

\* A set that holds 0, and with a number the next one, holds all up to n.
LEMMA AllUpTo ==
  ASSUME NEW n \in Nat, NEW T, 0 \in T,
         \A k \in Nat : k < n /\ k \in T => k + 1 \in T
  PROVE  \A k \in 0..n : k \in T
<1>. DEFINE Missing == {k \in 0..n : k \notin T}
<1>1. SUFFICES ASSUME Missing # {} PROVE FALSE
  OBVIOUS
<1>2. PICK x \in Missing : \A y \in Missing : x <= y
  <2>1. Missing \in SUBSET Nat
    OBVIOUS
  <2>. HIDE DEF Missing
  <2>. QED
    BY <1>1, <2>1, Least
<1>3. x \in 1..n /\ x - 1 \in 0..n
  BY <1>2
<1>4. x - 1 \in T
  BY <1>2, <1>3
<1>5. x \in T
  BY <1>3, <1>4
<1>. QED
  BY <1>2, <1>5

\* f repeats a step, the k-th of n, from a base.
Repeats(f, n, base, step) ==
  f[0] = base /\ \A k \in 1..n : f[k] = step[k][f[k - 1]]

\* A step can be repeated: the function that a recursion over the
\* numbers up to n defines exists.
LEMMA Repeated ==
  ASSUME NEW n \in Nat, NEW Place, NEW base \in Place,
         NEW step \in [1..n -> [Place -> Place]]
  PROVE  \E f \in [0..n -> Place] : Repeats(f, n, base, step)
<1>. DEFINE Upto(m) == \E f \in [0..m -> Place] : Repeats(f, m, base, step)
            T == {m \in 0..n : Upto(m)}
<1>1. 0 \in T
  <2>. DEFINE f == [k \in 0..0 |-> base]
  <2>1. f \in [0..0 -> Place] /\ Repeats(f, 0, base, step)
    BY DEF Repeats
  <2>. HIDE DEF f
  <2>2. Upto(0)
    BY <2>1
  <2>. QED
    BY <2>2
<1>2. ASSUME NEW m \in Nat, m < n, m \in T PROVE m + 1 \in T
  <2>1. PICK f \in [0..m -> Place] : Repeats(f, m, base, step)
    BY <1>2
  <2>. DEFINE last == step[m + 1][f[m]]
              g == [k \in 0..(m + 1) |-> IF k = m + 1 THEN last ELSE f[k]]
  <2>2. last \in Place /\ last = step[m + 1][f[m]]
    <3>1. m + 1 \in 1..n /\ f[m] \in Place
      BY <1>2
    <3>2. step[m + 1] \in [Place -> Place]
      BY <3>1
    <3>. QED
      BY <3>1, <3>2
  <2>. HIDE DEF last
  <2>3. g \in [0..(m + 1) -> Place]
    BY <2>2
  <2>4. \A k \in 0..m : g[k] = f[k]
    OBVIOUS
  <2>5. g[m + 1] = last
    OBVIOUS
  <2>. HIDE DEF g
  <2>6. ASSUME NEW k \in 1..(m + 1) PROVE g[k] = step[k][g[k - 1]]
    <3>1. CASE k = m + 1
      <4>1. k - 1 = m /\ m \in 0..m
        BY <3>1
      <4>. QED
        BY <2>2, <2>4, <2>5, <3>1, <4>1
    <3>2. CASE k # m + 1
      <4>1. k \in 1..m /\ k \in 0..m /\ k - 1 \in 0..m
        BY <3>2
      <4>. QED
        BY <2>1, <2>4, <4>1 DEF Repeats
    <3>. QED
      BY <3>1, <3>2
  <2>7. g[0] = base
    BY <2>1, <2>4 DEF Repeats
  <2>8. Repeats(g, m + 1, base, step)
    BY <2>6, <2>7 DEF Repeats
  <2>. QED
    BY <1>2, <2>3, <2>8
<1>3. n \in T
  <2>. HIDE DEF T
  <2>1. \A k \in 0..n : k \in T
    BY <1>1, <1>2, AllUpTo
  <2>. QED
    BY <2>1
<1>. QED
  BY <1>3

-----------------------------------------------------------------------------
(* The sizes of blocks *)

LEMMA WindowIs ==
  ASSUME NEW w \in Windows
  PROVE  /\ size(w) \in Nat /\ w.mBytes \in 1..MaxBytes
         /\ w.mStart \in 0..mBlockSize /\ w.mEnd \in 0..mBlockSize /\ w.mStart <= w.mEnd
         /\ size(w) = w.mEnd - w.mStart
<1>1. /\ w.mBytes \in 1..MaxBytes /\ w.mStart \in 0..mBlockSize /\ w.mEnd \in 0..mBlockSize
      /\ w.mStart <= w.mEnd
  BY DEF Windows
<1>2. size(w) = w.mEnd - w.mStart
  BY DEF size
<1>3. mBlockSize \in Nat
  BY BufferAssumption, Zenon DEF BufferAssumption
<1>. QED
  BY <1>1, <1>2, <1>3

\* The recursion over the blocks, unfolded.
LEMMA SizesAre ==
  ASSUME NEW c \in Seq(Windows)
  PROVE  /\ Len(c) \in Nat /\ Sizes(c) \in [0..Len(c) -> Nat] /\ Sizes(c)[0] = 0
         /\ \A k \in 1..Len(c) : Sizes(c)[k] = Sizes(c)[k - 1] + size(c[k])
         /\ Total(c) = Sizes(c)[Len(c)] /\ Total(c) \in Nat
<1>. DEFINE n == Len(c)
            first == CHOOSE f : f = [k \in 0..n |-> IF k = 0 THEN 0 ELSE f[k - 1] + size(c[k])]
            step == [k \in 1..n |-> [x \in Nat |-> x + size(c[k])]]
<1>1. n \in Nat /\ \A k \in 1..n : size(c[k]) \in Nat
  BY WindowIs, ElementOfSeq
<1>2. step \in [1..n -> [Nat -> Nat]]
  BY <1>1
<1>3. \A k \in 1..n : \A x \in Nat : step[k][x] = x + size(c[k])
  OBVIOUS
<1>. HIDE DEF n, step
<1>4. PICK f \in [0..n -> Nat] : Repeats(f, n, 0, step)
  BY <1>1, <1>2, Repeated
<1>5. f[0] = 0 /\ \A k \in 1..n : k - 1 \in 0..n /\ f[k] = f[k - 1] + size(c[k])
  <2>1. \A k \in 1..n : k - 1 \in 0..n
    BY <1>1
  <2>. QED
    BY <1>3, <1>4, <2>1 DEF Repeats
<1>6. first = [k \in 0..n |-> IF k = 0 THEN 0 ELSE first[k - 1] + size(c[k])]
  <2>1. ASSUME NEW k \in 0..n PROVE f[k] = IF k = 0 THEN 0 ELSE f[k - 1] + size(c[k])
    <3>1. k # 0 => k \in 1..n
      BY <1>1
    <3>. QED
      BY <1>5, <3>1
  <2>2. f = [k \in 0..n |-> IF k = 0 THEN 0 ELSE f[k - 1] + size(c[k])]
    BY <1>4, <2>1
  <2>. QED
    BY <2>2
<1>7. Sizes(c) = first
  BY DEF Sizes, first, n
<1>. HIDE DEF first
<1>8. /\ first[0] = 0 /\ DOMAIN first = 0..n
      /\ \A k \in 1..n : first[k] = first[k - 1] + size(c[k])
  <2>1. \A k \in 1..n : k \in 0..n /\ k # 0
    BY <1>1
  <2>2. 0 \in 0..n
    BY <1>1
  <2>. QED
    BY <1>6, <2>1, <2>2
<1>. DEFINE T == {k \in 0..n : first[k] \in Nat}
<1>9. 0 \in T
  BY <1>1, <1>8
<1>10. ASSUME NEW k \in Nat, k < n, k \in T PROVE k + 1 \in T
  <2>1. k + 1 \in 1..n /\ (k + 1) - 1 = k
    BY <1>1, <1>10
  <2>. QED
    BY <1>1, <1>8, <1>10, <2>1
<1>11. \A k \in 0..n : first[k] \in Nat
  <2>. HIDE DEF T
  <2>1. \A k \in 0..n : k \in T
    BY <1>1, <1>9, <1>10, AllUpTo
  <2>. QED
    BY <2>1 DEF T
<1>12. first \in [0..n -> Nat]
  <2>1. first = [k \in 0..n |-> first[k]]
    BY <1>6
  <2>. QED
    BY <1>11, <2>1
<1>13. n \in 0..n
  BY <1>1
<1>. QED
  BY <1>1, <1>7, <1>8, <1>11, <1>12, <1>13 DEF Total, n

\* More blocks are not less.
LEMMA SizesGrow ==
  ASSUME NEW c \in Seq(Windows), NEW j \in 0..Len(c), NEW k \in 0..Len(c), j <= k
  PROVE  Sizes(c)[j] <= Sizes(c)[k]
<1>. DEFINE T == {n \in 0..Len(c) : j <= n => Sizes(c)[j] <= Sizes(c)[n]}
<1>1. /\ Len(c) \in Nat /\ Sizes(c) \in [0..Len(c) -> Nat]
      /\ \A n \in 1..Len(c) : Sizes(c)[n] = Sizes(c)[n - 1] + size(c[n]) /\ size(c[n]) \in Nat
  BY SizesAre, WindowIs, ElementOfSeq
<1>2. 0 \in T
  BY <1>1
<1>3. ASSUME NEW n \in Nat, n < Len(c), n \in T PROVE n + 1 \in T
  <2>1. n + 1 \in 1..Len(c) /\ (n + 1) - 1 = n /\ n \in 0..Len(c)
    BY <1>1, <1>3
  <2>2. Sizes(c)[n + 1] = Sizes(c)[n] + size(c[n + 1]) /\ size(c[n + 1]) \in Nat
    BY <1>1, <2>1
  <2>3. Sizes(c)[n] \in Nat /\ Sizes(c)[j] \in Nat
    BY <1>1, <2>1
  <2>4. j <= n + 1 => Sizes(c)[j] <= Sizes(c)[n + 1]
    <3>1. CASE j = n + 1
      BY <2>2, <2>3, <3>1
    <3>2. CASE j # n + 1
      <4>1. j <= n + 1 => j <= n
        BY <1>1, <3>2
      <4>. QED
        BY <1>3, <2>2, <2>3, <4>1
    <3>. QED
      BY <3>1, <3>2
  <2>. QED
    BY <1>1, <2>1, <2>4
<1>. HIDE DEF T
<1>4. \A n \in 0..Len(c) : n \in T
  BY <1>1, <1>2, <1>3, AllUpTo
<1>. QED
  BY <1>4 DEF T

\* The first n blocks, one of them larger, if it is among them.
Enlarged(c, d, n, at, more) ==
  \A k \in 1..n : size(d[k]) = size(c[k]) + IF k = at THEN more ELSE 0

\* Blocks of which one, at most, is larger than its counterpart.
LEMMA SizesDiffer ==
  ASSUME NEW c \in Seq(Windows), NEW d \in Seq(Windows), NEW n \in Nat, n <= Len(c), n <= Len(d),
         NEW at \in Nat, NEW more \in Int, Enlarged(c, d, n, at, more)
  PROVE  Sizes(d)[n] = Sizes(c)[n] + IF at \in 1..n THEN more ELSE 0
<1>. DEFINE Extra(k) == IF at \in 1..k THEN more ELSE 0
            T == {k \in 0..n : Sizes(d)[k] = Sizes(c)[k] + Extra(k)}
<1>1. /\ Len(c) \in Nat /\ Sizes(c) \in [0..Len(c) -> Nat] /\ Sizes(c)[0] = 0
      /\ \A k \in 1..Len(c) : Sizes(c)[k] = Sizes(c)[k - 1] + size(c[k]) /\ size(c[k]) \in Nat
  BY SizesAre, WindowIs, ElementOfSeq
<1>2. /\ Len(d) \in Nat /\ Sizes(d) \in [0..Len(d) -> Nat] /\ Sizes(d)[0] = 0
      /\ \A k \in 1..Len(d) : Sizes(d)[k] = Sizes(d)[k - 1] + size(d[k]) /\ size(d[k]) \in Nat
  BY SizesAre, WindowIs, ElementOfSeq
<1>3. 0 \in T
  BY <1>1, <1>2
<1>4. ASSUME NEW k \in Nat, k < n, k \in T PROVE k + 1 \in T
  <2>1. /\ k + 1 \in 1..n /\ k + 1 \in 1..Len(c) /\ k + 1 \in 1..Len(d) /\ (k + 1) - 1 = k
        /\ k \in 0..Len(c) /\ k \in 0..Len(d)
    BY <1>1, <1>2, <1>4
  <2>2. /\ Sizes(c)[k + 1] = Sizes(c)[k] + size(c[k + 1])
        /\ Sizes(d)[k + 1] = Sizes(d)[k] + size(d[k + 1])
    BY <1>1, <1>2, <2>1
  <2>3. /\ Sizes(c)[k] \in Nat /\ Sizes(d)[k] \in Nat
        /\ size(c[k + 1]) \in Nat /\ size(d[k + 1]) \in Nat
    BY <1>1, <1>2, <2>1
  <2>4. size(d[k + 1]) = size(c[k + 1]) + IF k + 1 = at THEN more ELSE 0
    BY <2>1 DEF Enlarged
  <2>5. Sizes(d)[k] = Sizes(c)[k] + Extra(k)
    BY <1>4
  <2>6. Extra(k + 1) = Extra(k) + IF k + 1 = at THEN more ELSE 0
    <3>1. CASE k + 1 = at
      BY <3>1
    <3>2. CASE k + 1 # at
      BY <3>2
    <3>. QED
      BY <3>1, <3>2
  <2>7. Extra(k) \in Int
    OBVIOUS
  <2>. HIDE DEF Extra
  <2>8. Sizes(d)[k + 1] = Sizes(c)[k + 1] + Extra(k + 1)
    <3>. DEFINE e == IF k + 1 = at THEN more ELSE 0
    <3>1. e \in Int
      OBVIOUS
    <3>2. size(d[k + 1]) = size(c[k + 1]) + e /\ Extra(k + 1) = Extra(k) + e
      BY <2>4, <2>6
    <3>. HIDE DEF e
    <3>. QED
      BY <2>2, <2>3, <2>5, <2>7, <3>1, <3>2, SMTT(60)
  <2>. QED
    BY <1>4, <2>8
<1>. HIDE DEF T
<1>5. \A k \in 0..n : k \in T
  BY <1>3, <1>4, AllUpTo
<1>6. n \in T
  BY <1>5
<1>. QED
  BY <1>6 DEF T

\* Blocks of the same sizes.
LEMMA SameSizes ==
  ASSUME NEW c \in Seq(Windows), NEW d \in Seq(Windows), NEW n \in Nat, n <= Len(c), n <= Len(d),
         \A k \in 1..n : size(d[k]) = size(c[k])
  PROVE  Sizes(d)[n] = Sizes(c)[n]
<1>1. Enlarged(c, d, n, 0, 0)
  <2>1. \A k \in 1..n : k \in 1..Len(c)
    BY SizesAre
  <2>2. \A k \in 1..n : size(c[k]) \in Nat
    BY <2>1, WindowIs, ElementOfSeq
  <2>. QED
    BY <2>2 DEF Enlarged
<1>2. Sizes(d)[n] = Sizes(c)[n] + IF 0 \in 1..n THEN 0 ELSE 0
  BY <1>1, SizesDiffer
<1>3. Sizes(c)[n] \in Nat
  BY SizesAre
<1>. QED
  BY <1>2, <1>3

-----------------------------------------------------------------------------
(* Least and greatest *)

LEMMA MinIs ==
  ASSUME NEW T \in SUBSET Nat, T # {}
  PROVE  Sets!Min(T) \in T /\ \A y \in T : Sets!Min(T) <= y
<1>1. \E x \in T : \A y \in T : x <= y
  BY Least
<1>. QED
  BY <1>1 DEF Sets!Min

LEMMA MinOfTwo ==
  ASSUME NEW i \in Nat, NEW j \in Nat
  PROVE  /\ Sets!Min({i, j}) \in Nat /\ Sets!Min({i, j}) <= i /\ Sets!Min({i, j}) <= j
         /\ Sets!Min({i, j}) \in {i, j}
<1>1. {i, j} \in SUBSET Nat /\ {i, j} # {}
  OBVIOUS
<1>2. Sets!Min({i, j}) \in {i, j} /\ \A y \in {i, j} : Sets!Min({i, j}) <= y
  BY <1>1, MinIs
<1>. QED
  BY <1>2

LEMMA MaxOfTwo ==
  ASSUME NEW i \in Int, NEW j \in Int
  PROVE  Sets!Max({i, j}) = IF j <= i THEN i ELSE j
<1>1. CASE j <= i
  BY <1>1 DEF Sets!Max
<1>2. CASE ~(j <= i)
  BY <1>2 DEF Sets!Max
<1>. QED
  BY <1>1, <1>2

LEMMA MaxIs ==
  ASSUME NEW n \in Nat, NEW T \in SUBSET (0..n), T # {}
  PROVE  Sets!Max(T) \in T /\ \A y \in T : y <= Sets!Max(T)
<1>. DEFINE U == {k \in 0..n : n - k \in T}
<1>1. U \in SUBSET Nat /\ U # {}
  <2>1. PICK x \in T : TRUE
    OBVIOUS
  <2>2. n - x \in 0..n /\ n - (n - x) = x
    BY <2>1
  <2>3. n - x \in U
    BY <2>1, <2>2
  <2>4. U \in SUBSET Nat
    OBVIOUS
  <2>. HIDE DEF U
  <2>. QED
    BY <2>3, <2>4
<1>2. PICK x \in U : \A y \in U : x <= y
  BY <1>1, Least
<1>3. n - x \in T /\ \A y \in T : n - x >= y
  <2>1. \A y \in T : n - y \in U
    BY SMT
  <2>2. \A y \in T : x <= n - y
    BY <1>2, <2>1
  <2>. QED
    BY <1>2, <2>2
<1>4. \E z \in T : \A y \in T : z >= y
  BY <1>3
<1>. HIDE DEF U
<1>5. Sets!Max(T) \in T /\ \A y \in T : Sets!Max(T) >= y
  BY <1>4 DEF Sets!Max
<1>. QED
  BY <1>5

-----------------------------------------------------------------------------
(* The blocks on some bytes *)

WhereOn(c, m) == {k \in DOMAIN c : c[k].mBytes = m}
Count(c, m) == Cardinality(WhereOn(c, m))

LEMMA CountIs ==
  ASSUME NEW c \in Seq(Windows), NEW m
  PROVE  IsFiniteSet(WhereOn(c, m)) /\ Count(c, m) \in Nat
<1>1. IsFiniteSet(1..Len(c)) /\ DOMAIN c = 1..Len(c)
  BY FS_Interval, LenProperties
<1>2. WhereOn(c, m) \in SUBSET (1..Len(c))
  BY <1>1 DEF WhereOn
<1>3. IsFiniteSet(WhereOn(c, m))
  BY <1>1, <1>2, FS_Subset
<1>. QED
  BY <1>3, FS_CardinalityType DEF Count

\* Blocks on the same bytes.
LEMMA SameCount ==
  ASSUME NEW c \in Seq(Windows), NEW d \in Seq(Windows), Len(d) = Len(c),
         \A k \in 1..Len(c) : d[k].mBytes = c[k].mBytes
  PROVE  \A m : Count(d, m) = Count(c, m)
<1>1. DOMAIN c = 1..Len(c) /\ DOMAIN d = 1..Len(c)
  BY LenProperties
<1>2. ASSUME NEW m PROVE WhereOn(d, m) = WhereOn(c, m)
  BY <1>1 DEF WhereOn
<1>. QED
  BY <1>2 DEF Count

LEMMA NoBlocks ==
  <<>> \in Seq(Windows) /\ Total(<<>>) = 0 /\ \A m : Count(<<>>, m) = 0
<1>1. <<>> \in Seq(Windows) /\ Len(<<>>) = 0
  BY EmptySeq
<1>2. Total(<<>>) = 0
  BY <1>1, SizesAre
<1>3. ASSUME NEW m PROVE WhereOn(<<>>, m) = {}
  BY DEF WhereOn
<1>. QED
  BY <1>1, <1>2, <1>3, FS_EmptySet DEF Count

\* How many of one block.
OneOn(w, m) == IF m = w.mBytes THEN 1 ELSE 0

LEMMA OneBlock ==
  ASSUME NEW w \in Windows
  PROVE  /\ <<w>> \in Seq(Windows) /\ Len(<<w>>) = 1 /\ Total(<<w>>) = size(w)
         /\ \A m : Count(<<w>>, m) = OneOn(w, m)
<1>. DEFINE c == <<w>>
<1>1. c \in Seq(Windows) /\ Len(c) = 1 /\ c[1] = w /\ DOMAIN c = {1}
  OBVIOUS
<1>. HIDE DEF c
<1>2. Total(c) = size(w)
  <2>1. Sizes(c)[0] = 0 /\ Sizes(c)[1] = Sizes(c)[0] + size(c[1]) /\ Total(c) = Sizes(c)[1]
    BY <1>1, SizesAre
  <2>. QED
    BY <1>1, <2>1, WindowIs
<1>3. ASSUME NEW m PROVE WhereOn(c, m) = IF m = w.mBytes THEN {1} ELSE {}
  BY <1>1 DEF WhereOn
<1>4. ASSUME NEW m PROVE Count(c, m) = OneOn(w, m)
  BY <1>3, FS_EmptySet, FS_Singleton DEF Count, OneOn
<1>. QED
  BY <1>1, <1>2, <1>4 DEF c

\* Blocks behind others.
LEMMA JoinedCount ==
  ASSUME NEW c \in Seq(Windows), NEW d \in Seq(Windows), NEW m
  PROVE  Count(c \o d, m) = Count(c, m) + Count(d, m)
<1>. DEFINE n == Len(c)
            B == {k \in (n + 1)..(n + Len(d)) : d[k - n].mBytes = m}
            f == [k \in WhereOn(d, m) |-> k + n]
<1>1. /\ n \in Nat /\ Len(d) \in Nat /\ DOMAIN c = 1..n /\ DOMAIN d = 1..Len(d)
      /\ Len(c \o d) = n + Len(d) /\ DOMAIN (c \o d) = 1..(n + Len(d))
      /\ \A k \in 1..(n + Len(d)) : (c \o d)[k] = IF k <= n THEN c[k] ELSE d[k - n]
  <2>1. c \o d \in Seq(Windows)
    BY ConcatProperties
  <2>. QED
    BY <2>1, ConcatProperties, LenProperties
<1>. HIDE DEF n
<1>2. f \in Bijection(WhereOn(d, m), B)
  <2>1. \A k \in WhereOn(d, m) : k \in 1..Len(d) /\ k + n \in B
    <3>1. \A k \in 1..Len(d) : k + n \in (n + 1)..(n + Len(d)) /\ (k + n) - n = k
      BY <1>1
    <3>. QED
      BY <1>1, <3>1 DEF WhereOn
  <2>2. \A k, j \in WhereOn(d, m) : k + n = j + n => k = j
    BY <1>1, <2>1
  <2>3. \A j \in B : j - n \in WhereOn(d, m) /\ (j - n) + n = j
    <3>1. \A j \in (n + 1)..(n + Len(d)) : j - n \in 1..Len(d) /\ (j - n) + n = j
      BY <1>1
    <3>. QED
      BY <1>1, <3>1 DEF WhereOn
  <2>. HIDE DEF B
  <2>4. f \in [WhereOn(d, m) -> B] /\ \A k \in WhereOn(d, m) : f[k] = k + n
    BY <2>1
  <2>. HIDE DEF f
  <2>5. f \in Injection(WhereOn(d, m), B)
    BY <2>2, <2>4 DEF Injection, IsInjective
  <2>6. f \in Surjection(WhereOn(d, m), B)
    <3>1. \A j \in B : \E k \in WhereOn(d, m) : f[k] = j
      BY <2>3, <2>4
    <3>. QED
      BY <2>4, <3>1 DEF Surjection
  <2>. QED
    BY <2>5, <2>6 DEF Bijection
<1>3. IsFiniteSet(B) /\ Cardinality(B) = Count(d, m)
  <2>1. ExistsBijection(WhereOn(d, m), B)
    BY <1>2 DEF ExistsBijection
  <2>2. IsFiniteSet(WhereOn(d, m))
    BY CountIs
  <2>. HIDE DEF B, f
  <2>. QED
    BY <2>1, <2>2, FS_Bijection DEF Count
<1>4. WhereOn(c \o d, m) = WhereOn(c, m) \cup B /\ WhereOn(c, m) \cap B = {}
  <2>1. \A k \in 1..(n + Len(d)) :
          \/ k \in 1..n /\ k <= n /\ k \notin (n + 1)..(n + Len(d))
          \/ k \in (n + 1)..(n + Len(d)) /\ ~(k <= n) /\ k \notin 1..n
    BY <1>1
  <2>2. /\ \A k \in 1..n : k \in 1..(n + Len(d))
        /\ \A k \in (n + 1)..(n + Len(d)) : k \in 1..(n + Len(d))
    BY <1>1
  <2>3. ASSUME NEW k PROVE k \in WhereOn(c \o d, m) <=> k \in WhereOn(c, m) \cup B
    BY <1>1, <2>1, <2>2, Zenon DEF WhereOn
  <2>4. ASSUME NEW k \in WhereOn(c, m) PROVE k \notin B
    BY <1>1, <2>1, <2>2 DEF WhereOn
  <2>. QED
    BY <2>3, <2>4
<1>5. Cardinality(WhereOn(c, m) \cup B) = Count(c, m) + Cardinality(B)
  <2>1. IsFiniteSet(WhereOn(c, m)) /\ Cardinality({}) = 0
    BY CountIs, FS_EmptySet
  <2>. HIDE DEF B, f
  <2>2. Cardinality(WhereOn(c, m) \cup B) = Count(c, m) + Cardinality(B) - 0
    BY <1>3, <1>4, <2>1, FS_Union DEF Count
  <2>3. Count(c, m) \in Nat /\ Count(d, m) \in Nat
    BY CountIs
  <2>. QED
    BY <1>3, <2>2, <2>3
<1>. QED
  BY <1>3, <1>4, <1>5 DEF Count

LEMMA JoinedSizes ==
  ASSUME NEW c \in Seq(Windows), NEW d \in Seq(Windows)
  PROVE  Total(c \o d) = Total(c) + Total(d)
<1>. DEFINE e == c \o d
            n == Len(c)
            T == {k \in 0..Len(d) : Sizes(e)[n + k] = Total(c) + Sizes(d)[k]}
<1>1. /\ e \in Seq(Windows) /\ n \in Nat /\ Len(d) \in Nat /\ Len(e) = n + Len(d)
      /\ \A k \in 1..n : e[k] = c[k]
      /\ \A k \in 1..Len(d) : e[n + k] = d[k]
  <2>1. /\ e \in Seq(Windows) /\ Len(e) = n + Len(d)
        /\ \A k \in 1..(n + Len(d)) : e[k] = IF k <= n THEN c[k] ELSE d[k - n]
    BY ConcatProperties
  <2>2. n \in Nat /\ Len(d) \in Nat
    BY LenProperties
  <2>. HIDE DEF e, n
  <2>3. ASSUME NEW k \in 1..Len(d) PROVE e[n + k] = d[k]
    <3>1. n + k \in 1..(n + Len(d)) /\ ~(n + k <= n) /\ (n + k) - n = k
      BY <2>2
    <3>. QED
      BY <2>1, <3>1
  <2>4. ASSUME NEW k \in 1..n PROVE e[k] = c[k]
    <3>1. k \in 1..(n + Len(d)) /\ k <= n
      BY <2>2
    <3>. QED
      BY <2>1, <3>1
  <2>. QED
    BY <2>1, <2>2, <2>3, <2>4
<1>2. Total(c) = Sizes(c)[n] /\ Total(c) \in Nat /\ Total(d) = Sizes(d)[Len(d)]
  BY SizesAre DEF n
<1>3. /\ Sizes(d) \in [0..Len(d) -> Nat] /\ Sizes(d)[0] = 0
      /\ \A k \in 1..Len(d) : Sizes(d)[k] = Sizes(d)[k - 1] + size(d[k])
  BY SizesAre
<1>4. \A k \in 1..Len(e) : Sizes(e)[k] = Sizes(e)[k - 1] + size(e[k])
  BY <1>1, SizesAre
<1>5. Sizes(e)[n] = Sizes(c)[n]
  <2>1. n <= Len(c) /\ n <= Len(e) /\ \A k \in 1..n : size(e[k]) = size(c[k])
    BY <1>1
  <2>. HIDE DEF e, n
  <2>. QED
    BY <1>1, <2>1, SameSizes
<1>6. Total(e) = Sizes(e)[Len(e)]
  BY <1>1, SizesAre
<1>. HIDE DEF e, n
<1>7. 0 \in T
  BY <1>1, <1>2, <1>3, <1>5
<1>8. ASSUME NEW k \in Nat, k < Len(d), k \in T PROVE k + 1 \in T
  <2>1. k + 1 \in 1..Len(d) /\ (k + 1) - 1 = k /\ k \in 0..Len(d) /\ n + (k + 1) \in 1..Len(e)
        /\ (n + (k + 1)) - 1 = n + k
    BY <1>1, <1>8
  <2>2. Sizes(e)[n + (k + 1)] = Sizes(e)[n + k] + size(d[k + 1])
    BY <1>1, <1>4, <2>1
  <2>3. Sizes(d)[k + 1] = Sizes(d)[k] + size(d[k + 1])
    BY <1>3, <2>1
  <2>4. size(d[k + 1]) \in Nat /\ Sizes(d)[k] \in Nat
    BY <1>3, <2>1, WindowIs, ElementOfSeq
  <2>5. Sizes(e)[n + k] = Total(c) + Sizes(d)[k]
    BY <1>8
  <2>. QED
    BY <1>2, <2>1, <2>2, <2>3, <2>4, <2>5
<1>9. Len(d) \in T
  <2>1. Len(d) \in 0..Len(d)
    BY <1>1
  <2>. HIDE DEF T
  <2>. QED
    BY <1>1, <1>7, <1>8, <2>1, AllUpTo
<1>. QED
  BY <1>1, <1>2, <1>6, <1>9 DEF e

LEMMA Joined ==
  ASSUME NEW c \in Seq(Windows), NEW d \in Seq(Windows)
  PROVE  /\ c \o d \in Seq(Windows)
         /\ Total(c \o d) = Total(c) + Total(d)
         /\ \A m : Count(c \o d, m) = Count(c, m) + Count(d, m)
BY ConcatProperties, JoinedSizes, JoinedCount

\* The first blocks of a list, and the rest.
LEMMA Halves ==
  ASSUME NEW c \in Seq(Windows), NEW i \in 0..Len(c)
  PROVE  LET before == SubSeq(c, 1, i)
             behind == SubSeq(c, i + 1, Len(c))
         IN  /\ before \in Seq(Windows) /\ Len(before) = i /\ \A k \in 1..i : before[k] = c[k]
             /\ behind \in Seq(Windows) /\ Len(behind) = Len(c) - i
             /\ \A k \in 1..(Len(c) - i) : behind[k] = c[i + k]
             /\ c = before \o behind
             /\ Total(before) = Sizes(c)[i]
<1>. DEFINE before == SubSeq(c, 1, i)
            behind == SubSeq(c, i + 1, Len(c))
<1>1. Len(c) \in Nat /\ i \in Nat /\ i <= Len(c) /\ \A k \in 1..Len(c) : c[k] \in Windows
  BY LenProperties, ElementOfSeq
<1>2. /\ before \in Seq(Windows) /\ Len(before) = IF 1 <= i THEN i - 1 + 1 ELSE 0
      /\ \A k \in 1..(i - 1 + 1) : before[k] = c[1 + k - 1]
  <2>1. \A k \in 1..i : c[k] \in Windows
    BY <1>1
  <2>. QED
    BY <1>1, <2>1, SubSeqProperties
<1>3. /\ behind \in Seq(Windows)
      /\ Len(behind) = IF i + 1 <= Len(c) THEN Len(c) - (i + 1) + 1 ELSE 0
      /\ \A k \in 1..(Len(c) - (i + 1) + 1) : behind[k] = c[i + 1 + k - 1]
  <2>1. \A k \in (i + 1)..Len(c) : c[k] \in Windows
    BY <1>1
  <2>2. i + 1 \in Int
    BY <1>1
  <2>. QED
    BY <1>1, <2>1, <2>2, SubSeqProperties
<1>4. before \o behind = c
  <2>1. 1 \in 1..(Len(c) + 1) /\ i \in (1 - 1)..Len(c) /\ Len(c) \in i..Len(c)
    BY <1>1
  <2>2. before \o behind = SubSeq(c, 1, Len(c))
    BY <2>1, ConcatAdjacentSubSeq
  <2>. QED
    BY <2>2, SubSeqFull
<1>. HIDE DEF before, behind
<1>5. Len(before) = i /\ \A k \in 1..i : before[k] = c[k]
  BY <1>1, <1>2
<1>6. Len(behind) = Len(c) - i /\ \A k \in 1..(Len(c) - i) : behind[k] = c[i + k]
  BY <1>1, <1>3
<1>7. Total(before) = Sizes(c)[i]
  <2>1. Sizes(before)[i] = Sizes(c)[i]
    BY <1>1, <1>2, <1>5, SameSizes
  <2>. QED
    BY <1>2, <1>5, <2>1, SizesAre
<1>. QED
  BY <1>2, <1>3, <1>4, <1>5, <1>6, <1>7 DEF before, behind

-----------------------------------------------------------------------------
(* Blocks that become others *)

\* On(m), of any lists.
OnIn(lists, m) == UNION {{b} \X WhereOn(lists[b], m) : b \in Buffers}

\* When one buffer's blocks change, the blocks on some bytes do as its own.
LEMMA OnChanges ==
  ASSUME NEW lists \in [Buffers -> Seq(Windows)], NEW b \in Buffers, NEW d \in Seq(Windows), NEW m
  PROVE  /\ Cardinality(OnIn(lists, m)) \in Nat
         /\ Cardinality(OnIn([lists EXCEPT ![b] = d], m)) \in Nat
         /\ Cardinality(OnIn([lists EXCEPT ![b] = d], m))
              = Cardinality(OnIn(lists, m)) - Count(lists[b], m) + Count(d, m)
<1>. DEFINE after == [lists EXCEPT ![b] = d]
            Others == {{c} \X WhereOn(lists[c], m) : c \in Buffers \ {b}}
            Rest == UNION Others
            Own(c) == {b} \X WhereOn(c, m)
<1>1. IsFiniteSet(Rest)
  <2>. DEFINE f == [c \in Buffers \ {b} |-> {c} \X WhereOn(lists[c], m)]
  <2>1. IsFiniteSet(Buffers \ {b})
    BY BufferAssumption, FS_Difference, Zenon DEF BufferAssumption
  <2>2. f \in Surjection(Buffers \ {b}, Others)
    BY DEF Surjection
  <2>3. \A T \in Others : IsFiniteSet(T)
    <3>1. ASSUME NEW c \in Buffers PROVE IsFiniteSet({c} \X WhereOn(lists[c], m))
      BY CountIs, FS_Singleton, FS_Product
    <3>. QED
      BY <3>1
  <2>. HIDE DEF f, Others
  <2>4. IsFiniteSet(Others)
    BY <2>1, <2>2, FS_Surjection
  <2>. QED
    BY <2>3, <2>4, FS_UNION
<1>2. ASSUME NEW c \in Seq(Windows)
      PROVE  /\ IsFiniteSet(Own(c)) /\ Cardinality(Own(c)) = Count(c, m) /\ Count(c, m) \in Nat
             /\ Rest \cap Own(c) = {}
  <2>1. IsFiniteSet(WhereOn(c, m)) /\ Count(c, m) \in Nat
    BY CountIs
  <2>2. IsFiniteSet({b}) /\ Cardinality({b}) = 1
    BY FS_Singleton
  <2>3. IsFiniteSet(Own(c)) /\ Cardinality(Own(c)) = 1 * Count(c, m)
    BY <2>1, <2>2, FS_Product DEF Count
  <2>4. ASSUME NEW x \in Rest, x \in Own(c) PROVE FALSE
    <3>1. PICK o \in Buffers \ {b} : x \in {o} \X WhereOn(lists[o], m)
      BY <2>4
    <3>. QED
      BY <2>4, <3>1
  <2>. HIDE DEF Own
  <2>. QED
    BY <2>1, <2>3, <2>4
<1>3. lists[b] \in Seq(Windows) /\ after[b] = d /\ \A c \in Buffers \ {b} : after[c] = lists[c]
  OBVIOUS
<1>. HIDE DEF after
<1>4. OnIn(lists, m) = Rest \cup Own(lists[b])
  BY Zenon DEF OnIn
<1>5. OnIn(after, m) = Rest \cup Own(d)
  <2>1. OnIn(after, m)
          = (UNION {{c} \X WhereOn(after[c], m) : c \in Buffers \ {b}}) \cup Own(after[b])
    BY Zenon DEF OnIn
  <2>2. {{c} \X WhereOn(after[c], m) : c \in Buffers \ {b}} = Others
    BY <1>3
  <2>. HIDE DEF Others, Own
  <2>. QED
    BY <1>3, <2>1, <2>2
<1>. HIDE DEF Rest, Own, Others
<1>6. Cardinality(Rest) \in Nat
  BY <1>1, FS_CardinalityType
<1>7. ASSUME NEW c \in Seq(Windows)
      PROVE  Cardinality(Rest \cup Own(c)) = Cardinality(Rest) + Count(c, m)
  <2>1. /\ IsFiniteSet(Own(c)) /\ Cardinality(Own(c)) = Count(c, m) /\ Count(c, m) \in Nat
        /\ Rest \cap Own(c) = {}
    BY <1>2
  <2>2. Cardinality(Rest \cup Own(c))
          = Cardinality(Rest) + Cardinality(Own(c)) - Cardinality(Rest \cap Own(c))
    BY <1>1, <2>1, FS_Union
  <2>3. Cardinality(Rest \cap Own(c)) = 0
    BY <2>1, FS_EmptySet
  <2>. QED
    BY <1>6, <2>1, <2>2, <2>3
<1>8. Count(lists[b], m) \in Nat /\ Count(d, m) \in Nat
  BY <1>2, <1>3
<1>9. /\ Cardinality(OnIn(lists, m)) = Cardinality(Rest) + Count(lists[b], m)
      /\ Cardinality(OnIn(after, m)) = Cardinality(Rest) + Count(d, m)
  BY <1>3, <1>4, <1>5, <1>7
<1>. QED
  BY <1>6, <1>8, <1>9 DEF after

\* An iterator's place in a list.
InPlace(c, it) == it.mBlock # 0 => it.mBlock \in DOMAIN c /\ it.mPosition <= c[it.mBlock].mEnd

Iterators == [mBlock : Nat, mPosition : Int]

BytesThere ==
  [mReferenceCount : Nat, mEnd : 0..mBlockSize, data : [Offsets -> Chars \cup {Null}]]

\* A list of which a block's end was moved by n bytes.
IsGrown(c, d, k, n) ==
  /\ d \in Seq(Windows) /\ Len(d) = Len(c) /\ Total(d) = Total(c) + n
  /\ d[k].mEnd = c[k].mEnd + n /\ d[k].mBytes = c[k].mBytes
  /\ \A m : Count(d, m) = Count(c, m)
  /\ \A it \in Iterators : InPlace(c, it) => InPlace(d, it)

LEMMA Grown ==
  ASSUME NEW c \in Seq(Windows), NEW k \in 1..Len(c), NEW n \in Nat, c[k].mEnd + n <= mBlockSize
  PROVE  IsGrown(c, [c EXCEPT ![k].mEnd = @ + n], k, n)
<1>. DEFINE w == [c[k] EXCEPT !.mEnd = @ + n]
            d == [c EXCEPT ![k] = w]
<1>1. c[k] \in Windows /\ Len(c) \in Nat /\ DOMAIN c = 1..Len(c)
  BY ElementOfSeq, LenProperties
<1>2. /\ w \in Windows /\ w.mEnd = c[k].mEnd + n /\ w.mBytes = c[k].mBytes
      /\ w.mStart = c[k].mStart
  <2>1. c[k] \in [mBytes : 1..MaxBytes, mStart : 0..mBlockSize, mEnd : 0..mBlockSize]
    BY <1>1 DEF Windows
  <2>2. /\ w.mEnd = c[k].mEnd + n /\ w.mBytes = c[k].mBytes /\ w.mStart = c[k].mStart
        /\ w = [mBytes |-> w.mBytes, mStart |-> w.mStart, mEnd |-> w.mEnd]
    BY <2>1
  <2>3. /\ c[k].mBytes \in 1..MaxBytes /\ c[k].mStart \in 0..mBlockSize
        /\ c[k].mEnd \in 0..mBlockSize /\ c[k].mStart <= c[k].mEnd /\ mBlockSize \in Nat
    BY <1>1, WindowIs, BufferAssumption, Zenon DEF BufferAssumption
  <2>. HIDE DEF w
  <2>4. w.mEnd \in 0..mBlockSize /\ w.mStart <= w.mEnd
    BY <2>2, <2>3
  <2>. QED
    BY <2>2, <2>3, <2>4 DEF Windows
<1>3. d = [c EXCEPT ![k].mEnd = @ + n]
  OBVIOUS
<1>. HIDE DEF w
<1>4. /\ d \in Seq(Windows) /\ Len(d) = Len(c)
      /\ \A j \in 1..Len(c) : d[j] = IF j = k THEN w ELSE c[j]
  BY <1>2, ExceptSeq
<1>5. DOMAIN d = 1..Len(c)
  BY <1>1
<1>. HIDE DEF d
<1>6. \A m : Count(d, m) = Count(c, m)
  <2>1. \A j \in 1..Len(c) : d[j].mBytes = c[j].mBytes
    BY <1>2, <1>4
  <2>. QED
    BY <1>4, <2>1, SameCount
<1>7. Total(d) = Total(c) + n
  <2>1. size(w) = size(c[k]) + n
    BY <1>1, <1>2, WindowIs
  <2>2. \A j \in 1..Len(c) : size(d[j]) = size(c[j]) + IF j = k THEN n ELSE 0
    <3>1. \A j \in 1..Len(c) : size(c[j]) \in Nat
      BY WindowIs, ElementOfSeq
    <3>. QED
      BY <1>4, <2>1, <3>1
  <2>3. Sizes(d)[Len(c)] = Sizes(c)[Len(c)] + IF k \in 1..Len(c) THEN n ELSE 0
    <3>. DEFINE l == Len(c)
    <3>1. /\ k \in Nat /\ n \in Int /\ l \in Nat /\ l <= Len(c) /\ l <= Len(d) /\ d \in Seq(Windows)
          /\ Enlarged(c, d, l, k, n)
      BY <1>1, <1>4, <2>2 DEF Enlarged
    <3>2. Sizes(d)[l] = Sizes(c)[l] + IF k \in 1..l THEN n ELSE 0
      <4>. HIDE DEF l
      <4>. QED
        BY <3>1, SizesDiffer
    <3>. QED
      BY <3>2
  <2>4. Total(d) = Sizes(d)[Len(d)] /\ Total(c) = Sizes(c)[Len(c)]
    BY <1>4, SizesAre
  <2>. QED
    BY <1>4, <2>3, <2>4
<1>8. ASSUME NEW it \in Iterators, InPlace(c, it) PROVE InPlace(d, it)
  <2>1. SUFFICES ASSUME it.mBlock # 0 PROVE it.mBlock \in 1..Len(c) /\ it.mPosition <= d[it.mBlock].mEnd
    BY <1>5 DEF InPlace
  <2>2. it.mBlock \in 1..Len(c) /\ it.mPosition <= c[it.mBlock].mEnd /\ it.mPosition \in Int
    BY <1>1, <1>8, <2>1 DEF InPlace, Iterators
  <2>3. c[it.mBlock].mEnd \in Nat
    BY <2>2, WindowIs, ElementOfSeq
  <2>4. d[it.mBlock].mEnd = c[it.mBlock].mEnd \/ d[it.mBlock].mEnd = c[it.mBlock].mEnd + n
    BY <1>2, <1>4, <2>2
  <2>. QED
    BY <2>2, <2>3, <2>4
<1>. QED
  BY <1>2, <1>3, <1>4, <1>6, <1>7, <1>8 DEF IsGrown

\* The iterator of a list in which a block was made behind block k.
Shifted(it, k) == IF it.mBlock > k THEN [it EXCEPT !.mBlock = @ + 1] ELSE it

LEMMA ShiftedTyped ==
  ASSUME NEW it \in Iterators, NEW k
  PROVE  Shifted(it, k) \in Iterators
BY DEF Shifted, Iterators

\* A list in which block w was made behind block k.
IsInserted(c, d, k, w) ==
  /\ d \in Seq(Windows) /\ Len(d) = Len(c) + 1 /\ d[k + 1] = w
  /\ \A j \in 1..(Len(c) + 1) :
       d[j] = IF j <= k THEN c[j] ELSE IF j = k + 1 THEN w ELSE c[j - 1]
  /\ Total(d) = Total(c) + size(w)
  /\ \A m : Count(d, m) = Count(c, m) + OneOn(w, m)
  /\ \A it \in Iterators : InPlace(c, it) => InPlace(d, Shifted(it, k))

LEMMA InsertedBehind ==
  ASSUME NEW c \in Seq(Windows), NEW k \in 0..Len(c), NEW w \in Windows
  PROVE  IsInserted(c, Seqs!InsertAt(c, k + 1, w), k, w)
<1>. DEFINE before == SubSeq(c, 1, k)
            behind == SubSeq(c, k + 1, Len(c))
            d == (before \o <<w>>) \o behind
<1>1. k \in Nat /\ Len(c) \in Nat /\ DOMAIN c = 1..Len(c)
  BY LenProperties
<1>2. Seqs!InsertAt(c, k + 1, w) = d
  <2>1. (k + 1) - 1 = k
    BY <1>1
  <2>. QED
    BY <2>1 DEF Seqs!InsertAt
<1>3. /\ before \in Seq(Windows) /\ Len(before) = k /\ \A j \in 1..k : before[j] = c[j]
      /\ behind \in Seq(Windows) /\ Len(behind) = Len(c) - k
      /\ \A j \in 1..(Len(c) - k) : behind[j] = c[k + j]
      /\ c = before \o behind
  BY Halves
<1>4. /\ <<w>> \in Seq(Windows) /\ Len(<<w>>) = 1 /\ <<w>>[1] = w /\ Total(<<w>>) = size(w)
      /\ \A m : Count(<<w>>, m) = OneOn(w, m)
  BY OneBlock
<1>. HIDE DEF before, behind
<1>5. /\ before \o <<w>> \in Seq(Windows) /\ Len(before \o <<w>>) = k + 1
      /\ \A j \in 1..(k + 1) : (before \o <<w>>)[j] = IF j <= k THEN c[j] ELSE w
  <2>1. /\ before \o <<w>> \in Seq(Windows)
        /\ Len(before \o <<w>>) = Len(before) + Len(<<w>>)
        /\ \A j \in 1..(Len(before) + Len(<<w>>)) :
             (before \o <<w>>)[j] = IF j <= Len(before) THEN before[j] ELSE <<w>>[j - Len(before)]
    BY <1>3, <1>4, ConcatProperties
  <2>2. \A j \in 1..(k + 1) : (j <= k /\ j \in 1..k) \/ (~(j <= k) /\ j - k = 1)
    BY <1>1
  <2>. QED
    BY <1>3, <1>4, <2>1, <2>2
<1>6. /\ d \in Seq(Windows) /\ Len(d) = Len(c) + 1
      /\ \A j \in 1..(Len(c) + 1) :
           d[j] = IF j <= k THEN c[j] ELSE IF j = k + 1 THEN w ELSE c[j - 1]
  <2>1. /\ d \in Seq(Windows) /\ Len(d) = (k + 1) + (Len(c) - k)
        /\ \A j \in 1..((k + 1) + (Len(c) - k)) :
             d[j] = IF j <= k + 1 THEN (before \o <<w>>)[j] ELSE behind[j - (k + 1)]
    BY <1>3, <1>5, ConcatProperties
  <2>2. (k + 1) + (Len(c) - k) = Len(c) + 1
    BY <1>1
  <2>3. ASSUME NEW j \in 1..(Len(c) + 1), ~(j <= k + 1)
        PROVE  j - (k + 1) \in 1..(Len(c) - k) /\ k + (j - (k + 1)) = j - 1
    BY <1>1, <2>3
  <2>4. ASSUME NEW j \in 1..(Len(c) + 1), j <= k + 1
        PROVE  j \in 1..(k + 1) /\ (~(j <= k) => j = k + 1)
    BY <1>1, <2>4
  <2>5. ASSUME NEW j \in 1..(Len(c) + 1)
        PROVE  d[j] = IF j <= k THEN c[j] ELSE IF j = k + 1 THEN w ELSE c[j - 1]
    <3>1. CASE j <= k + 1
      BY <1>1, <1>5, <2>1, <2>2, <2>4, <3>1
    <3>2. CASE ~(j <= k + 1)
      <4>1. ~(j <= k) /\ j # k + 1
        BY <1>1, <3>2
      <4>. QED
        BY <1>3, <2>1, <2>2, <2>3, <3>2, <4>1
    <3>. QED
      BY <3>1, <3>2
  <2>. QED
    BY <2>1, <2>2, <2>5
<1>7. /\ Total(c) = Total(before) + Total(behind)
      /\ Total(d) = Total(before) + size(w) + Total(behind)
      /\ \A m : Count(c, m) = Count(before, m) + Count(behind, m)
      /\ \A m : Count(d, m) = Count(before, m) + Count(<<w>>, m) + Count(behind, m)
  <2>1. /\ Total(before \o behind) = Total(before) + Total(behind)
        /\ \A m : Count(before \o behind, m) = Count(before, m) + Count(behind, m)
    BY <1>3, Joined
  <2>2. /\ Total(before \o <<w>>) = Total(before) + Total(<<w>>)
        /\ \A m : Count(before \o <<w>>, m) = Count(before, m) + Count(<<w>>, m)
    BY <1>3, <1>4, Joined
  <2>3. /\ Total(d) = Total(before \o <<w>>) + Total(behind)
        /\ \A m : Count(d, m) = Count(before \o <<w>>, m) + Count(behind, m)
    BY <1>3, <1>5, Joined
  <2>. QED
    BY <1>3, <1>4, <2>1, <2>2, <2>3
<1>8. /\ Total(before) \in Nat /\ Total(behind) \in Nat /\ size(w) \in Nat
      /\ \A m : Count(before, m) \in Nat /\ Count(behind, m) \in Nat
      /\ \A m : OneOn(w, m) \in Nat
  BY <1>3, SizesAre, CountIs, WindowIs DEF OneOn
<1>9. Total(d) = Total(c) + size(w) /\ \A m : Count(d, m) = Count(c, m) + OneOn(w, m)
  <2>1. Total(d) = Total(c) + size(w)
    BY <1>7, <1>8
  <2>2. ASSUME NEW m PROVE Count(d, m) = Count(c, m) + OneOn(w, m)
    <3>1. /\ Count(d, m) = Count(before, m) + OneOn(w, m) + Count(behind, m)
          /\ Count(c, m) = Count(before, m) + Count(behind, m)
      BY <1>4, <1>7
    <3>. QED
      BY <1>8, <3>1
  <2>. QED
    BY <2>1, <2>2
<1>10. DOMAIN d = 1..(Len(c) + 1) /\ d[k + 1] = w
  <2>1. DOMAIN d = 1..(Len(c) + 1)
    BY <1>6, LenProperties
  <2>2. k + 1 \in 1..(Len(c) + 1) /\ ~(k + 1 <= k)
    BY <1>1
  <2>. QED
    BY <1>6, <2>1, <2>2
<1>. HIDE DEF d
<1>11. ASSUME NEW it \in Iterators, InPlace(c, it) PROVE InPlace(d, Shifted(it, k))
  <2>1. CASE it.mBlock = 0
    BY <1>1, <2>1 DEF InPlace, Shifted
  <2>2. CASE it.mBlock # 0
    <3>1. it.mBlock \in 1..Len(c) /\ it.mPosition <= c[it.mBlock].mEnd
      BY <1>1, <1>11, <2>2 DEF InPlace
    <3>2. CASE it.mBlock > k
      <4>1. Shifted(it, k).mBlock = it.mBlock + 1 /\ Shifted(it, k).mPosition = it.mPosition
        BY <3>2 DEF Shifted, Iterators
      <4>2. /\ it.mBlock + 1 \in 1..(Len(c) + 1) /\ ~(it.mBlock + 1 <= k) /\ it.mBlock + 1 # k + 1
            /\ (it.mBlock + 1) - 1 = it.mBlock
        BY <1>1, <3>1, <3>2
      <4>. QED
        BY <1>6, <1>10, <3>1, <4>1, <4>2 DEF InPlace
    <3>3. CASE ~(it.mBlock > k)
      <4>1. it.mBlock \in 1..(Len(c) + 1) /\ it.mBlock <= k
        BY <1>1, <3>1, <3>3
      <4>. QED
        BY <1>6, <1>10, <3>1, <3>3, <4>1 DEF InPlace, Shifted
    <3>. QED
      BY <3>2, <3>3
  <2>. QED
    BY <2>1, <2>2
<1>. QED
  BY <1>2, <1>6, <1>9, <1>10, <1>11 DEF IsInserted

-----------------------------------------------------------------------------
(* The invariant *)

\* A call of pushToBlock is at a block of its buffer; and it makes one block at
\* most, because the one that it makes is full when there is more to write, and
\* then has no room forever.
PushReady ==
  push # NoPush =>
    LET blocks == mBlocks[push.buffer]
    IN  /\ push.at <= Len(blocks)
        /\ \/ Free # {}
           \/ /\ push.at # 0 /\ blocks[push.at].mEnd = mBlockSize
              /\ mBytes[blocks[push.at].mBytes].mEnd = mBlockSize

IteratorsThere == \A b \in Buffers : InPlace(mBlocks[b], mIterator[b])

Books == BufferTypeOK /\ SizeAgrees /\ CountsAgree /\ IteratorsThere /\ PushReady

LEMMA BooksTyped ==
  ASSUME BufferTypeOK
  PROVE  /\ mBytes \in [1..MaxBytes -> BytesThere] /\ DOMAIN mBytes = 1..MaxBytes
         /\ mBlocks \in [Buffers -> Seq(Windows)]
         /\ mSize \in [Buffers -> Nat] /\ mIterator \in [Buffers -> Iterators]
         /\ leaked \in [1..MaxBytes -> Nat]
BY DEF BufferTypeOK, BytesThere, Iterators

\* An iterator that is in place is not behind what its block shows.
LEMMA PlacesAgree ==
  ASSUME Books PROVE BookkeepingAgrees
<1>1. ASSUME NEW b \in Buffers, mIterator[b].mBlock # 0
      PROVE  /\ mIterator[b].mBlock \in BlocksOf(b)
             /\ Ensured(b).mPosition <= mBlocks[b][mIterator[b].mBlock].mEnd
  <2>. DEFINE it == mIterator[b]
              w == mBlocks[b][it.mBlock]
  <2>1. it \in Iterators /\ mBlocks[b] \in Seq(Windows)
    BY BooksTyped DEF Books
  <2>2. it.mBlock \in DOMAIN mBlocks[b] /\ it.mPosition <= w.mEnd
    BY <1>1 DEF Books, IteratorsThere, InPlace
  <2>3. w \in Windows
    BY <2>1, <2>2, ElementOfSeq
  <2>4. /\ w.mStart \in Int /\ w.mEnd \in Int /\ w.mStart <= w.mEnd
        /\ it.mPosition \in Int
    BY <2>1, <2>3, WindowIs DEF Iterators
  <2>5. Ensured(b) = [it EXCEPT !.mPosition = Sets!Max({@, w.mStart})]
    BY <1>1 DEF Ensured
  <2>6. Ensured(b).mPosition = Sets!Max({it.mPosition, w.mStart})
    BY <2>1, <2>5 DEF Iterators
  <2>. HIDE DEF it, w
  <2>7. Sets!Max({it.mPosition, w.mStart}) <= w.mEnd
    BY <2>2, <2>4, MaxOfTwo
  <2>. QED
    BY <2>2, <2>6, <2>7 DEF BlocksOf, it, w
<1>. QED
  BY <1>1 DEF Books, BookkeepingAgrees, IteratorsInBuffers

LEMMA OnIsIn == \A m : On(m) = OnIn(mBlocks, m)
BY DEF On, OnIn, WhereOn, BlocksOf

\* One buffer's blocks become others, and what is kept beside them follows.
LEMMA OneChanges ==
  ASSUME Books, NEW b \in Buffers, NEW d \in Seq(Windows), NEW it \in Iterators,
         mBlocks' = [mBlocks EXCEPT ![b] = d],
         mSize' = [mSize EXCEPT ![b] = Total(d)],
         mIterator' = [mIterator EXCEPT ![b] = it], InPlace(d, it),
         mBytes' \in [1..MaxBytes -> BytesThere], leaked' \in [1..MaxBytes -> Nat],
         \A m \in 1..MaxBytes :
           mBytes'[m].mReferenceCount - leaked'[m]
             = mBytes[m].mReferenceCount - leaked[m] - Count(mBlocks[b], m) + Count(d, m),
         push' \in {NoPush} \cup [on : {TRUE}, buffer : Buffers, left : Seq(Chars), at : Nat],
         PushReady'
  PROVE  Books'
<1>. USE BooksTyped DEF Books
<1>1. Total(d) \in Nat
  BY SizesAre
<1>2. BufferTypeOK'
  BY <1>1 DEF BufferTypeOK, BytesThere, Iterators
<1>3. SizeAgrees'
  BY DEF SizeAgrees
<1>4. ASSUME NEW m \in 1..MaxBytes
      PROVE  mBytes'[m].mReferenceCount = leaked'[m] + Cardinality(OnIn(mBlocks', m))
  <2>1. mBytes[m].mReferenceCount = leaked[m] + Cardinality(OnIn(mBlocks, m))
    BY OnIsIn DEF CountsAgree
  <2>2. /\ Cardinality(OnIn(mBlocks, m)) \in Nat /\ Cardinality(OnIn(mBlocks', m)) \in Nat
        /\ Cardinality(OnIn(mBlocks', m))
             = Cardinality(OnIn(mBlocks, m)) - Count(mBlocks[b], m) + Count(d, m)
    BY OnChanges
  <2>3. Count(mBlocks[b], m) \in Nat /\ Count(d, m) \in Nat
    BY CountIs
  <2>4. mBytes'[m].mReferenceCount \in Nat /\ leaked'[m] \in Nat /\ leaked[m] \in Nat
    BY DEF BytesThere
  <2>5. mBytes'[m].mReferenceCount - leaked'[m]
          = mBytes[m].mReferenceCount - leaked[m] - Count(mBlocks[b], m) + Count(d, m)
    OBVIOUS
  <2>. QED
    BY ONLY <2>1, <2>2, <2>3, <2>4, <2>5, SMTT(60)
<1>5. CountsAgree'
  <2>1. \A m : On(m)' = OnIn(mBlocks', m)
    BY DEF On, OnIn, WhereOn, BlocksOf
  <2>2. DOMAIN mBytes' = 1..MaxBytes
    OBVIOUS
  <2>. QED
    BY <1>4, <2>1, <2>2 DEF CountsAgree
<1>6. IteratorsThere'
  <2>1. ASSUME NEW c \in Buffers PROVE InPlace(mBlocks'[c], mIterator'[c])
    BY DEF IteratorsThere
  <2>. QED
    BY <2>1 DEF IteratorsThere
<1>. QED
  BY <1>2, <1>3, <1>5, <1>6

-----------------------------------------------------------------------------
(* Bytes *)

LEMMA BlockSizeIs ==
  /\ mBlockSize \in Nat /\ 2 < mBlockSize /\ mBlockSize < SIZE16 /\ SIZE16 <= SIZE
  /\ SIZE16 \in Nat /\ SIZE \in Nat /\ Offsets \subseteq Nat
<1>1. mBlockSize \in Nat /\ 2 < mBlockSize
  BY BufferAssumption, Zenon DEF BufferAssumption
<1>2. Offsets \subseteq Nat
  BY <1>1 DEF Offsets
<1>. QED
  BY <1>1, <1>2, BufferAssumption, Zenon DEF BufferAssumption

LEMMA OverwrittenTyped ==
  ASSUME NEW data \in [Offsets -> Chars \cup {Null}], NEW at \in Nat, NEW string \in Seq(Chars)
  PROVE  Overwritten(data, at, string) \in [Offsets -> Chars \cup {Null}]
<1>1. ASSUME NEW o \in Offsets, at <= o, o < at + Len(string) PROVE string[o - at + 1] \in Chars
  <2>1. o \in Nat /\ Len(string) \in Nat
    BY BlockSizeIs
  <2>2. o - at + 1 \in 1..Len(string)
    BY <1>1, <2>1
  <2>. QED
    BY <2>2, ElementOfSeq
<1>. QED
  BY <1>1 DEF Overwritten

LEMMA CopiedIs ==
  ASSUME NEW bytes \in [1..MaxBytes -> BytesThere], NEW m \in 1..MaxBytes, NEW end \in Nat,
         NEW string \in Seq(Chars), end + Len(string) <= mBlockSize
  PROVE  /\ Copied(bytes, m, end, string) \in [1..MaxBytes -> BytesThere]
         /\ Copied(bytes, m, end, string)[m].mEnd = end + Len(string)
         /\ \A n \in 1..MaxBytes :
              Copied(bytes, m, end, string)[n].mReferenceCount = bytes[n].mReferenceCount
<1>. DEFINE data == Overwritten(bytes[m].data, end, string)
            x == [bytes[m] EXCEPT !.data = data, !.mEnd = end + Len(string)]
<1>1. bytes[m] \in BytesThere
  OBVIOUS
<1>2. data \in [Offsets -> Chars \cup {Null}] /\ end + Len(string) \in 0..mBlockSize
  <2>1. bytes[m].data \in [Offsets -> Chars \cup {Null}] /\ Len(string) \in Nat
    BY <1>1 DEF BytesThere
  <2>2. data \in [Offsets -> Chars \cup {Null}]
    BY <2>1, OverwrittenTyped
  <2>. HIDE DEF data
  <2>. QED
    BY <2>1, <2>2, BlockSizeIs
<1>. HIDE DEF data
<1>3. /\ x \in BytesThere /\ x.mEnd = end + Len(string)
      /\ x.mReferenceCount = bytes[m].mReferenceCount
  BY <1>1, <1>2 DEF BytesThere
<1>4. Copied(bytes, m, end, string) = [bytes EXCEPT ![m] = x]
  BY <1>1 DEF Copied, data, BytesThere
<1>. HIDE DEF x
<1>. QED
  BY <1>3, <1>4

LEMMA NewBytesTyped ==
  /\ NewBytes \in BytesThere /\ NewBytes.mReferenceCount = 1
  /\ FreeBytes \in BytesThere /\ FreeBytes.mReferenceCount = 0
<1>1. FreeBytes \in BytesThere /\ FreeBytes.mReferenceCount = 0
  <2>1. 0 \in 0..mBlockSize
    BY BlockSizeIs
  <2>2. [o \in Offsets |-> Null] \in [Offsets -> Chars \cup {Null}]
    OBVIOUS
  <2>. QED
    BY <2>1, <2>2 DEF FreeBytes, BytesThere
<1>2. NewBytes \in BytesThere /\ NewBytes.mReferenceCount = 1
  <2>. HIDE DEF FreeBytes
  <2>. QED
    BY <1>1 DEF NewBytes, BytesThere
<1>. QED
  BY <1>1, <1>2

LEMMA ReferencedIs ==
  ASSUME Books, NEW blocks \in Seq(Windows)
  PROVE  /\ Referenced(blocks) \in [1..MaxBytes -> BytesThere]
         /\ \A m \in 1..MaxBytes :
              Referenced(blocks)[m].mReferenceCount = mBytes[m].mReferenceCount + Count(blocks, m)
<1>1. mBytes \in [1..MaxBytes -> BytesThere] /\ DOMAIN mBytes = 1..MaxBytes
  BY BooksTyped DEF Books
<1>2. Referenced(blocks)
        = [m \in 1..MaxBytes |-> [mBytes[m] EXCEPT !.mReferenceCount = @ + Count(blocks, m)]]
  BY <1>1 DEF Referenced, Count, WhereOn
<1>3. ASSUME NEW m \in 1..MaxBytes
      PROVE  LET x == [mBytes[m] EXCEPT !.mReferenceCount = @ + Count(blocks, m)]
             IN  x \in BytesThere /\ x.mReferenceCount = mBytes[m].mReferenceCount + Count(blocks, m)
  <2>1. Count(blocks, m) \in Nat /\ mBytes[m] \in BytesThere
    BY <1>1, CountIs
  <2>. QED
    BY <2>1 DEF BytesThere
<1>. QED
  BY <1>2, <1>3

LEMMA ReleasedIs ==
  ASSUME Books, NEW blocks \in Seq(Windows),
         \A m \in 1..MaxBytes : Count(blocks, m) <= mBytes[m].mReferenceCount
  PROVE  /\ Released(blocks) \in [1..MaxBytes -> BytesThere]
         /\ \A m \in 1..MaxBytes :
              Released(blocks)[m].mReferenceCount = mBytes[m].mReferenceCount - Count(blocks, m)
<1>. DEFINE Left(m) == mBytes[m].mReferenceCount - Count(blocks, m)
            x(m) == IF Left(m) = 0 THEN FreeBytes ELSE [mBytes[m] EXCEPT !.mReferenceCount = Left(m)]
<1>1. mBytes \in [1..MaxBytes -> BytesThere] /\ DOMAIN mBytes = 1..MaxBytes
  BY BooksTyped DEF Books
<1>2. Released(blocks) = [m \in 1..MaxBytes |-> x(m)]
  BY <1>1 DEF Released, Count, WhereOn
<1>3. ASSUME NEW m \in 1..MaxBytes PROVE x(m) \in BytesThere /\ x(m).mReferenceCount = Left(m)
  <2>1. /\ Count(blocks, m) \in Nat /\ mBytes[m] \in BytesThere
        /\ Count(blocks, m) <= mBytes[m].mReferenceCount
    BY <1>1, CountIs
  <2>2. Left(m) \in Nat
    BY <2>1 DEF BytesThere
  <2>. HIDE DEF Left
  <2>3. /\ [mBytes[m] EXCEPT !.mReferenceCount = Left(m)] \in BytesThere
        /\ [mBytes[m] EXCEPT !.mReferenceCount = Left(m)].mReferenceCount = Left(m)
    BY <2>1, <2>2 DEF BytesThere
  <2>. QED
    BY <2>3, NewBytesTyped
<1>. HIDE DEF x
<1>. QED
  BY <1>2, <1>3

\* Memory that is free has no block on it.
LEMMA FreshIs ==
  ASSUME Books, Free # {}
  PROVE  /\ FreshMemory \in 1..MaxBytes /\ mBytes[FreshMemory].mReferenceCount = 0
         /\ Block(FreshMemory, 0, 0) \in Windows /\ size(Block(FreshMemory, 0, 0)) = 0
         /\ Block(FreshMemory, 0, 0).mBytes = FreshMemory
<1>1. DOMAIN mBytes = 1..MaxBytes
  BY BooksTyped DEF Books
<1>2. Free \in SUBSET Nat
  BY <1>1 DEF Free
<1>3. FreshMemory \in Free
  BY <1>2, MinIs DEF FreshMemory
<1>4. FreshMemory \in 1..MaxBytes /\ mBytes[FreshMemory].mReferenceCount = 0
  BY <1>1, <1>3 DEF Free
<1>. HIDE DEF FreshMemory
<1>. DEFINE w == Block(FreshMemory, 0, 0)
<1>5. w.mBytes = FreshMemory /\ w.mStart = 0 /\ w.mEnd = 0
  BY DEF Block
<1>6. w \in Windows
  <2>1. 0 \in 0..mBlockSize
    BY BlockSizeIs
  <2>. QED
    BY <1>4, <2>1 DEF Block, Windows
<1>. QED
  BY <1>4, <1>5, <1>6 DEF size

-----------------------------------------------------------------------------
(* Writing *)

\* Nothing but a call, or iterators' places, changes.
LEMMA BlocksKept ==
  ASSUME Books, UNCHANGED <<mBytes, mBlocks, mSize, leaked>>,
         mIterator' \in [Buffers -> Iterators],
         \A b \in Buffers : InPlace(mBlocks[b], mIterator'[b]),
         push' \in {NoPush} \cup [on : {TRUE}, buffer : Buffers, left : Seq(Chars), at : Nat],
         PushReady'
  PROVE  Books'
<1>1. BufferTypeOK'
  BY DEF Books, BufferTypeOK, Iterators
<1>2. SizeAgrees'
  BY DEF Books, SizeAgrees
<1>3. CountsAgree'
  BY DEF Books, CountsAgree, On, BlocksOf
<1>4. IteratorsThere'
  BY DEF IteratorsThere
<1>. QED
  BY <1>1, <1>2, <1>3, <1>4 DEF Books

LEMMA AppendStep ==
  ASSUME Books, NEW b \in Buffers, NEW string \in Strings, append(b, string)
  PROVE  Books'
<1>1. string \in Seq(Chars)
  BY BufferAssumption, Zenon DEF BufferAssumption
<1>2. /\ UNCHANGED <<mBytes, mBlocks, mSize, mIterator, leaked>> /\ Free # {}
      /\ push' = [on |-> TRUE, buffer |-> b, left |-> string, at |-> Len(mBlocks[b])]
  BY DEF append
<1>3. /\ mIterator \in [Buffers -> Iterators] /\ mBlocks[b] \in Seq(Windows)
      /\ \A c \in Buffers : InPlace(mBlocks[c], mIterator[c])
  BY BooksTyped DEF Books, IteratorsThere
<1>4. Len(mBlocks[b]) \in Nat
  BY <1>3, LenProperties
<1>5. push' \in [on : {TRUE}, buffer : Buffers, left : Seq(Chars), at : Nat]
  BY <1>1, <1>2, <1>4
<1>6. PushReady'
  <2>1. Free' # {}
    BY <1>2 DEF Free
  <2>2. push'.at <= Len(mBlocks'[push'.buffer])
    BY <1>2, <1>4
  <2>. QED
    BY <2>1, <2>2 DEF PushReady
<1>. QED
  BY <1>2, <1>3, <1>5, <1>6, BlocksKept

LEMMA RoomIs ==
  ASSUME NEW bytes, NEW w \in Windows
  PROVE  /\ room(bytes, w) \in Nat /\ w.mEnd + room(bytes, w) <= mBlockSize
         /\ w.mEnd = bytes[w.mBytes].mEnd => room(bytes, w) = mBlockSize - w.mEnd
         /\ w.mEnd = mBlockSize => room(bytes, w) = 0
BY WindowIs, BlockSizeIs DEF room

LEMMA PushStep ==
  ASSUME Books, PushToBlock PROVE Books'
<1>. DEFINE b == push.buffer
            c == mBlocks[b]
            makes == Makes(b, push.at, 1)
            fresh == FreshMemory
            w == Block(fresh, 0, 0)
            blocks == IF makes THEN Seqs!InsertAt(c, push.at + 1, w) ELSE c
            bytes == IF makes THEN [mBytes EXCEPT ![fresh] = NewBytes] ELSE mBytes
            at == IF makes THEN push.at + 1 ELSE push.at
            free == room(bytes, blocks[at])
            now == SubSeq(push.left, 1, Sets!Min({free, Len(push.left)}))
            d == [blocks EXCEPT ![at].mEnd = @ + Len(now)]
            after == Copied(bytes, blocks[at].mBytes, blocks[at].mEnd, now)
            it == IF makes THEN Shifted(mIterator[b], push.at) ELSE mIterator[b]
            one(m) == IF makes /\ m = fresh THEN 1 ELSE 0
<1>1. /\ push # NoPush /\ push \in [on : {TRUE}, buffer : Buffers, left : Seq(Chars), at : Nat]
      /\ b \in Buffers /\ push.left \in Seq(Chars) /\ push.at \in Nat /\ c \in Seq(Windows)
      /\ push.at <= Len(c) /\ Len(c) \in Nat
  <2>1. push # NoPush
    BY Zenon DEF PushToBlock
  <2>2. push \in [on : {TRUE}, buffer : Buffers, left : Seq(Chars), at : Nat]
    BY <2>1 DEF Books, BufferTypeOK
  <2>3. c \in Seq(Windows)
    BY <2>2, BooksTyped DEF Books
  <2>4. push.at <= Len(c)
    BY <2>1 DEF Books, PushReady
  <2>. QED
    BY <2>1, <2>2, <2>3, <2>4, LenProperties, Zenon
<1>2. /\ mBytes \in [1..MaxBytes -> BytesThere] /\ mBlocks \in [Buffers -> Seq(Windows)]
      /\ mIterator[b] \in Iterators /\ InPlace(c, mIterator[b]) /\ mSize[b] = Total(c)
      /\ mSize \in [Buffers -> Nat] /\ mIterator \in [Buffers -> Iterators]
      /\ leaked \in [1..MaxBytes -> Nat]
  BY <1>1, BooksTyped, SMTT(60) DEF Books, IteratorsThere, SizeAgrees
<1>3. /\ mBytes' = after /\ mBlocks' = [mBlocks EXCEPT ![b] = d]
      /\ mSize' = [mSize EXCEPT ![b] = @ + Len(now)]
      /\ push' = IF Len(push.left) < free THEN NoPush
                 ELSE [push EXCEPT !.left = SubSeq(@, free + 1, Len(@)), !.at = at]
      /\ mIterator' = IF makes THEN [mIterator EXCEPT ![b] = BehindNew(b, push.at)] ELSE mIterator
      /\ leaked' = leaked
  BY ZenonT(60) DEF PushToBlock
<1>4. mIterator' = [mIterator EXCEPT ![b] = it]
  BY <1>2, <1>3, Zenon DEF BehindNew, Shifted
<1>5. \/ Free # {}
      \/ /\ push.at # 0 /\ c[push.at].mEnd = mBlockSize /\ ~makes
         /\ mBytes[c[push.at].mBytes].mEnd = mBlockSize
  <2>1. \/ Free # {}
        \/ /\ push.at # 0 /\ c[push.at].mEnd = mBlockSize
           /\ mBytes[c[push.at].mBytes].mEnd = mBlockSize
    BY <1>1 DEF Books, PushReady
  <2>2. ASSUME push.at # 0, c[push.at].mEnd = mBlockSize PROVE ~makes
    <3>1. c[push.at] \in Windows
      BY <1>1, <2>2, ElementOfSeq
    <3>2. room(mBytes, c[push.at]) = 0
      BY <2>2, <3>1, RoomIs
    <3>. QED
      BY <2>2, <3>2 DEF Makes
  <2>. QED
    BY <2>1, <2>2
<1>6. makes => /\ fresh \in 1..MaxBytes /\ mBytes[fresh].mReferenceCount = 0
               /\ w \in Windows /\ size(w) = 0 /\ w.mBytes = fresh /\ w.mEnd = 0
  <2>1. makes => Free # {}
    BY <1>5
  <2>2. w.mEnd = 0
    BY DEF Block
  <2>. QED
    BY <2>1, <2>2, FreshIs
<1>7. ~makes => push.at # 0
  BY DEF Makes
<1>. HIDE DEF makes, fresh, w, b, c
<1>8. /\ blocks \in Seq(Windows) /\ Total(blocks) = Total(c) /\ it \in Iterators
      /\ \A m : Count(blocks, m) = Count(c, m) + one(m)
      /\ InPlace(blocks, it) /\ at \in 1..Len(blocks) /\ (makes => blocks[at] = w)
  <2>1. CASE makes
    <3>1. push.at \in 0..Len(c)
      BY <1>1
    <3>2. /\ blocks \in Seq(Windows) /\ Len(blocks) = Len(c) + 1 /\ blocks[push.at + 1] = w
          /\ Total(blocks) = Total(c) + size(w)
          /\ \A m : Count(blocks, m) = Count(c, m) + OneOn(w, m)
          /\ \A i \in Iterators : InPlace(c, i) => InPlace(blocks, Shifted(i, push.at))
      <4>1. blocks = Seqs!InsertAt(c, push.at + 1, w) /\ w \in Windows
        BY <1>6, <2>1
      <4>. HIDE DEF blocks
      <4>2. IsInserted(c, blocks, push.at, w)
        BY <1>1, <3>1, <4>1, InsertedBehind
      <4>. QED
        BY <4>2 DEF IsInserted
    <3>3. it \in Iterators /\ it = Shifted(mIterator[b], push.at)
      <4>1. it = Shifted(mIterator[b], push.at)
        BY <2>1
      <4>. HIDE DEF it
      <4>. QED
        BY <1>2, <4>1, ShiftedTyped
    <3>4. Total(c) \in Nat /\ size(w) = 0 /\ w.mBytes = fresh
      BY <1>1, <1>6, <2>1, SizesAre
    <3>5. at = push.at + 1 /\ at \in 1..Len(blocks)
      BY <1>1, <2>1, <3>2
    <3>6. \A m : OneOn(w, m) = one(m)
      BY <1>6, <2>1 DEF OneOn
    <3>. HIDE DEF blocks, it, at, one
    <3>. QED
      BY <1>2, <2>1, <3>2, <3>3, <3>4, <3>5, <3>6
  <2>2. CASE ~makes
    <3>1. blocks = c /\ it = mIterator[b] /\ at = push.at /\ at \in 1..Len(c)
      BY <1>1, <1>7, <2>2
    <3>2. \A m : Count(c, m) \in Nat
      BY <1>1, CountIs
    <3>. HIDE DEF blocks, it, at
    <3>. QED
      BY <1>1, <1>2, <2>2, <3>1, <3>2
  <2>. QED
    BY <2>1, <2>2
<1>9. /\ bytes \in [1..MaxBytes -> BytesThere]
      /\ \A m \in 1..MaxBytes : bytes[m].mReferenceCount = mBytes[m].mReferenceCount + one(m)
      /\ makes => bytes[fresh].mEnd = 0
  <2>1. CASE makes
    <3>1. NewBytes.mEnd = 0
      BY DEF NewBytes, FreeBytes
    <3>2. NewBytes \in BytesThere /\ NewBytes.mReferenceCount = 1
      BY NewBytesTyped
    <3>3. \A m \in 1..MaxBytes : mBytes[m].mReferenceCount \in Nat
      BY <1>2 DEF BytesThere
    <3>. QED
      BY <1>2, <1>6, <2>1, <3>1, <3>2, <3>3
  <2>2. CASE ~makes
    <3>1. \A m \in 1..MaxBytes : mBytes[m].mReferenceCount \in Nat
      BY <1>2 DEF BytesThere
    <3>. QED
      BY <1>2, <2>2, <3>1
  <2>. QED
    BY <2>1, <2>2
<1>10. /\ ~makes => blocks = c /\ bytes = mBytes /\ at = push.at
       /\ \A m : one(m) = 0 \/ makes
  OBVIOUS
<1>. HIDE DEF blocks, bytes, at, it, one
<1>11. /\ blocks[at] \in Windows /\ free \in Nat /\ blocks[at].mEnd + free <= mBlockSize
       /\ blocks[at].mEnd = bytes[blocks[at].mBytes].mEnd => free = mBlockSize - blocks[at].mEnd
       /\ blocks[at].mEnd = mBlockSize => free = 0
       /\ blocks[at].mEnd \in Nat /\ blocks[at].mBytes \in 1..MaxBytes
  <2>1. blocks[at] \in Windows
    BY <1>8, ElementOfSeq
  <2>. QED
    BY <2>1, RoomIs, WindowIs
<1>. HIDE DEF free
<1>12. /\ now \in Seq(Chars) /\ Len(now) \in Nat /\ Len(now) <= free
       /\ ~(Len(push.left) < free) => Len(now) = free
  <2>. DEFINE n == Sets!Min({free, Len(push.left)})
  <2>1. Len(push.left) \in Nat
    BY <1>1, LenProperties
  <2>2. n \in Nat /\ n <= free /\ n <= Len(push.left) /\ n \in {free, Len(push.left)}
    BY <1>11, <2>1, MinOfTwo
  <2>. HIDE DEF n
  <2>3. now = SubSeq(push.left, 1, n)
    BY DEF n
  <2>4. /\ SubSeq(push.left, 1, n) \in Seq(Chars)
        /\ Len(SubSeq(push.left, 1, n)) = IF 1 <= n THEN n - 1 + 1 ELSE 0
    <3>1. \A i \in 1..n : push.left[i] \in Chars
      <4>1. \A i \in 1..n : i \in 1..Len(push.left)
        BY <2>1, <2>2
      <4>. QED
        BY <1>1, <4>1, ElementOfSeq
    <3>2. 1 \in Int /\ n \in Int
      BY <2>2
    <3>. QED
      BY <3>1, <3>2, SubSeqProperties
  <2>. HIDE DEF now
  <2>. QED
    BY <1>11, <2>1, <2>2, <2>3, <2>4
<1>. HIDE DEF now
<1>13. /\ d \in Seq(Windows) /\ Len(d) = Len(blocks) /\ Total(d) = Total(blocks) + Len(now)
       /\ d[at].mEnd = blocks[at].mEnd + Len(now) /\ d[at].mBytes = blocks[at].mBytes
       /\ \A m : Count(d, m) = Count(blocks, m)
       /\ InPlace(d, it)
  <2>1. blocks[at].mEnd + Len(now) <= mBlockSize
    BY <1>11, <1>12, BlockSizeIs
  <2>2. IsGrown(blocks, d, at, Len(now))
    BY <1>8, <1>12, <2>1, Grown
  <2>. HIDE DEF d
  <2>. QED
    BY <1>8, <2>2 DEF IsGrown
<1>14. /\ after \in [1..MaxBytes -> BytesThere]
       /\ after[blocks[at].mBytes].mEnd = blocks[at].mEnd + Len(now)
       /\ \A n \in 1..MaxBytes : after[n].mReferenceCount = bytes[n].mReferenceCount
  <2>1. blocks[at].mEnd + Len(now) <= mBlockSize
    BY <1>11, <1>12, BlockSizeIs
  <2>. QED
    BY <1>9, <1>11, <1>12, <2>1, CopiedIs
<1>. HIDE DEF d, after
<1>15. mSize' = [mSize EXCEPT ![b] = Total(d)]
  BY <1>1, <1>2, <1>3, <1>8, <1>13
<1>16. ASSUME NEW m \in 1..MaxBytes
       PROVE  mBytes'[m].mReferenceCount - leaked'[m]
                = mBytes[m].mReferenceCount - leaked[m] - Count(c, m) + Count(d, m)
  <2>1. /\ mBytes'[m].mReferenceCount = mBytes[m].mReferenceCount + one(m) /\ leaked'[m] = leaked[m]
        /\ Count(d, m) = Count(c, m) + one(m)
    BY <1>3, <1>8, <1>9, <1>13, <1>14
  <2>2. /\ mBytes[m].mReferenceCount \in Nat /\ leaked[m] \in Nat /\ Count(c, m) \in Nat
        /\ one(m) \in Nat
    BY <1>1, <1>2, CountIs DEF BytesThere, one
  <2>. QED
    BY <2>1, <2>2
<1>17. push' \in {NoPush} \cup [on : {TRUE}, buffer : Buffers, left : Seq(Chars), at : Nat]
  <2>1. CASE Len(push.left) < free
    BY <1>3, <2>1
  <2>2. CASE ~(Len(push.left) < free)
    <3>1. SubSeq(push.left, free + 1, Len(push.left)) \in Seq(Chars)
      <4>1. Len(push.left) \in Nat /\ free + 1 \in 1..(Len(push.left) + 1)
        BY <1>1, <1>11, <2>2, LenProperties
      <4>2. \A i \in (free + 1)..Len(push.left) : push.left[i] \in Chars
        <5>1. \A i \in (free + 1)..Len(push.left) : i \in 1..Len(push.left)
          BY <4>1
        <5>. QED
          BY <1>1, <5>1, ElementOfSeq
      <4>. QED
        BY <4>1, <4>2, SubSeqProperties
    <3>2. at \in Nat
      BY <1>8
    <3>. QED
      BY <1>1, <1>3, <2>2, <3>1, <3>2
  <2>. QED
    BY <2>1, <2>2
<1>18. PushReady'
  <2>1. SUFFICES ASSUME push' # NoPush
                 PROVE  /\ push'.at <= Len(mBlocks'[push'.buffer])
                        /\ \/ Free' # {}
                           \/ /\ push'.at # 0 /\ mBlocks'[push'.buffer][push'.at].mEnd = mBlockSize
                              /\ mBytes'[mBlocks'[push'.buffer][push'.at].mBytes].mEnd = mBlockSize
    BY DEF PushReady
  <2>2. /\ ~(Len(push.left) < free) /\ push'.at = at /\ push'.buffer = b
    BY <1>1, <1>3, <2>1 DEF b
  <2>3. mBlocks'[b] = d /\ mBytes' = after /\ Len(now) = free
    BY <1>1, <1>2, <1>3, <1>12, <2>2
  <2>4. at <= Len(d) /\ at # 0
    BY <1>8, <1>13
  <2>5. ASSUME blocks[at].mEnd + free = mBlockSize
        PROVE  d[at].mEnd = mBlockSize /\ after[d[at].mBytes].mEnd = mBlockSize
    BY <1>13, <1>14, <2>3, <2>5
  <2>6. CASE makes
    <3>1. blocks[at].mEnd = bytes[blocks[at].mBytes].mEnd
      BY <1>6, <1>8, <1>9, <2>6
    <3>2. blocks[at].mEnd + free = mBlockSize
      BY <1>11, <3>1, BlockSizeIs
    <3>. QED
      BY <2>2, <2>3, <2>4, <2>5, <3>2
  <2>7. CASE ~makes /\ Free # {}
    <3>1. \A m \in 1..MaxBytes : mBytes'[m].mReferenceCount = mBytes[m].mReferenceCount
      BY <1>3, <1>10, <1>14, <2>7
    <3>2. DOMAIN mBytes = 1..MaxBytes /\ DOMAIN mBytes' = 1..MaxBytes
      BY <1>2, <1>14, <2>3
    <3>3. Free' # {}
      BY <2>7, <3>1, <3>2 DEF Free
    <3>. QED
      BY <2>2, <2>3, <2>4, <3>3
  <2>8. CASE ~makes /\ Free = {}
    <3>1. blocks[at].mEnd = mBlockSize
      BY <1>5, <1>10, <2>8
    <3>2. blocks[at].mEnd + free = mBlockSize
      BY <1>11, <3>1, BlockSizeIs
    <3>. QED
      BY <2>2, <2>3, <2>4, <2>5, <3>2
  <2>. QED
    BY <2>6, <2>7, <2>8
<1>19. leaked' \in [1..MaxBytes -> Nat] /\ mBytes' \in [1..MaxBytes -> BytesThere]
  BY <1>2, <1>3, <1>14
<1>. QED
  BY <1>1, <1>3, <1>4, <1>8, <1>13, <1>15, <1>16, <1>17, <1>18, <1>19, OneChanges DEF c

\* While no call is under way, none is to be ready.
LEMMA NoneUnderWay ==
  ASSUME Idle, push' = push
  PROVE  /\ push' \in {NoPush} \cup [on : {TRUE}, buffer : Buffers, left : Seq(Chars), at : Nat]
         /\ PushReady'
BY DEF Idle, PushReady

LEMMA EnsurePushStep ==
  ASSUME Books, NEW b \in Buffers, NEW length, ensurePushLength(b, length)
  PROVE  Books'
<1>. DEFINE c == mBlocks[b]
            fresh == FreshMemory
            w == Block(fresh, 0, 0)
            d == Append(c, w)
            it == mIterator[b]
<1>1. /\ Idle /\ Free # {} /\ mBytes' = [mBytes EXCEPT ![fresh] = NewBytes]
      /\ mBlocks' = [mBlocks EXCEPT ![b] = d] /\ UNCHANGED <<mSize, mIterator, push, leaked>>
  BY DEF ensurePushLength, Writing
<1>2. /\ mBytes \in [1..MaxBytes -> BytesThere] /\ c \in Seq(Windows) /\ Len(c) \in Nat
      /\ mSize \in [Buffers -> Nat] /\ mSize[b] = Total(c) /\ it \in Iterators /\ InPlace(c, it)
      /\ mIterator \in [Buffers -> Iterators] /\ leaked \in [1..MaxBytes -> Nat]
      /\ DOMAIN c = 1..Len(c)
  BY BooksTyped, LenProperties DEF Books, SizeAgrees, IteratorsThere
<1>3. /\ fresh \in 1..MaxBytes /\ mBytes[fresh].mReferenceCount = 0
      /\ w \in Windows /\ size(w) = 0 /\ w.mBytes = fresh
  BY <1>1, FreshIs
<1>. HIDE DEF c, fresh, w, it
<1>4. IsInserted(c, d, Len(c), w)
  <2>1. (Len(c) + 1) - 1 = Len(c) /\ Len(c) \in 0..Len(c) /\ Len(c) < Len(c) + 1
    BY <1>2
  <2>2. SubSeq(c, 1, Len(c)) = c /\ SubSeq(c, Len(c) + 1, Len(c)) = <<>>
    BY <1>2, <2>1, SubSeqFull, SubSeqEmpty
  <2>3. d = c \o <<w>> /\ c \o <<w>> \in Seq(Windows)
    BY <1>2, <1>3, AppendIsConcat, AppendProperties
  <2>4. Seqs!InsertAt(c, Len(c) + 1, w) = (c \o <<w>>) \o <<>>
    BY <2>1, <2>2 DEF Seqs!InsertAt
  <2>5. Seqs!InsertAt(c, Len(c) + 1, w) = d
    BY <2>3, <2>4, ConcatEmptySeq
  <2>6. IsInserted(c, Seqs!InsertAt(c, Len(c) + 1, w), Len(c), w)
    BY <1>2, <1>3, <2>1, InsertedBehind
  <2>. QED
    BY <2>5, <2>6
<1>. HIDE DEF d
<1>5. InPlace(d, it)
  <2>1. Shifted(it, Len(c)) = it
    BY <1>2 DEF Shifted, InPlace, Iterators
  <2>. QED
    BY <1>2, <1>4, <2>1 DEF IsInserted
<1>6. d \in Seq(Windows) /\ Total(d) = Total(c)
  <2>1. Total(c) \in Nat
    BY <1>2, SizesAre
  <2>. QED
    BY <1>3, <1>4, <2>1 DEF IsInserted
<1>7. mBytes' \in [1..MaxBytes -> BytesThere]
  BY <1>1, <1>2, <1>3, NewBytesTyped
<1>8. ASSUME NEW m \in 1..MaxBytes
      PROVE  mBytes'[m].mReferenceCount - leaked'[m]
               = mBytes[m].mReferenceCount - leaked[m] - Count(c, m) + Count(d, m)
  <2>1. Count(d, m) = Count(c, m) + OneOn(w, m)
    BY <1>4 DEF IsInserted
  <2>2. mBytes'[m].mReferenceCount = mBytes[m].mReferenceCount + OneOn(w, m)
    <3>1. mBytes[m].mReferenceCount \in Nat
      BY <1>2 DEF BytesThere
    <3>2. CASE m = fresh
      BY <1>1, <1>2, <1>3, <3>2, NewBytesTyped DEF OneOn
    <3>3. CASE m # fresh
      BY <1>1, <1>2, <1>3, <3>1, <3>3 DEF OneOn
    <3>. QED
      BY <3>2, <3>3
  <2>3. /\ mBytes[m].mReferenceCount \in Nat /\ leaked[m] \in Nat /\ Count(c, m) \in Nat
        /\ OneOn(w, m) \in Nat /\ leaked'[m] = leaked[m]
    BY <1>1, <1>2, CountIs DEF BytesThere, OneOn
  <2>. QED
    BY <2>1, <2>2, <2>3
<1>9. mSize' = [mSize EXCEPT ![b] = Total(d)] /\ mIterator' = [mIterator EXCEPT ![b] = it]
  BY <1>1, <1>2, <1>6 DEF it
<1>10. leaked' \in [1..MaxBytes -> Nat]
  BY <1>1, <1>2
<1>. QED
  BY <1>1, <1>2, <1>5, <1>6, <1>7, <1>8, <1>9, <1>10, NoneUnderWay, OneChanges DEF c

LEMMA PushedStep ==
  ASSUME Books, NEW b \in Buffers, NEW string \in Reads, pushed(b, string)
  PROVE  Books'
<1>. DEFINE c == mBlocks[b]
            last == Len(c)
            w == c[last]
            x == [mBytes[w.mBytes] EXCEPT !.data = Overwritten(@, w.mEnd, string)]
            d == [c EXCEPT ![last].mEnd = @ + Len(string)]
            it == mIterator[b]
<1>1. /\ Idle /\ last # 0 /\ Len(string) <= room(mBytes, w)
      /\ mBytes' = [mBytes EXCEPT ![w.mBytes].data = Overwritten(@, w.mEnd, string)]
      /\ mBlocks' = [mBlocks EXCEPT ![b][last].mEnd = @ + Len(string)]
      /\ mSize' = [mSize EXCEPT ![b] = @ + Len(string)]
      /\ UNCHANGED <<mIterator, push, leaked>>
  BY DEF pushed, Writing
<1>2. /\ mBytes \in [1..MaxBytes -> BytesThere] /\ c \in Seq(Windows) /\ Len(c) \in Nat
      /\ mBlocks \in [Buffers -> Seq(Windows)]
      /\ mSize \in [Buffers -> Nat] /\ mSize[b] = Total(c) /\ it \in Iterators /\ InPlace(c, it)
      /\ mIterator \in [Buffers -> Iterators] /\ leaked \in [1..MaxBytes -> Nat]
      /\ DOMAIN c = 1..Len(c)
  BY BooksTyped, LenProperties DEF Books, SizeAgrees, IteratorsThere
<1>3. string \in Seq(Chars) /\ Len(string) \in Nat
  BY BufferAssumption, LenProperties, Zenon DEF BufferAssumption
<1>4. mBlocks' = [mBlocks EXCEPT ![b] = d]
  BY <1>1, <1>2
<1>. HIDE DEF c, it
<1>5. last \in 1..Len(c) /\ w \in Windows
  BY <1>1, <1>2, ElementOfSeq
<1>6. w.mEnd + Len(string) <= mBlockSize /\ w.mEnd \in Nat /\ w.mBytes \in 1..MaxBytes
  BY <1>1, <1>3, <1>5, RoomIs, WindowIs, BlockSizeIs, SMTT(60)
<1>7. /\ d \in Seq(Windows) /\ Total(d) = Total(c) + Len(string)
      /\ \A m : Count(d, m) = Count(c, m)
      /\ InPlace(d, it)
  <2>1. IsGrown(c, d, last, Len(string))
    BY <1>2, <1>3, <1>5, <1>6, Grown
  <2>. HIDE DEF d
  <2>. QED
    BY <1>2, <2>1 DEF IsGrown
<1>8. x \in BytesThere /\ x.mReferenceCount = mBytes[w.mBytes].mReferenceCount
  <2>1. mBytes[w.mBytes] \in BytesThere
    BY <1>2, <1>6
  <2>2. Overwritten(mBytes[w.mBytes].data, w.mEnd, string) \in [Offsets -> Chars \cup {Null}]
    BY <1>3, <1>6, <2>1, OverwrittenTyped DEF BytesThere
  <2>. QED
    BY <2>1, <2>2 DEF BytesThere
<1>9. mBytes' = [mBytes EXCEPT ![w.mBytes] = x]
  BY <1>1, <1>2, <1>6
<1>. HIDE DEF x, d, w
<1>10. mBytes' \in [1..MaxBytes -> BytesThere]
  BY <1>2, <1>8, <1>9
<1>11. ASSUME NEW m \in 1..MaxBytes
       PROVE  mBytes'[m].mReferenceCount - leaked'[m]
                = mBytes[m].mReferenceCount - leaked[m] - Count(c, m) + Count(d, m)
  <2>1. mBytes'[m].mReferenceCount = mBytes[m].mReferenceCount /\ leaked'[m] = leaked[m]
    BY <1>1, <1>2, <1>8, <1>9
  <2>2. /\ mBytes[m].mReferenceCount \in Nat /\ leaked[m] \in Nat /\ Count(c, m) \in Nat
        /\ Count(d, m) = Count(c, m)
    BY <1>2, <1>7, CountIs DEF BytesThere
  <2>. QED
    BY <2>1, <2>2
<1>12. mSize' = [mSize EXCEPT ![b] = Total(d)] /\ mIterator' = [mIterator EXCEPT ![b] = it]
  BY <1>1, <1>2, <1>7 DEF it
<1>13. leaked' \in [1..MaxBytes -> Nat]
  BY <1>1, <1>2
<1>. QED
  BY <1>1, <1>2, <1>4, <1>7, <1>10, <1>11, <1>12, <1>13, NoneUnderWay, OneChanges DEF c

-----------------------------------------------------------------------------
(* References to other buffers' bytes *)

LEMMA AddedStep ==
  ASSUME Books, NEW b \in Buffers, NEW pieces \in Seq(Windows), Idle, Added(b, pieces),
         UNCHANGED <<mIterator, push, leaked>>
  PROVE  Books'
<1>. DEFINE c == mBlocks[b]
            d == c \o pieces
            it == mIterator[b]
<1>1. /\ mBytes' = Referenced(pieces) /\ mBlocks' = [mBlocks EXCEPT ![b] = d]
      /\ mSize' = [mSize EXCEPT ![b] = @ + Total(pieces)]
  BY DEF Added
<1>2. /\ mBytes \in [1..MaxBytes -> BytesThere] /\ c \in Seq(Windows) /\ Len(c) \in Nat
      /\ mSize \in [Buffers -> Nat] /\ mSize[b] = Total(c) /\ it \in Iterators /\ InPlace(c, it)
      /\ mIterator \in [Buffers -> Iterators] /\ leaked \in [1..MaxBytes -> Nat]
      /\ DOMAIN c = 1..Len(c)
  BY BooksTyped, LenProperties DEF Books, SizeAgrees, IteratorsThere
<1>. HIDE DEF c, it
<1>3. /\ d \in Seq(Windows) /\ Total(d) = Total(c) + Total(pieces)
      /\ \A m : Count(d, m) = Count(c, m) + Count(pieces, m)
  BY <1>2, Joined
<1>4. InPlace(d, it)
  <2>1. /\ Len(d) = Len(c) + Len(pieces) /\ Len(pieces) \in Nat /\ DOMAIN d = 1..Len(d)
        /\ \A k \in 1..(Len(c) + Len(pieces)) : d[k] = IF k <= Len(c) THEN c[k] ELSE pieces[k - Len(c)]
    BY <1>2, <1>3, ConcatProperties, LenProperties
  <2>2. \A k \in 1..Len(c) : k \in 1..(Len(c) + Len(pieces)) /\ k <= Len(c)
    BY <1>2, <2>1
  <2>3. \A k \in 1..Len(c) : k \in DOMAIN d /\ d[k] = c[k]
    BY <2>1, <2>2
  <2>. HIDE DEF d
  <2>. QED
    BY <1>2, <2>3 DEF InPlace
<1>. HIDE DEF d
<1>5. /\ mBytes' \in [1..MaxBytes -> BytesThere]
      /\ \A m \in 1..MaxBytes :
           mBytes'[m].mReferenceCount = mBytes[m].mReferenceCount + Count(pieces, m)
  BY <1>1, ReferencedIs
<1>6. ASSUME NEW m \in 1..MaxBytes
      PROVE  mBytes'[m].mReferenceCount - leaked'[m]
               = mBytes[m].mReferenceCount - leaked[m] - Count(c, m) + Count(d, m)
  <2>1. /\ mBytes[m].mReferenceCount \in Nat /\ leaked[m] \in Nat /\ leaked'[m] = leaked[m]
        /\ Count(c, m) \in Nat /\ Count(pieces, m) \in Nat
    BY <1>2, CountIs DEF BytesThere
  <2>. QED
    BY <1>3, <1>5, <2>1, SMTT(60)
<1>7. mSize' = [mSize EXCEPT ![b] = Total(d)] /\ mIterator' = [mIterator EXCEPT ![b] = it]
  BY <1>1, <1>2, <1>3 DEF it
<1>8. leaked' \in [1..MaxBytes -> Nat]
  BY <1>2
<1>. QED
  BY <1>1, <1>2, <1>3, <1>4, <1>5, <1>6, <1>7, <1>8, NoneUnderWay, OneChanges DEF c

LEMMA AppendBufferStep ==
  ASSUME Books, NEW b \in Buffers, NEW buffer \in Buffers, appendBuffer(b, buffer)
  PROVE  Books'
<1>1. mBlocks[buffer] \in Seq(Windows)
  BY BooksTyped DEF Books
<1>2. Idle /\ Added(b, mBlocks[buffer]) /\ UNCHANGED <<mIterator, push, leaked>>
  BY DEF appendBuffer, Writing
<1>. QED
  BY <1>1, <1>2, AddedStep

\* The pieces of a region are windows on the memory of their blocks, if it does
\* not go on behind a block within which it begins.
LEMMA PiecesTyped ==
  ASSUME Books, NEW b \in Buffers, NEW at \in Nat, NEW length \in Nat, MayTake(b, at, length)
  PROVE  Pieces(b, at, length) \in Seq(Windows)
<1>. DEFINE c == mBlocks[b]
            holding == BlockByOffset(b, at)
            first == Sets!Min(holding)
            begin(k) == IF k = first THEN at - blockOffset(b, first) ELSE 0
            left(k) == LeftAt(b, first, k, length)
            fitting == {k \in BlocksOf(b) : k >= first /\ (begin(k) + left(k)) % SIZE <= size(c[k])}
            last == IF fitting = {} THEN Len(c) ELSE Sets!Min(fitting)
            long(k) == IF k \in fitting THEN left(k) ELSE size(c[k])
            piece(k) == Piece(b, k, begin(k), long(k))
<1>1. SUFFICES ASSUME holding # {} PROVE Pieces(b, at, length) \in Seq(Windows)
  BY EmptySeq DEF Pieces
<1>2. Pieces(b, at, length) = [i \in 1..(last - first + 1) |-> piece(first + i - 1)]
  BY <1>1 DEF Pieces
<1>3. c \in Seq(Windows) /\ Len(c) \in Nat /\ BlocksOf(b) = 1..Len(c)
  BY BooksTyped, LenProperties DEF Books, BlocksOf
<1>4. first \in holding
  <2>1. holding \in SUBSET Nat
    BY <1>3 DEF BlockByOffset
  <2>. HIDE DEF holding
  <2>. QED
    BY <1>1, <2>1, MinIs
<1>5. /\ first \in 1..Len(c) /\ blockOffset(b, first) <= at /\ at < blockOffset(b, first + 1)
      /\ blockOffset(b, first) \in Nat
      /\ blockOffset(b, first + 1) = blockOffset(b, first) + size(c[first])
  <2>1. /\ first \in 1..Len(c) /\ blockOffset(b, first) <= at /\ at < blockOffset(b, first + 1)
    BY <1>3, <1>4 DEF BlockByOffset
  <2>. HIDE DEF first
  <2>2. first - 1 \in 0..Len(c) /\ (first + 1) - 1 = first
    BY <1>3, <2>1
  <2>. QED
    BY <1>3, <2>1, <2>2, SizesAre DEF blockOffset
<1>6. at = blockOffset(b, first) \/ at + length <= blockOffset(b, first + 1)
  BY <1>4 DEF MayTake
<1>7. \A k \in 1..Len(c) : /\ size(c[k]) \in Nat /\ c[k].mBytes \in 1..MaxBytes
                           /\ c[k].mStart \in Nat /\ c[k].mEnd <= mBlockSize /\ c[k].mEnd \in Nat
                           /\ size(c[k]) = c[k].mEnd - c[k].mStart /\ size(c[k]) <= mBlockSize
  <2>1. ASSUME NEW k \in 1..Len(c)
        PROVE  /\ size(c[k]) \in Nat /\ c[k].mBytes \in 1..MaxBytes
               /\ c[k].mStart \in Nat /\ c[k].mEnd <= mBlockSize /\ c[k].mEnd \in Nat
               /\ size(c[k]) = c[k].mEnd - c[k].mStart /\ size(c[k]) <= mBlockSize
    <3>1. c[k] \in Windows
      BY <1>3, ElementOfSeq
    <3>. QED
      BY <3>1, WindowIs, BlockSizeIs, SMTT(60)
  <2>. QED
    BY <2>1
<1>. HIDE DEF c, holding, first
<1>8. first <= last /\ last \in 1..Len(c)
  <2>1. CASE fitting = {}
    BY <1>3, <1>5, <2>1
  <2>2. CASE fitting # {}
    <3>1. fitting \in SUBSET Nat /\ fitting \in SUBSET (1..Len(c)) /\ \A k \in fitting : first <= k
      BY <1>3, <1>5
    <3>. HIDE DEF fitting
    <3>2. Sets!Min(fitting) \in fitting
      BY <2>2, <3>1, MinIs
    <3>. QED
      BY <2>2, <3>1, <3>2
  <2>. QED
    BY <2>1, <2>2
<1>9. \A k \in 1..Len(c) : left(k) \in 0..(SIZE - 1)
  <2>1. ASSUME NEW k \in 1..Len(c) PROVE left(k) \in 0..(SIZE - 1)
    <3>1. blockOffset(b, k) \in Nat
      <4>1. k - 1 \in 0..Len(c)
        BY <1>3
      <4>. QED
        BY <1>3, <4>1, SizesAre DEF blockOffset, c
    <3>2. SIZE \in Nat /\ SIZE > 0
      BY BlockSizeIs
    <3>. DEFINE n == length - (blockOffset(b, k) - blockOffset(b, first))
    <3>3. n \in Int
      BY <1>5, <3>1
    <3>4. left(k) = n % SIZE
      BY DEF LeftAt
    <3>. HIDE DEF n, left
    <3>. QED
      BY <3>2, <3>3, <3>4
  <2>. QED
    BY <2>1
<1>10. ASSUME NEW k \in 1..Len(c), first <= k
       PROVE  begin(k) \in Nat /\ long(k) \in Nat /\ begin(k) + long(k) <= size(c[k])
  <2>1. CASE begin(k) = 0
    <3>1. left(k) \in Nat /\ left(k) < SIZE /\ SIZE \in Nat
      BY <1>9, BlockSizeIs
    <3>2. (0 + left(k)) % SIZE = left(k)
      BY <3>1
    <3>3. k \in fitting => left(k) <= size(c[k])
      BY <2>1, <3>2
    <3>. HIDE DEF begin, left, fitting
    <3>. QED
      BY <1>7, <2>1, <3>1, <3>3
  <2>2. CASE begin(k) # 0
    <3>1. k = first /\ begin(k) = at - blockOffset(b, first) /\ at # blockOffset(b, first)
      BY <1>5, <2>2
    <3>2. begin(k) \in Nat /\ begin(k) + length <= size(c[first])
      BY <1>5, <1>6, <3>1, <1>7
    <3>3. length < SIZE /\ size(c[first]) < SIZE
      BY <1>5, <1>7, <3>2, BlockSizeIs, SMTT(60)
    <3>4. left(k) = length
      <4>1. left(k) = (length - 0) % SIZE
        BY <1>5, <3>1 DEF LeftAt
      <4>. HIDE DEF left
      <4>2. SIZE \in Nat /\ length - 0 = length
        BY BlockSizeIs
      <4>. QED
        BY <3>3, <4>1, <4>2
    <3>5. k \in fitting
      <4>1. begin(k) + left(k) \in Nat /\ begin(k) + left(k) < SIZE /\ SIZE \in Nat
        BY <1>5, <1>7, <3>2, <3>3, <3>4, BlockSizeIs, SMTT(60)
      <4>2. (begin(k) + left(k)) % SIZE = begin(k) + left(k)
        BY <4>1
      <4>. HIDE DEF begin, left
      <4>. QED
        BY <1>3, <1>10, <3>1, <3>2, <3>4, <4>2
    <3>. HIDE DEF begin, left, fitting
    <3>. QED
      BY <3>1, <3>2, <3>4, <3>5
  <2>. QED
    BY <2>1, <2>2
<1>. HIDE DEF begin, long, last
<1>11. ASSUME NEW k \in 1..Len(c), first <= k PROVE piece(k) \in Windows
  <2>1. /\ begin(k) \in Nat /\ long(k) \in Nat /\ begin(k) + long(k) <= size(c[k])
        /\ c[k].mBytes \in 1..MaxBytes /\ c[k].mStart \in Nat /\ c[k].mEnd <= mBlockSize
        /\ size(c[k]) = c[k].mEnd - c[k].mStart /\ c[k].mEnd \in Nat /\ mBlockSize \in Nat
    BY <1>7, <1>10, <1>11, BlockSizeIs
  <2>2. piece(k) = [mBytes |-> c[k].mBytes, mStart |-> c[k].mStart + begin(k),
                    mEnd |-> c[k].mStart + begin(k) + long(k)]
    BY DEF Piece, Block, c
  <2>3. /\ c[k].mStart + begin(k) \in 0..mBlockSize
        /\ c[k].mStart + begin(k) + long(k) \in 0..mBlockSize
        /\ c[k].mStart + begin(k) <= c[k].mStart + begin(k) + long(k)
    <3>1. ASSUME NEW start \in Nat, NEW i \in Nat, NEW n \in Nat, NEW end \in Nat,
                 i + n <= end - start, end <= mBlockSize, mBlockSize \in Nat
          PROVE  /\ start + i \in 0..mBlockSize /\ start + i + n \in 0..mBlockSize
                 /\ start + i <= start + i + n
      BY <3>1
    <3>2. begin(k) + long(k) <= c[k].mEnd - c[k].mStart
      BY <2>1
    <3>. QED
      BY <2>1, <3>1, <3>2
  <2>. HIDE DEF piece
  <2>. QED
    BY <2>1, <2>2, <2>3 DEF Windows
<1>. HIDE DEF piece
<1>12. \A i \in 1..(last - first + 1) : first + i - 1 \in 1..Len(c) /\ first <= first + i - 1
  BY <1>3, <1>5, <1>8
<1>13. last - first + 1 \in Nat
  BY <1>3, <1>5, <1>8
<1>. QED
  <2>. DEFINE n == last - first + 1
  <2>1. [i \in 1..n |-> piece(first + i - 1)] \in [1..n -> Windows]
    BY <1>11, <1>12
  <2>. HIDE DEF n
  <2>2. n \in Nat /\ Pieces(b, at, length) \in [1..n -> Windows]
    BY <1>2, <1>13, <2>1 DEF n
  <2>. QED
    BY <2>2, SeqDef

LEMMA RegionStep ==
  ASSUME Books, NEW b \in Buffers, NEW buffer \in Buffers, NEW at \in Nat, NEW length \in Nat,
         region(b, at, length, buffer)
  PROVE  Books'
<1>1. /\ Idle /\ MayTake(b, at, length) /\ Added(buffer, Pieces(b, at, length))
      /\ UNCHANGED <<mIterator, push, leaked>>
  BY DEF region, Writing
<1>2. Pieces(b, at, length) \in Seq(Windows)
  BY <1>1, PiecesTyped
<1>. QED
  BY <1>1, <1>2, AddedStep

-----------------------------------------------------------------------------
(* Inserting *)

\* The blocks of one buffer on some bytes are counted there.
LEMMA CountedEnough ==
  ASSUME Books, NEW b \in Buffers, NEW m \in 1..MaxBytes
  PROVE  /\ Count(mBlocks[b], m) <= mBytes[m].mReferenceCount
         /\ Count(mBlocks[b], m) \in Nat /\ mBytes[m].mReferenceCount \in Nat
<1>. DEFINE n == Cardinality(OnIn(mBlocks, m))
            left == Cardinality(OnIn([mBlocks EXCEPT ![b] = <<>>], m))
<1>1. mBlocks \in [Buffers -> Seq(Windows)] /\ leaked[m] \in Nat /\ mBytes[m] \in BytesThere
  BY BooksTyped DEF Books
<1>2. n \in Nat /\ left \in Nat /\ left = n - Count(mBlocks[b], m) + Count(<<>>, m)
  BY <1>1, OnChanges, NoBlocks
<1>3. mBytes[m].mReferenceCount = leaked[m] + n
  <2>1. m \in DOMAIN mBytes
    BY BooksTyped DEF Books
  <2>. QED
    BY <2>1, OnIsIn DEF Books, CountsAgree
<1>. HIDE DEF n, left
<1>4. Count(<<>>, m) = 0 /\ Count(mBlocks[b], m) \in Nat
  BY <1>1, NoBlocks, CountIs
<1>5. mBytes[m].mReferenceCount \in Nat
  BY <1>1 DEF BytesThere
<1>. QED
  BY <1>1, <1>2, <1>3, <1>4, <1>5

\* Memory that a block shows is not free.
LEMMA ShownIsNotFree ==
  ASSUME Books, NEW b \in Buffers, NEW k \in 1..Len(mBlocks[b])
  PROVE  mBlocks[b][k].mBytes \in 1..MaxBytes /\ mBytes[mBlocks[b][k].mBytes].mReferenceCount # 0
<1>. DEFINE c == mBlocks[b]
            m == c[k].mBytes
<1>1. c \in Seq(Windows)
  BY BooksTyped DEF Books
<1>2. m \in 1..MaxBytes
  <2>1. c[k] \in Windows
    BY <1>1, ElementOfSeq
  <2>. QED
    BY <2>1, WindowIs
<1>3. Count(c, m) # 0
  <2>1. k \in WhereOn(c, m)
    BY <1>1, LenProperties DEF WhereOn
  <2>2. IsFiniteSet(WhereOn(c, m))
    BY <1>1, CountIs
  <2>. QED
    BY <2>1, <2>2, FS_EmptySet DEF Count
<1>4. Count(c, m) <= mBytes[m].mReferenceCount /\ Count(c, m) \in Nat
  BY <1>2, CountedEnough
<1>. HIDE DEF c, m
<1>. QED
  BY <1>2, <1>3, <1>4 DEF c, m

\* A block divided in two on the same bytes: one in its place, one behind it.
LEMMA Divided ==
  ASSUME NEW c \in Seq(Windows), NEW k \in 1..Len(c), NEW p \in Windows, NEW q \in Windows,
         p.mBytes = c[k].mBytes, q.mBytes = c[k].mBytes, size(p) + size(q) = size(c[k])
  PROVE  LET e == [c EXCEPT ![k] = p]
         IN  /\ e \in Seq(Windows) /\ Len(e) = Len(c) /\ Total(e) + size(q) = Total(c)
             /\ \A m : Count(e, m) = Count(c, m)
             /\ \A j \in 1..Len(c) : e[j] = IF j = k THEN p ELSE c[j]
             /\ IsInserted(e, SubSeq(c, 1, k - 1) \o <<p, q>> \o SubSeq(c, k + 1, Len(c)), k, q)
<1>. DEFINE e == [c EXCEPT ![k] = p]
<1>1. /\ e \in Seq(Windows) /\ Len(e) = Len(c)
      /\ \A j \in 1..Len(c) : e[j] = IF j = k THEN p ELSE c[j]
  BY ExceptSeq
<1>2. Len(c) \in Nat /\ k \in Nat /\ k - 1 \in 0..Len(c) /\ k \in 0..Len(c)
  BY LenProperties
<1>. HIDE DEF e
<1>3. \A m : Count(e, m) = Count(c, m)
  <2>1. \A j \in 1..Len(c) : e[j].mBytes = c[j].mBytes
    BY <1>1
  <2>. QED
    BY <1>1, <2>1, SameCount
<1>4. Total(e) + size(q) = Total(c)
  <2>. DEFINE less == -size(q)
              l == Len(c)
  <2>1. size(q) \in Nat /\ size(p) \in Nat /\ less \in Int /\ size(p) = size(c[k]) + less
    <3>1. size(q) \in Nat /\ size(p) \in Nat /\ size(c[k]) \in Nat
      BY WindowIs, ElementOfSeq
    <3>. QED
      BY <3>1
  <2>2. \A j \in 1..l : size(c[j]) \in Nat
    BY WindowIs, ElementOfSeq
  <2>. HIDE DEF less
  <2>3. Enlarged(c, e, l, k, less)
    <3>1. ASSUME NEW j \in 1..l PROVE size(e[j]) = size(c[j]) + IF j = k THEN less ELSE 0
      <4>1. CASE j = k
        BY <1>1, <2>1, <4>1
      <4>2. CASE j # k
        BY <1>1, <2>2, <4>2
      <4>. QED
        BY <4>1, <4>2
    <3>. QED
      BY <3>1 DEF Enlarged
  <2>4. l \in Nat /\ l <= Len(c) /\ l <= Len(e) /\ k \in 1..l
    BY <1>1, <1>2
  <2>5. Total(c) = Sizes(c)[l] /\ Total(e) = Sizes(e)[l] /\ Total(c) \in Nat
    BY <1>1, SizesAre
  <2>. HIDE DEF l
  <2>6. Sizes(e)[l] = Sizes(c)[l] + IF k \in 1..l THEN less ELSE 0
    BY <1>1, <1>2, <2>1, <2>3, <2>4, SizesDiffer, SMTT(60)
  <2>7. Total(e) = Total(c) + less
    BY <2>4, <2>5, <2>6
  <2>. QED
    BY <2>1, <2>5, <2>7, SMTT(60) DEF less
<1>5. SubSeq(c, 1, k - 1) \o <<p, q>> \o SubSeq(c, k + 1, Len(c)) = Seqs!InsertAt(e, k + 1, q)
  <2>. DEFINE before == SubSeq(c, 1, k - 1)
              behind == SubSeq(c, k + 1, Len(c))
  <2>1. before = SubSeq(e, 1, k - 1)
    <3>1. /\ before \in Seq(Windows) /\ Len(before) = k - 1 /\ \A j \in 1..(k - 1) : before[j] = c[j]
      BY <1>2, Halves
    <3>2. /\ SubSeq(e, 1, k - 1) \in Seq(Windows) /\ Len(SubSeq(e, 1, k - 1)) = k - 1
          /\ \A j \in 1..(k - 1) : SubSeq(e, 1, k - 1)[j] = e[j]
      BY <1>1, <1>2, Halves
    <3>3. \A j \in 1..(k - 1) : j \in 1..Len(c) /\ j # k
      BY <1>2
    <3>4. \A j \in 1..(k - 1) : e[j] = c[j]
      BY <1>1, <3>3
    <3>. QED
      BY <3>1, <3>2, <3>4, SeqEqual
  <2>2. behind = SubSeq(e, k + 1, Len(e))
    <3>1. /\ behind \in Seq(Windows) /\ Len(behind) = Len(c) - k
          /\ \A j \in 1..(Len(c) - k) : behind[j] = c[k + j]
      BY <1>2, Halves
    <3>2. /\ SubSeq(e, k + 1, Len(e)) \in Seq(Windows) /\ Len(SubSeq(e, k + 1, Len(e))) = Len(c) - k
          /\ \A j \in 1..(Len(c) - k) : SubSeq(e, k + 1, Len(e))[j] = e[k + j]
      BY <1>1, <1>2, Halves
    <3>3. \A j \in 1..(Len(c) - k) : k + j \in 1..Len(c) /\ k + j # k
      BY <1>2
    <3>4. \A j \in 1..(Len(c) - k) : e[k + j] = c[k + j]
      BY <1>1, <3>3
    <3>. QED
      BY <3>1, <3>2, <3>4, SeqEqual
  <2>3. SubSeq(e, 1, k) = before \o <<p>>
    <3>1. 1 \in 1..Len(e) /\ k \in 1..Len(e) /\ e[k] = p
      BY <1>1, <1>2
    <3>. QED
      BY <1>1, <2>1, <3>1, SubSeqRecursiveSecond
  <2>4. before \in Seq(Windows)
    BY <1>2, Halves
  <2>5. <<p>> \in Seq(Windows) /\ <<q>> \in Seq(Windows) /\ <<p, q>> = <<p>> \o <<q>>
    <3>1. /\ <<p>> \in Seq(Windows) /\ Len(<<p>>) = 1 /\ <<p>>[1] = p
          /\ <<q>> \in Seq(Windows) /\ Len(<<q>>) = 1 /\ <<q>>[1] = q
      BY OneBlock
    <3>2. /\ <<p>> \o <<q>> \in Seq(Windows) /\ Len(<<p>> \o <<q>>) = Len(<<p>>) + Len(<<q>>)
          /\ \A i \in 1..(Len(<<p>>) + Len(<<q>>)) : (<<p>> \o <<q>>)[i] =
               IF i <= Len(<<p>>) THEN <<p>>[i] ELSE <<q>>[i - Len(<<p>>)]
      BY <3>1, ConcatProperties
    <3>3. Len(<<p>> \o <<q>>) = 2 /\ (<<p>> \o <<q>>)[1] = p /\ (<<p>> \o <<q>>)[2] = q
      BY <3>1, <3>2
    <3>4. <<p, q>> \in Seq(Windows) /\ Len(<<p, q>>) = 2 /\ <<p, q>>[1] = p /\ <<p, q>>[2] = q
      OBVIOUS
    <3>5. \A i \in 1..2 : <<p, q>>[i] = (<<p>> \o <<q>>)[i]
      BY <3>3, <3>4
    <3>. QED
      BY <3>1, <3>2, <3>3, <3>4, <3>5, SeqEqual
  <2>6. (before \o <<p>>) \o <<q>> = before \o <<p, q>>
    <3>. HIDE DEF before
    <3>. QED
      BY <2>4, <2>5, ConcatAssociative
  <2>7. Seqs!InsertAt(e, k + 1, q) = SubSeq(e, 1, k) \o <<q>> \o SubSeq(e, k + 1, Len(e))
    <3>1. (k + 1) - 1 = k
      BY <1>2
    <3>. QED
      BY <3>1 DEF Seqs!InsertAt
  <2>. HIDE DEF before, behind
  <2>8. Seqs!InsertAt(e, k + 1, q) = before \o <<p, q>> \o behind
    BY <2>2, <2>3, <2>6, <2>7
  <2>. QED
    BY <2>8 DEF before, behind
<1>6. IsInserted(e, Seqs!InsertAt(e, k + 1, q), k, q)
  BY <1>1, <1>2, InsertedBehind
<1>. QED
  BY <1>1, <1>3, <1>4, <1>5, <1>6 DEF e

LEMMA InsertStep ==
  ASSUME Books, NEW b \in Buffers, NEW at \in Nat, NEW string \in Strings, insert(b, at, string),
         "readers" \notin Liberties
  PROVE  Books'
<1>. DEFINE c == mBlocks[b]
            on == SplitAt(b, at)
            k == IF on = {} THEN 0 ELSE Sets!Min(on)
            within == at - blockOffset(b, k)
            cuts == k # 0 /\ within < size(mBlocks[b][k])
            parts == Split(b, k, within)
            it == mIterator[b]
<1>1. /\ Idle /\ Free # {} /\ (it.mBlock # 0 => offset(b) < at)
      /\ mBlocks' = IF cuts
                    THEN [mBlocks EXCEPT ![b] = SubSeq(@, 1, k - 1) \o parts \o SubSeq(@, k + 1, Len(@))]
                    ELSE mBlocks
      /\ mBytes' = IF cuts THEN Referenced(<<parts[2]>>) ELSE mBytes
      /\ mIterator' = IF cuts THEN [mIterator EXCEPT ![b] = BehindNew(b, k)] ELSE mIterator
      /\ push' = [on |-> TRUE, buffer |-> b, left |-> string, at |-> k]
      /\ UNCHANGED <<mSize, leaked>>
  BY Zenon DEF insert, Writing, MayInsert
<1>2. /\ mBytes \in [1..MaxBytes -> BytesThere] /\ c \in Seq(Windows) /\ Len(c) \in Nat
      /\ mBlocks \in [Buffers -> Seq(Windows)]
      /\ mSize \in [Buffers -> Nat] /\ mSize[b] = Total(c) /\ it \in Iterators /\ InPlace(c, it)
      /\ mIterator \in [Buffers -> Iterators] /\ leaked \in [1..MaxBytes -> Nat]
      /\ DOMAIN c = 1..Len(c) /\ BlocksOf(b) = 1..Len(c)
      /\ DOMAIN mBytes = 1..MaxBytes
  BY BooksTyped, LenProperties DEF Books, SizeAgrees, IteratorsThere, BlocksOf
<1>3. /\ k \in 0..Len(c)
      /\ k # 0 => /\ k \in 1..Len(c) /\ 0 < within /\ within <= size(c[k]) /\ within \in Nat
                  /\ blockOffset(b, k) \in Nat
  <2>1. CASE on = {}
    BY <1>2, <2>1
  <2>2. CASE on # {}
    <3>1. on \in SUBSET Nat
      BY <1>2 DEF SplitAt
    <3>2. k \in on
      <4>. HIDE DEF on
      <4>. QED
        BY <2>2, <3>1, MinIs
    <3>. HIDE DEF k
    <3>3. k \in 1..Len(c) /\ blockOffset(b, k) < at /\ at <= blockOffset(b, k + 1)
      BY <1>2, <3>2 DEF SplitAt
    <3>4. k - 1 \in 0..Len(c) /\ (k + 1) - 1 = k
      BY <1>2, <3>3
    <3>5. /\ blockOffset(b, k) \in Nat /\ size(c[k]) \in Nat
          /\ blockOffset(b, k + 1) = blockOffset(b, k) + size(c[k])
      <4>1. size(c[k]) \in Nat
        BY <1>2, <3>3, WindowIs, ElementOfSeq
      <4>. QED
        BY <1>2, <3>3, <3>4, <4>1, SizesAre DEF blockOffset
    <3>. QED
      BY <1>2, <3>3, <3>5
  <2>. QED
    BY <2>1, <2>2
<1>. HIDE DEF k, within
<1>4. push' \in [on : {TRUE}, buffer : Buffers, left : Seq(Chars), at : Nat]
  <2>1. string \in Seq(Chars)
    BY BufferAssumption, Zenon DEF BufferAssumption
  <2>2. k \in Nat
    <3>1. Len(c) \in Nat /\ k \in 0..Len(c)
      BY <1>2, <1>3
    <3>. QED
      BY <3>1
  <2>. QED
    BY <1>1, <2>1, <2>2
<1>5. push'.at = k /\ push'.buffer = b
  BY <1>1
<1>6. CASE ~cuts
  <2>1. UNCHANGED <<mBytes, mBlocks, mSize, mIterator, leaked>>
    BY <1>1, <1>6
  <2>2. PushReady'
    <3>1. Free' # {}
      BY <1>1, <2>1 DEF Free
    <3>2. push'.at <= Len(mBlocks'[push'.buffer])
      BY <1>2, <1>3, <1>5, <2>1
    <3>. QED
      BY <3>1, <3>2 DEF PushReady
  <2>3. mIterator' \in [Buffers -> Iterators] /\ \A o \in Buffers : InPlace(mBlocks[o], mIterator'[o])
    BY <1>2, <2>1 DEF Books, IteratorsThere
  <2>. QED
    BY <1>4, <2>1, <2>2, <2>3, BlocksKept
<1>7. CASE cuts
  <2>. DEFINE w == c[k]
              p == [w EXCEPT !.mEnd = w.mStart + within]
              q == Block(w.mBytes, w.mStart + within, w.mEnd)
              e == [c EXCEPT ![k] = p]
              d == SubSeq(c, 1, k - 1) \o <<p, q>> \o SubSeq(c, k + 1, Len(c))
              there == Shifted(it, k)
  <2>1. k \in 1..Len(c) /\ within \in Nat /\ within < size(w)
    BY <1>3, <1>7
  <2>2. /\ w \in Windows /\ size(w) = w.mEnd - w.mStart /\ w.mStart \in Nat /\ w.mEnd \in Nat
        /\ w.mEnd <= mBlockSize /\ w.mBytes \in 1..MaxBytes /\ mBlockSize \in Nat
    <3>1. w \in Windows
      BY <1>2, <2>1, ElementOfSeq
    <3>. QED
      BY <3>1, WindowIs, BlockSizeIs
  <2>3. parts = <<p, q>> /\ parts[2] = q
    BY DEF Split
  <2>4. /\ p = [mBytes |-> w.mBytes, mStart |-> w.mStart, mEnd |-> w.mStart + within]
        /\ q = [mBytes |-> w.mBytes, mStart |-> w.mStart + within, mEnd |-> w.mEnd]
    BY <2>2 DEF Block, Windows
  <2>5. /\ mBlocks' = [mBlocks EXCEPT ![b] = d] /\ mBytes' = Referenced(<<q>>)
        /\ mIterator' = [mIterator EXCEPT ![b] = there]
    BY <1>1, <1>2, <1>7, <2>3 DEF BehindNew, Shifted
  <2>. HIDE DEF c, w, p, q, parts, it, there
  <2>6. /\ p \in Windows /\ q \in Windows /\ p.mBytes = w.mBytes /\ q.mBytes = w.mBytes
        /\ size(p) + size(q) = size(w) /\ p.mEnd = w.mStart + within
    <3>1. /\ w.mStart + within \in 0..mBlockSize /\ w.mStart <= w.mStart + within
          /\ w.mStart + within <= w.mEnd /\ w.mStart \in 0..mBlockSize /\ w.mEnd \in 0..mBlockSize
      BY <2>1, <2>2
    <3>2. p \in Windows /\ q \in Windows
      BY <2>2, <2>4, <3>1 DEF Windows
    <3>3. /\ p.mBytes = w.mBytes /\ q.mBytes = w.mBytes /\ p.mEnd = w.mStart + within
          /\ p.mStart = w.mStart /\ q.mStart = w.mStart + within /\ q.mEnd = w.mEnd
      BY <2>4
    <3>4. size(p) = p.mEnd - p.mStart /\ size(q) = q.mEnd - q.mStart
      BY <3>2, WindowIs
    <3>. QED
      BY <2>1, <2>2, <3>2, <3>3, <3>4
  <2>7. /\ e \in Seq(Windows) /\ Len(e) = Len(c) /\ Total(e) + size(q) = Total(c)
        /\ \A m : Count(e, m) = Count(c, m)
        /\ \A j \in 1..Len(c) : e[j] = IF j = k THEN p ELSE c[j]
        /\ IsInserted(e, d, k, q)
    BY <1>2, <2>1, <2>6, Divided DEF w
  <2>. HIDE DEF e, d
  <2>8. InPlace(e, it)
    <3>1. SUFFICES ASSUME it.mBlock # 0 PROVE it.mBlock \in DOMAIN e /\ it.mPosition <= e[it.mBlock].mEnd
      BY DEF InPlace
    <3>2. /\ it.mBlock \in 1..Len(c) /\ it.mPosition <= c[it.mBlock].mEnd /\ it.mPosition \in Int
          /\ DOMAIN e = 1..Len(c)
      BY <1>2, <2>7, <3>1, LenProperties DEF InPlace, Iterators
    <3>3. CASE it.mBlock # k
      BY <2>7, <3>2, <3>3
    <3>4. CASE it.mBlock = k
      <4>. DEFINE seen == Sets!Max({it.mPosition, w.mStart})
      <4>1. Ensured(b) = [it EXCEPT !.mPosition = seen]
        BY <3>1, <3>4 DEF Ensured, it, w, c
      <4>. HIDE DEF seen
      <4>2. Ensured(b).mBlock = k /\ Ensured(b).mPosition = seen
        BY <1>2, <3>4, <4>1 DEF Iterators
      <4>3. seen \in Int /\ it.mPosition <= seen
        <5>1. w.mStart \in Int /\ it.mPosition \in Int
          BY <2>2, <3>2
        <5>2. seen = IF w.mStart <= it.mPosition THEN it.mPosition ELSE w.mStart
          BY <5>1, MaxOfTwo DEF seen
        <5>. QED
          BY <5>1, <5>2
      <4>4. blockOffset(b, k) + seen - w.mStart < at
        BY <1>1, <2>1, <3>1, <4>2 DEF offset, w, c
      <4>5. within = at - blockOffset(b, k) /\ blockOffset(b, k) \in Nat
        BY <1>3, <2>1 DEF within
      <4>6. seen < w.mStart + within
        BY <2>2, <4>3, <4>4, <4>5
      <4>7. e[k] = p
        BY <2>1, <2>7
      <4>. QED
        BY <2>1, <2>2, <2>6, <3>2, <3>4, <4>3, <4>6, <4>7
    <3>. QED
      BY <3>3, <3>4
  <2>9. /\ d \in Seq(Windows) /\ Len(d) = Len(c) + 1 /\ Total(d) = Total(c)
        /\ \A m : Count(d, m) = Count(c, m) + OneOn(q, m)
        /\ InPlace(d, there)
    <3>1. Total(e) \in Nat /\ size(q) \in Nat
      BY <2>6, <2>7, SizesAre, WindowIs
    <3>2. /\ d \in Seq(Windows) /\ Len(d) = Len(e) + 1 /\ Total(d) = Total(e) + size(q)
          /\ \A m : Count(d, m) = Count(e, m) + OneOn(q, m)
          /\ \A i \in Iterators : InPlace(e, i) => InPlace(d, Shifted(i, k))
      BY <2>7 DEF IsInserted
    <3>3. InPlace(d, Shifted(it, k))
      BY <1>2, <2>8, <3>2
    <3>. QED
      BY <2>7, <3>1, <3>2, <3>3 DEF there
  <2>10. /\ mBytes' \in [1..MaxBytes -> BytesThere]
         /\ \A m \in 1..MaxBytes :
              mBytes'[m].mReferenceCount = mBytes[m].mReferenceCount + OneOn(q, m)
    <3>1. <<q>> \in Seq(Windows) /\ \A m : Count(<<q>>, m) = OneOn(q, m)
      BY <2>6, OneBlock
    <3>. QED
      BY <2>5, <3>1, ReferencedIs
  <2>11. ASSUME NEW m \in 1..MaxBytes
         PROVE  mBytes'[m].mReferenceCount - leaked'[m]
                  = mBytes[m].mReferenceCount - leaked[m] - Count(c, m) + Count(d, m)
    <3>1. /\ mBytes[m].mReferenceCount \in Nat /\ leaked[m] \in Nat /\ Count(c, m) \in Nat
          /\ OneOn(q, m) \in Nat /\ leaked'[m] = leaked[m]
      BY <1>1, <1>2, CountIs DEF BytesThere, OneOn
    <3>. QED
      BY <2>9, <2>10, <3>1
  <2>12. PushReady'
    <3>1. PICK m \in Free : TRUE
      BY <1>1
    <3>2. m \in 1..MaxBytes /\ mBytes[m].mReferenceCount = 0
      BY <1>2, <3>1 DEF Free
    <3>3. m # q.mBytes
      BY <2>1, <2>6, <3>2, ShownIsNotFree DEF w, c
    <3>4. mBytes'[m].mReferenceCount = 0
      BY <2>10, <3>2, <3>3 DEF OneOn
    <3>5. DOMAIN mBytes' = 1..MaxBytes
      BY <2>10
    <3>6. Free' # {}
      BY <3>2, <3>4, <3>5 DEF Free
    <3>7. push'.at <= Len(mBlocks'[push'.buffer])
      BY <1>2, <1>3, <1>5, <2>5, <2>9
    <3>. QED
      BY <3>6, <3>7 DEF PushReady
  <2>13. mSize' = [mSize EXCEPT ![b] = Total(d)]
    BY <1>1, <1>2, <2>9
  <2>14. there \in Iterators
    BY <1>2, ShiftedTyped DEF there
  <2>15. leaked' \in [1..MaxBytes -> Nat]
    BY <1>1, <1>2
  <2>. QED
    BY <1>4, <2>5, <2>9, <2>10, <2>11, <2>12, <2>13, <2>14, <2>15, OneChanges DEF c
<1>. QED
  BY <1>6, <1>7

-----------------------------------------------------------------------------
(* Reading *)

LEMMA PoppedStep ==
  ASSUME Books, NEW b \in Buffers, NEW asked \in Nat, Idle, Popped(b, asked),
         UNCHANGED <<push, leaked>>
  PROVE  Books'
<1>. DEFINE c == mBlocks[b]
            length == Sets!Min({asked % SIZE16, mSize[b]})
            heads == HeadsWithin(b, length)
            gone == Sets!Max(heads)
            before == SubSeq(c, 1, gone)
            rest == SubSeq(c, gone + 1, Len(c))
            cut == length - Sizes(c)[gone]
            w == rest[1]
            p == [w EXCEPT !.mStart = @ + cut]
            d == IF rest = <<>> THEN rest ELSE [rest EXCEPT ![1] = p]
            it == mIterator[b]
            there == WithoutHead(b, gone)
<1>1. /\ mBytes \in [1..MaxBytes -> BytesThere] /\ c \in Seq(Windows) /\ Len(c) \in Nat
      /\ mBlocks \in [Buffers -> Seq(Windows)]
      /\ mSize \in [Buffers -> Nat] /\ mSize[b] = Total(c) /\ it \in Iterators /\ InPlace(c, it)
      /\ mIterator \in [Buffers -> Iterators] /\ leaked \in [1..MaxBytes -> Nat]
      /\ DOMAIN c = 1..Len(c)
  BY BooksTyped, LenProperties DEF Books, SizeAgrees, IteratorsThere
<1>2. /\ Sizes(c) \in [0..Len(c) -> Nat] /\ Sizes(c)[0] = 0 /\ Total(c) = Sizes(c)[Len(c)]
      /\ \A k \in 1..Len(c) : Sizes(c)[k] = Sizes(c)[k - 1] + size(c[k])
      /\ Total(c) \in Nat
  BY <1>1, SizesAre
<1>3. length \in Nat /\ length <= Total(c)
  <2>1. asked % SIZE16 \in Nat /\ mSize[b] \in Nat
    <3>1. SIZE16 \in Nat /\ SIZE16 > 0
      BY BlockSizeIs
    <3>. QED
      BY <1>1, <3>1
  <2>. QED
    BY <1>1, <2>1, MinOfTwo
<1>. HIDE DEF length
<1>4. heads = {k \in 0..Len(c) : Sizes(c)[k] <= length}
  <2>1. \A k \in 0..Len(c) : (k + 1) - 1 = k
    BY <1>1
  <2>. QED
    BY <2>1 DEF HeadsWithin, blockOffset
<1>5. gone \in 0..Len(c) /\ Sizes(c)[gone] <= length /\ \A k \in heads : k <= gone
  <2>1. 0 \in heads /\ heads \in SUBSET (0..Len(c))
    BY <1>1, <1>2, <1>3, <1>4
  <2>. HIDE DEF heads
  <2>2. gone \in heads /\ \A k \in heads : k <= gone
    BY <1>1, <2>1, MaxIs
  <2>. QED
    BY <1>4, <2>2
<1>6. gone < Len(c) => length < Sizes(c)[gone + 1]
  <2>1. SUFFICES ASSUME gone < Len(c), ~(length < Sizes(c)[gone + 1]) PROVE FALSE
    OBVIOUS
  <2>2. gone + 1 \in 0..Len(c) /\ ~(gone + 1 <= gone)
    BY <1>1, <1>5, <2>1
  <2>3. Sizes(c)[gone + 1] \in Nat
    BY <1>2, <2>2
  <2>. QED
    BY <1>3, <1>4, <1>5, <2>1, <2>2, <2>3
<1>7. /\ mSize' = [mSize EXCEPT ![b] = @ - length] /\ mBytes' = Released(before)
      /\ mBlocks' = [mBlocks EXCEPT ![b] = d] /\ mIterator' = [mIterator EXCEPT ![b] = there]
  <2>1. /\ mSize' = [mSize EXCEPT ![b] = @ - length] /\ mBytes' = Released(before)
        /\ mBlocks' = [mBlocks EXCEPT
             ![b] = IF rest = <<>> THEN rest
                    ELSE [rest EXCEPT ![1].mStart = @ + length - blockOffset(b, gone + 1)]]
        /\ mIterator' = [mIterator EXCEPT ![b] = there]
    BY DEF Popped, length
  <2>2. blockOffset(b, gone + 1) = Sizes(c)[gone] /\ Sizes(c)[gone] \in Nat
    <3>1. (gone + 1) - 1 = gone
      BY <1>1, <1>5
    <3>. QED
      BY <1>2, <1>5, <3>1 DEF blockOffset
  <2>3. rest # <<>> => w.mStart + length - blockOffset(b, gone + 1) = w.mStart + cut
    <3>1. rest # <<>> => w.mStart \in Nat
      <4>1. rest \in Seq(Windows)
        BY <1>1, <1>5, Halves
      <4>. HIDE DEF rest
      <4>2. rest # <<>> => 1 \in 1..Len(rest)
        BY <4>1, EmptySeq
      <4>3. rest # <<>> => w \in Windows
        BY <4>1, <4>2, ElementOfSeq
      <4>. QED
        BY <4>3, WindowIs
    <3>. HIDE DEF rest
    <3>. QED
      BY <1>3, <2>2, <3>1
  <2>4. rest # <<>> => [rest EXCEPT ![1].mStart = @ + length - blockOffset(b, gone + 1)]
                         = [rest EXCEPT ![1] = p]
    <3>. HIDE DEF rest, cut
    <3>. QED
      BY <2>3
  <2>. HIDE DEF rest, before, there, p, gone
  <2>. QED
    BY <2>1, <2>4
<1>. HIDE DEF c, heads, gone, cut, it
<1>8. /\ before \in Seq(Windows) /\ rest \in Seq(Windows)
      /\ Len(rest) = Len(c) - gone /\ \A k \in 1..(Len(c) - gone) : rest[k] = c[gone + k]
      /\ c = before \o rest /\ Total(before) = Sizes(c)[gone]
  BY <1>1, <1>5, Halves, Zenon
<1>. HIDE DEF before, rest
<1>9. /\ Total(c) = Sizes(c)[gone] + Total(rest) /\ Total(rest) \in Nat /\ Sizes(c)[gone] \in Nat
      /\ \A m : Count(c, m) = Count(before, m) + Count(rest, m)
  BY <1>2, <1>5, <1>8, Joined, SizesAre
<1>10. ASSUME rest # <<>>
       PROVE  /\ 1 \in 1..Len(rest) /\ gone < Len(c) /\ w = c[gone + 1] /\ w \in Windows
              /\ p \in Windows /\ p.mBytes = w.mBytes /\ p.mEnd = w.mEnd
              /\ size(p) = size(w) + -cut /\ cut \in Nat
  <2>1. 1 \in 1..Len(rest) /\ gone < Len(c)
    <3>1. Len(rest) \in Nat \ {0}
      BY <1>8, <1>10, EmptySeq
    <3>. QED
      BY <1>1, <1>5, <1>8, <3>1
  <2>2. w = c[gone + 1] /\ gone + 1 \in 1..Len(c) /\ (gone + 1) - 1 = gone
    BY <1>1, <1>5, <1>8, <2>1
  <2>3. w \in Windows
    BY <1>8, <2>1, ElementOfSeq
  <2>. HIDE DEF w
  <2>4. /\ size(w) = w.mEnd - w.mStart /\ w.mStart \in Nat /\ w.mEnd \in Nat /\ w.mEnd <= mBlockSize
        /\ w.mBytes \in 1..MaxBytes /\ mBlockSize \in Nat /\ size(w) \in Nat
    BY <2>3, WindowIs, BlockSizeIs
  <2>5. cut \in Nat /\ cut < size(w)
    <3>1. Sizes(c)[gone + 1] = Sizes(c)[gone] + size(w)
      BY <1>2, <2>2
    <3>2. cut = length - Sizes(c)[gone]
      BY DEF cut
    <3>3. Sizes(c)[gone] \in Nat /\ length \in Nat /\ Sizes(c)[gone] <= length
      BY <1>3, <1>5, <1>9
    <3>4. length < Sizes(c)[gone + 1]
      BY <1>6, <2>1
    <3>. QED
      BY <2>4, <3>1, <3>2, <3>3, <3>4
  <2>6. p = [mBytes |-> w.mBytes, mStart |-> w.mStart + cut, mEnd |-> w.mEnd]
    BY <2>3 DEF Windows
  <2>. HIDE DEF p
  <2>7. w.mStart + cut \in 0..mBlockSize /\ w.mEnd \in 0..mBlockSize /\ w.mStart + cut <= w.mEnd
    BY <2>4, <2>5
  <2>8. p \in Windows
    BY <2>4, <2>6, <2>7 DEF Windows
  <2>9. p.mBytes = w.mBytes /\ p.mEnd = w.mEnd /\ p.mStart = w.mStart + cut
    BY <2>6
  <2>10. size(p) = size(w) + -cut
    <3>1. size(p) = p.mEnd - p.mStart
      BY <2>8, WindowIs
    <3>. QED
      BY <2>4, <2>5, <2>9, <3>1
  <2>. QED
    BY <2>1, <2>2, <2>3, <2>5, <2>8, <2>9, <2>10
<1>. HIDE DEF w, p
<1>11. /\ d \in Seq(Windows) /\ Len(d) = Len(rest) /\ Total(d) = Total(c) - length
       /\ \A m : Count(d, m) = Count(rest, m)
       /\ \A k \in 1..Len(rest) : d[k].mEnd = c[gone + k].mEnd
  <2>1. CASE rest = <<>>
    <3>1. d = rest /\ Len(rest) = 0
      BY <2>1
    <3>2. gone = Len(c) /\ Total(rest) = 0
      <4>1. Total(rest) = 0
        BY <2>1, NoBlocks
      <4>2. Len(rest) = Len(c) - gone /\ Len(c) \in Nat /\ gone \in 0..Len(c)
        BY <1>1, <1>5, <1>8
      <4>3. Len(rest) = 0
        BY <3>1
      <4>. HIDE DEF d
      <4>. QED
        BY <4>1, <4>2, <4>3
    <3>3. length = Total(c)
      BY <1>2, <1>3, <1>5, <3>2
    <3>. HIDE DEF d
    <3>. QED
      BY <1>2, <1>8, <3>1, <3>2, <3>3
  <2>2. CASE rest # <<>>
    <3>. DEFINE l == Len(rest)
                less == -cut
    <3>1. d = [rest EXCEPT ![1] = p]
      BY <2>2
    <3>2. /\ 1 \in 1..Len(rest) /\ p \in Windows /\ w = c[gone + 1] /\ w = rest[1]
          /\ p.mBytes = w.mBytes /\ p.mEnd = w.mEnd /\ size(p) = size(w) + less /\ cut \in Nat
      BY <1>10, <2>2 DEF w
    <3>. HIDE DEF d
    <3>3. /\ d \in Seq(Windows) /\ Len(d) = Len(rest)
          /\ \A k \in 1..Len(rest) : d[k] = IF k = 1 THEN p ELSE rest[k]
      BY <1>8, <3>1, <3>2, ExceptSeq
    <3>4. \A m : Count(d, m) = Count(rest, m)
      <4>1. \A k \in 1..Len(rest) : d[k].mBytes = rest[k].mBytes
        BY <3>2, <3>3
      <4>. QED
        BY <1>8, <3>3, <4>1, SameCount
    <3>5. \A k \in 1..Len(rest) : d[k].mEnd = c[gone + k].mEnd
      <4>1. \A k \in 1..Len(rest) : rest[k] = c[gone + k]
        BY <1>8
      <4>. QED
        BY <3>2, <3>3, <4>1
    <3>6. l \in Nat /\ l <= Len(rest) /\ l <= Len(d) /\ 1 \in 1..l /\ less \in Int
      <4>1. l \in Nat /\ l = Len(rest) /\ 1 \in 1..Len(rest)
        BY <1>8, <3>2, LenProperties
      <4>2. less \in Int
        BY <3>2
      <4>. HIDE DEF l, less
      <4>. QED
        BY <3>3, <4>1, <4>2
    <3>7. Enlarged(rest, d, l, 1, less)
      <4>1. ASSUME NEW j \in 1..l PROVE size(d[j]) = size(rest[j]) + IF j = 1 THEN less ELSE 0
        <5>1. CASE j = 1
          BY <3>2, <3>3, <5>1
        <5>2. CASE j # 1
          <6>1. size(rest[j]) \in Nat
            BY <1>8, WindowIs, ElementOfSeq
          <6>. QED
            BY <3>3, <5>2, <6>1
        <5>. QED
          BY <5>1, <5>2
      <4>. QED
        BY <4>1 DEF Enlarged
    <3>8. Total(rest) = Sizes(rest)[l] /\ Total(d) = Sizes(d)[l]
      BY <1>8, <3>3, SizesAre
    <3>. HIDE DEF l, less
    <3>9. Sizes(d)[l] = Sizes(rest)[l] + IF 1 \in 1..l THEN less ELSE 0
      BY <1>8, <3>3, <3>6, <3>7, SizesDiffer
    <3>10. Total(d) = Total(rest) + less
      BY <3>6, <3>8, <3>9
    <3>11. Total(d) = Total(c) - length
      BY <1>2, <1>3, <1>9, <3>2, <3>10, SMTT(60) DEF less, cut
    <3>. QED
      BY <3>3, <3>4, <3>5, <3>11
  <2>. QED
    BY <2>1, <2>2
<1>. HIDE DEF d
<1>12. there \in Iterators /\ InPlace(d, there)
  <2>1. DOMAIN d = 1..(Len(c) - gone) /\ gone \in Nat
    BY <1>1, <1>5, <1>8, <1>11, LenProperties
  <2>2. CASE it.mBlock > gone
    <3>1. there = [it EXCEPT !.mBlock = @ - gone]
      BY <2>2 DEF WithoutHead, it
    <3>2. it.mBlock \in 1..Len(c) /\ it.mPosition <= c[it.mBlock].mEnd /\ it.mBlock \in Nat
      BY <1>1, <2>1, <2>2 DEF InPlace, Iterators
    <3>3. /\ it.mBlock - gone \in 1..(Len(c) - gone) /\ gone + (it.mBlock - gone) = it.mBlock
          /\ it.mBlock - gone \in Nat
      BY <1>1, <2>1, <2>2, <3>2
    <3>4. there.mBlock = it.mBlock - gone /\ there.mPosition = it.mPosition /\ there \in Iterators
      BY <1>1, <3>1, <3>3 DEF Iterators
    <3>5. d[it.mBlock - gone].mEnd = c[it.mBlock].mEnd
      BY <1>8, <1>11, <3>3
    <3>. HIDE DEF there
    <3>. QED
      BY <2>1, <3>2, <3>3, <3>4, <3>5 DEF InPlace
  <2>3. CASE ~(it.mBlock > gone) /\ (it.mBlock = 0 \/ gone = Len(c))
    <3>1. there = Unstarted
      BY <2>3 DEF WithoutHead, it, c
    <3>. HIDE DEF there
    <3>. QED
      BY <3>1 DEF Unstarted, Iterators, InPlace
  <2>4. CASE ~(it.mBlock > gone) /\ ~(it.mBlock = 0 \/ gone = Len(c))
    <3>1. there = [mBlock |-> 1, mPosition |-> c[gone + 1].mStart]
      BY <2>4 DEF WithoutHead, it, c
    <3>2. 1 \in 1..(Len(c) - gone) /\ gone + 1 \in 1..Len(c)
      <4>1. gone \in Nat /\ Len(c) \in Nat /\ gone # Len(c)
        BY <1>1, <2>1, <2>4, Zenon
      <4>2. gone <= Len(c)
        BY <1>5
      <4>. QED
        BY <4>1, <4>2, SMTT(60)
    <3>3. c[gone + 1].mStart \in Int /\ c[gone + 1].mStart <= c[gone + 1].mEnd
      BY <1>1, <3>2, WindowIs, ElementOfSeq
    <3>4. d[1].mEnd = c[gone + 1].mEnd
      BY <1>8, <1>11, <3>2
    <3>5. there.mBlock = 1 /\ there.mPosition = c[gone + 1].mStart /\ there \in Iterators
      BY <3>1, <3>3 DEF Iterators
    <3>. HIDE DEF there
    <3>. QED
      BY <2>1, <3>2, <3>3, <3>4, <3>5 DEF InPlace
  <2>. QED
    BY <2>2, <2>3, <2>4
<1>. HIDE DEF there
<1>13. \A m \in 1..MaxBytes : /\ Count(before, m) <= mBytes[m].mReferenceCount
                              /\ Count(before, m) \in Nat /\ Count(rest, m) \in Nat
  <2>1. ASSUME NEW m \in 1..MaxBytes
        PROVE  /\ Count(before, m) <= mBytes[m].mReferenceCount
               /\ Count(before, m) \in Nat /\ Count(rest, m) \in Nat
    <3>1. Count(c, m) <= mBytes[m].mReferenceCount /\ mBytes[m].mReferenceCount \in Nat
      BY CountedEnough DEF c
    <3>2. Count(before, m) \in Nat /\ Count(rest, m) \in Nat
      BY <1>8, CountIs
    <3>. QED
      BY <1>9, <3>1, <3>2
  <2>. QED
    BY <2>1
<1>14. /\ mBytes' \in [1..MaxBytes -> BytesThere]
       /\ \A m \in 1..MaxBytes :
            mBytes'[m].mReferenceCount = mBytes[m].mReferenceCount - Count(before, m)
  BY <1>7, <1>8, <1>13, ReleasedIs
<1>15. ASSUME NEW m \in 1..MaxBytes
       PROVE  mBytes'[m].mReferenceCount - leaked'[m]
                = mBytes[m].mReferenceCount - leaked[m] - Count(c, m) + Count(d, m)
  <2>1. mBytes[m].mReferenceCount \in Nat /\ leaked[m] \in Nat /\ leaked'[m] = leaked[m]
    BY <1>1 DEF BytesThere
  <2>2. /\ Count(c, m) = Count(before, m) + Count(rest, m) /\ Count(d, m) = Count(rest, m)
        /\ Count(before, m) \in Nat /\ Count(rest, m) \in Nat
    BY <1>9, <1>11, <1>13
  <2>. QED
    BY <1>14, <2>1, <2>2
<1>16. mSize' = [mSize EXCEPT ![b] = Total(d)]
  BY <1>1, <1>7, <1>11
<1>17. leaked' \in [1..MaxBytes -> Nat]
  BY <1>1
<1>. QED
  BY <1>7, <1>11, <1>12, <1>14, <1>15, <1>16, <1>17, NoneUnderWay, OneChanges DEF c

LEMMA PoppedIsStep ==
  ASSUME Books, NEW b \in Buffers,
         (\E length \in 0..mSize[b] : popped(b, length)) \/ poppedAll(b)
  PROVE  Books'
<1>1. mSize[b] \in Nat
  BY BooksTyped DEF Books
<1>2. ASSUME NEW length \in 0..mSize[b], popped(b, length) PROVE Books'
  <2>1. length \in Nat /\ Idle /\ Popped(b, length) /\ UNCHANGED <<push, leaked>>
    BY <1>1, <1>2 DEF popped
  <2>. QED
    BY <2>1, PoppedStep
<1>3. ASSUME poppedAll(b) PROVE Books'
  <2>1. Idle /\ Popped(b, mSize[b]) /\ UNCHANGED <<push, leaked>>
    BY <1>3 DEF poppedAll
  <2>. QED
    BY <1>1, <2>1, PoppedStep
<1>. QED
  BY <1>2, <1>3

\* A buffer that is destroyed leaves its references where they are.
LEMMA DeleteStep ==
  ASSUME Books, NEW b \in Buffers, delete(b)
  PROVE  Books'
<1>. DEFINE c == mBlocks[b]
<1>1. /\ mBytes \in [1..MaxBytes -> BytesThere] /\ c \in Seq(Windows)
      /\ leaked \in [1..MaxBytes -> Nat] /\ DOMAIN mBytes = 1..MaxBytes
      /\ DOMAIN leaked = 1..MaxBytes
  BY BooksTyped DEF Books
<1>2. /\ <<>> \in Seq(Windows) /\ Total(<<>>) = 0 /\ \A m : Count(<<>>, m) = 0
  BY NoBlocks
<1>3. Unstarted \in Iterators /\ InPlace(<<>>, Unstarted)
  BY DEF Unstarted, Iterators, InPlace
<1>4. /\ mBlocks' = [mBlocks EXCEPT ![b] = <<>>]
      /\ mSize' = [mSize EXCEPT ![b] = Total(<<>>)]
      /\ mIterator' = [mIterator EXCEPT ![b] = Unstarted]
      /\ Idle /\ push' = push
  BY <1>2 DEF delete
<1>5. ASSUME NEW m \in 1..MaxBytes PROVE leaked'[m] = leaked[m] + Count(c, m) /\ Count(c, m) \in Nat
  <2>1. leaked'[m] = leaked[m] + Cardinality({k \in BlocksOf(b) : mBlocks[b][k].mBytes = m})
    BY <1>1 DEF delete
  <2>2. Count(c, m) = Cardinality({k \in BlocksOf(b) : mBlocks[b][k].mBytes = m})
    BY DEF Count, WhereOn, BlocksOf
  <2>. QED
    BY <1>1, <2>1, <2>2, CountIs
<1>6. leaked' \in [1..MaxBytes -> Nat]
  <2>1. DOMAIN leaked' = 1..MaxBytes /\ leaked' = [m \in 1..MaxBytes |-> leaked'[m]]
    BY <1>1 DEF delete
  <2>2. \A m \in 1..MaxBytes : leaked'[m] \in Nat
    BY <1>1, <1>5
  <2>. QED
    BY <2>1, <2>2
<1>7. /\ mBytes' \in [1..MaxBytes -> BytesThere]
      /\ \A m \in 1..MaxBytes : mBytes'[m].mReferenceCount = mBytes[m].mReferenceCount
  <2>1. ASSUME NEW m \in 1..MaxBytes
        PROVE  /\ [mBytes[m] EXCEPT !.data = FreeBytes.data] \in BytesThere
               /\ [mBytes[m] EXCEPT !.data = FreeBytes.data].mReferenceCount
                    = mBytes[m].mReferenceCount
    <3>1. mBytes[m] \in BytesThere /\ FreeBytes.data \in [Offsets -> Chars \cup {Null}]
      BY <1>1 DEF FreeBytes
    <3>2. [mBytes[m] EXCEPT !.data = FreeBytes.data]
            = [mReferenceCount |-> mBytes[m].mReferenceCount, mEnd |-> mBytes[m].mEnd,
               data |-> FreeBytes.data]
      BY <3>1 DEF BytesThere
    <3>. QED
      BY <3>1, <3>2 DEF BytesThere
  <2>2. mBytes' = [m \in 1..MaxBytes |->
                     IF \E a \in Buffers \ {b} : \E k \in BlocksOf(a) : mBlocks[a][k].mBytes = m
                     THEN mBytes[m] ELSE [mBytes[m] EXCEPT !.data = FreeBytes.data]]
    BY <1>1 DEF delete
  <2>. QED
    BY <1>1, <2>1, <2>2
<1>8. ASSUME NEW m \in 1..MaxBytes
      PROVE  mBytes'[m].mReferenceCount - leaked'[m]
               = mBytes[m].mReferenceCount - leaked[m] - Count(c, m) + Count(<<>>, m)
  <2>1. mBytes[m].mReferenceCount \in Nat /\ leaked[m] \in Nat
    BY <1>1 DEF BytesThere
  <2>2. Count(<<>>, m) = 0
    BY <1>2
  <2>. QED
    BY <1>5, <1>7, <2>1, <2>2
<1>. QED
  BY <1>2, <1>3, <1>4, <1>6, <1>7, <1>8, NoneUnderWay, OneChanges DEF c

\* Looking at an iterator moves it to its block's first byte at least.
LEMMA EnsuredIs ==
  ASSUME Books, NEW b \in Buffers
  PROVE  Ensured(b) \in Iterators /\ InPlace(mBlocks[b], Ensured(b))
<1>. DEFINE c == mBlocks[b]
            it == mIterator[b]
<1>1. c \in Seq(Windows) /\ it \in Iterators /\ InPlace(c, it) /\ DOMAIN c = 1..Len(c)
      /\ Len(c) \in Nat
  BY BooksTyped, LenProperties DEF Books, IteratorsThere
<1>2. CASE it.mBlock # 0
  <2>1. it.mBlock \in 1..Len(c) /\ it.mPosition <= c[it.mBlock].mEnd /\ it.mPosition \in Int
        /\ it.mBlock \in Nat
    BY <1>1, <1>2 DEF InPlace, Iterators
  <2>2. c[it.mBlock].mStart \in Nat /\ c[it.mBlock].mEnd \in Nat
        /\ c[it.mBlock].mStart <= c[it.mBlock].mEnd
    BY <1>1, <2>1, WindowIs, ElementOfSeq, SMTT(60)
  <2>. DEFINE n == Sets!Max({it.mPosition, c[it.mBlock].mStart})
  <2>3. n \in Int /\ n <= c[it.mBlock].mEnd
    <3>1. n = IF c[it.mBlock].mStart <= it.mPosition THEN it.mPosition ELSE c[it.mBlock].mStart
      BY <2>1, <2>2, MaxOfTwo
    <3>. HIDE DEF n
    <3>. QED
      BY <2>1, <2>2, <3>1
  <2>4. Ensured(b) = [mBlock |-> it.mBlock, mPosition |-> n]
    BY <1>1, <1>2 DEF Ensured, Iterators
  <2>. HIDE DEF n
  <2>. QED
    BY <1>1, <2>1, <2>3, <2>4 DEF Iterators, InPlace
<1>3. CASE it.mBlock = 0 /\ c = <<>>
  <2>1. Ensured(b) = Unstarted
    BY <1>3 DEF Ensured
  <2>. QED
    BY <2>1 DEF Unstarted, Iterators, InPlace
<1>4. CASE it.mBlock = 0 /\ c # <<>>
  <2>1. Ensured(b) = [mBlock |-> 1, mPosition |-> c[1].mStart]
    BY <1>4 DEF Ensured
  <2>2. Len(c) \in Nat \ {0}
    BY <1>1, <1>4, EmptySeq
  <2>3. 1 \in 1..Len(c)
    BY <2>2
  <2>4. c[1].mStart \in Nat /\ c[1].mEnd \in Nat /\ c[1].mStart <= c[1].mEnd
    BY <1>1, <2>3, WindowIs, ElementOfSeq
  <2>. QED
    BY <1>1, <2>1, <2>3, <2>4 DEF Iterators, InPlace
<1>. QED
  BY <1>2, <1>3, <1>4

\* An iterator goes on in the first block that has a byte behind the length, or
\* to the end of the last one.
LEMMA AdvancedIs ==
  ASSUME Books, NEW b \in Buffers, NEW length \in Nat
  PROVE  Advanced(b, length) \in Iterators /\ InPlace(mBlocks[b], Advanced(b, length))
<1>. DEFINE c == mBlocks[b]
            it == Ensured(b)
            to == offset(b) + length
            on == {k \in BlocksOf(b) : k >= it.mBlock /\ to < blockOffset(b, k + 1)}
            last == Len(c)
            k == Sets!Min(on)
<1>1. c \in Seq(Windows) /\ DOMAIN c = 1..Len(c) /\ Len(c) \in Nat
  BY BooksTyped, LenProperties DEF Books
<1>2. it \in Iterators /\ InPlace(c, it)
  BY EnsuredIs
<1>3. /\ Sizes(c) \in [0..Len(c) -> Nat]
      /\ \A j \in 1..Len(c) : Sizes(c)[j] = Sizes(c)[j - 1] + size(c[j])
  BY <1>1, SizesAre
<1>4. CASE it.mBlock = 0
  <2>1. Advanced(b, length) = Unstarted
    BY <1>4 DEF Advanced
  <2>. QED
    BY <2>1 DEF Unstarted, Iterators, InPlace
<1>5. CASE it.mBlock # 0 /\ on = {}
  <2>1. Advanced(b, length) = [mBlock |-> last, mPosition |-> c[last].mEnd]
    BY <1>5 DEF Advanced
  <2>2. it.mBlock \in 1..Len(c)
    BY <1>1, <1>2, <1>5 DEF InPlace
  <2>3. last \in 1..Len(c) /\ last \in Nat
    BY <1>1, <2>2
  <2>4. c[last].mEnd \in Nat
    BY <1>1, <2>3, WindowIs, ElementOfSeq
  <2>. HIDE DEF on, to, it, last
  <2>. QED
    BY <1>1, <2>1, <2>3, <2>4 DEF Iterators, InPlace
<1>6. CASE it.mBlock # 0 /\ on # {}
  <2>1. Advanced(b, length)
          = [mBlock |-> k, mPosition |-> c[k].mStart + to - blockOffset(b, k)]
    BY <1>6 DEF Advanced
  <2>2. it.mBlock \in 1..Len(c) /\ it.mPosition \in Int
    BY <1>1, <1>2, <1>6 DEF InPlace, Iterators
  <2>3. offset(b) = Sizes(c)[it.mBlock - 1] + it.mPosition - c[it.mBlock].mStart
    BY <1>6 DEF offset, blockOffset
  <2>4. offset(b) \in Int
    <3>1. it.mBlock - 1 \in 0..Len(c) /\ c[it.mBlock].mStart \in Nat
      BY <1>1, <2>2, WindowIs, ElementOfSeq, SMTT(60)
    <3>2. Sizes(c)[it.mBlock - 1] \in Nat
      BY <1>3, <3>1
    <3>. HIDE DEF it, c
    <3>. QED
      BY <2>2, <2>3, <3>1, <3>2
  <2>5. to \in Int
    BY <2>4
  <2>6. on \in SUBSET Nat
    BY <1>1 DEF BlocksOf
  <2>. HIDE DEF to, it
  <2>7. k \in on
    <3>. HIDE DEF on
    <3>. QED
      BY <1>6, <2>6, MinIs
  <2>8. k \in 1..Len(c) /\ to < blockOffset(b, k + 1)
    BY <1>1, <2>7 DEF BlocksOf
  <2>. HIDE DEF on, k
  <2>9. blockOffset(b, k + 1) = Sizes(c)[k] /\ blockOffset(b, k) = Sizes(c)[k - 1]
    <3>1. (k + 1) - 1 = k
      BY <1>1, <2>8
    <3>. QED
      BY <3>1 DEF blockOffset
  <2>10. /\ Sizes(c)[k] = Sizes(c)[k - 1] + size(c[k]) /\ Sizes(c)[k - 1] \in Nat
         /\ size(c[k]) = c[k].mEnd - c[k].mStart /\ c[k].mEnd \in Nat /\ c[k].mStart \in Nat
    <3>1. k - 1 \in 0..Len(c) /\ c[k] \in Windows
      BY <1>1, <2>8, ElementOfSeq
    <3>. QED
      <4>1. Sizes(c)[k] = Sizes(c)[k - 1] + size(c[k]) /\ Sizes(c)[k - 1] \in Nat
        BY <1>3, <2>8, <3>1
      <4>2. /\ size(c[k]) = c[k].mEnd - c[k].mStart
            /\ c[k].mEnd \in Nat /\ c[k].mStart \in Nat
        BY <3>1, WindowIs
      <4>. QED
        BY <4>1, <4>2
  <2>. DEFINE n == c[k].mStart + to - blockOffset(b, k)
  <2>11. n \in Int /\ n <= c[k].mEnd
    <3>1. n = c[k].mStart + to - Sizes(c)[k - 1] /\ to < Sizes(c)[k]
      BY <2>8, <2>9
    <3>. HIDE DEF n
    <3>. QED
      BY <2>5, <2>10, <3>1
  <2>12. Advanced(b, length) = [mBlock |-> k, mPosition |-> n] /\ k \in Nat
    BY <1>1, <2>1, <2>8
  <2>. HIDE DEF n
  <2>. QED
    BY <1>1, <2>8, <2>11, <2>12 DEF Iterators, InPlace
<1>. QED
  BY <1>4, <1>5, <1>6

\* An iterator moves, and nothing else.
LEMMA IteratorStep ==
  ASSUME Books, NEW b \in Buffers, NEW it \in Iterators, InPlace(mBlocks[b], it), Idle,
         mIterator' = [mIterator EXCEPT ![b] = it],
         UNCHANGED <<mBytes, mBlocks, mSize, push, leaked, writes>>
  PROVE  Books'
<1>1. mIterator \in [Buffers -> Iterators] /\ \A a \in Buffers : InPlace(mBlocks[a], mIterator[a])
  BY BooksTyped DEF Books, IteratorsThere
<1>2. /\ mIterator' \in [Buffers -> Iterators]
      /\ \A a \in Buffers : InPlace(mBlocks[a], mIterator'[a])
  BY <1>1
<1>3. push' \in {NoPush} \cup [on : {TRUE}, buffer : Buffers, left : Seq(Chars), at : Nat]
  BY NoneUnderWay
<1>4. PushReady'
  BY NoneUnderWay
<1>. QED
  BY <1>2, <1>3, <1>4, BlocksKept

LEMMA ReadingStep ==
  ASSUME Books, NEW b \in Readers,
         ensureBlock(b) \/ \E length \in 1..mBlockSize : advance(b, length)
  PROVE  Books'
<1>1. b \in Buffers
  BY BufferAssumption, Zenon DEF BufferAssumption
<1>2. ASSUME ensureBlock(b) PROVE Books'
  <2>1. /\ Idle /\ mIterator' = [mIterator EXCEPT ![b] = Ensured(b)]
        /\ UNCHANGED <<mBytes, mBlocks, mSize, push, leaked, writes>>
    BY <1>2 DEF ensureBlock
  <2>. QED
    BY <1>1, <2>1, EnsuredIs, IteratorStep
<1>3. ASSUME NEW length \in 1..mBlockSize, advance(b, length) PROVE Books'
  <2>1. /\ Idle /\ mIterator' = [mIterator EXCEPT ![b] = Advanced(b, length)]
        /\ UNCHANGED <<mBytes, mBlocks, mSize, push, leaked, writes>>
    BY <1>3 DEF advance
  <2>2. length \in Nat
    BY BlockSizeIs
  <2>. QED
    BY <1>1, <2>1, <2>2, AdvancedIs, IteratorStep
<1>. QED
  BY <1>2, <1>3

-----------------------------------------------------------------------------
LEMMA BooksInitially ==
  ASSUME BufferInit PROVE Books
<1>1. BufferTypeOK
  <2>1. mBlocks \in [Buffers -> Seq(Windows)]
    BY NoBlocks DEF BufferInit
  <2>2. mBytes \in [1..MaxBytes -> BytesThere]
    BY BlockSizeIs DEF BufferInit, FreeBytes, BytesThere
  <2>3. mIterator \in [Buffers -> Iterators]
    BY DEF BufferInit, Iterators, Unstarted
  <2>. QED
    BY <2>1, <2>2, <2>3 DEF BufferInit, BufferTypeOK, BytesThere, Iterators
<1>2. SizeAgrees
  BY NoBlocks DEF BufferInit, SizeAgrees
<1>3. CountsAgree
  <2>1. ASSUME NEW m PROVE On(m) = {}
    BY DEF BufferInit, On, BlocksOf
  <2>2. Cardinality({}) = 0
    BY FS_EmptySet
  <2>. QED
    <3>1. \A m \in 1..MaxBytes : mBytes[m].mReferenceCount = 0 /\ leaked[m] = 0
      BY DEF BufferInit, FreeBytes
    <3>2. DOMAIN mBytes = 1..MaxBytes
      BY DEF BufferInit
    <3>. QED
      BY <2>1, <2>2, <3>1, <3>2, SMTT(60) DEF CountsAgree
<1>4. IteratorsThere
  BY DEF BufferInit, IteratorsThere, InPlace, Unstarted
<1>5. PushReady
  BY DEF BufferInit, PushReady
<1>. QED
  BY <1>1, <1>2, <1>3, <1>4, <1>5 DEF Books

LEMMA BooksStep ==
  ASSUME Books, [BufferNext]_bufferVars, "readers" \notin Liberties PROVE Books'
<1>1. CASE PushToBlock
  BY <1>1, PushStep
<1>2. ASSUME NEW b \in Buffers, NEW string \in Strings, append(b, string) PROVE Books'
  BY <1>2, AppendStep
<1>3. ASSUME NEW b \in Buffers, NEW string \in Reads, pushed(b, string) PROVE Books'
  BY <1>3, PushedStep
<1>4. ASSUME NEW b \in Edited, NEW string \in Strings, NEW at \in 0..mSize[b],
             insert(b, at, string)
      PROVE  Books'
  <2>1. b \in Buffers
    BY BufferAssumption, Zenon DEF BufferAssumption
  <2>2. at \in Nat
    BY BooksTyped, <2>1 DEF Books
  <2>. QED
    BY <1>4, <2>1, <2>2, InsertStep
<1>5. ASSUME NEW b \in Buffers, NEW length \in 1..mBlockSize, ensurePushLength(b, length)
      PROVE  Books'
  BY <1>5, EnsurePushStep
<1>6. ASSUME NEW b \in Buffers, NEW buffer \in Buffers, appendBuffer(b, buffer) PROVE Books'
  BY <1>6, AppendBufferStep
<1>7. ASSUME NEW b \in Buffers, NEW buffer \in Buffers, NEW at \in 0..mSize[b],
             NEW length \in 0..mSize[b], region(b, at, length, buffer)
      PROVE  Books'
  BY <1>7, RegionStep
<1>8. ASSUME NEW b \in Buffers, (\E length \in 0..mSize[b] : popped(b, length)) \/ poppedAll(b)
      PROVE  Books'
  BY <1>8, PoppedIsStep
<1>9. ASSUME NEW b \in Buffers, delete(b) PROVE Books'
  BY <1>9, DeleteStep
<1>10. ASSUME NEW b \in Readers,
              ensureBlock(b) \/ \E length \in 1..mBlockSize : advance(b, length)
       PROVE  Books'
  BY <1>10, ReadingStep
<1>11. CASE UNCHANGED bufferVars
  <2>. USE <1>11 DEF bufferVars
  <2>1. IteratorsThere' /\ PushReady'
    BY DEF Books, IteratorsThere, PushReady, Free
  <2>2. mIterator' \in [Buffers -> Iterators] /\ \A b \in Buffers : InPlace(mBlocks[b], mIterator'[b])
    BY BooksTyped DEF Books, IteratorsThere
  <2>3. push' \in {NoPush} \cup [on : {TRUE}, buffer : Buffers, left : Seq(Chars), at : Nat]
    BY DEF Books, BufferTypeOK
  <2>. QED
    BY <2>1, <2>2, <2>3, BlocksKept
<1>. QED
  BY <1>1, <1>2, <1>3, <1>4, <1>5, <1>6, <1>7, <1>8, <1>9, <1>10, <1>11 DEF BufferNext

\* What is kept beside the blocks of all buffers, and of the write under way,
\* is as the code takes it to be after each step, also for callers that fill
\* blocks, with any number of counted bytes, and lengths that wrap as they do,
\* if nothing is inserted before a place where an iterator is.
THEOREM BooksAreKept ==
  ASSUME "readers" \notin Liberties
  PROVE  BufferSpec => []Books
<1>1. BufferInit => Books
  BY BooksInitially
<1>2. Books /\ [BufferNext]_bufferVars => Books'
  BY BooksStep
<1>. QED
  BY <1>1, <1>2, PTL DEF BufferSpec

\* Blocks are windows within the memory of counted bytes, and every size, count
\* and offset is in its range.
THEOREM BufferTypeCorrect ==
  ASSUME "readers" \notin Liberties
  PROVE  BufferSpec => []BufferTypeOK
<1>1. Books => BufferTypeOK
  BY DEF Books
<1>. QED
  BY <1>1, BooksAreKept, PTL

\* A buffer's size is what its blocks show, bytes have as many references as
\* blocks, and iterators are on blocks there are, however the buffers that share
\* bytes grow, shrink and go (buffer.h:116, 216, 944), if nothing is inserted
\* before a place where an iterator is.
THEOREM BookkeepingIsKept ==
  ASSUME "readers" \notin Liberties
  PROVE  BufferSpec => []BookkeepingAgrees
<1>1. Books => BookkeepingAgrees
  BY PlacesAgree
<1>. QED
  BY <1>1, BooksAreKept, PTL

==============================================================================

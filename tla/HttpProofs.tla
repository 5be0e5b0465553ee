----------------------------- MODULE HttpProofs -----------------------------
(***************************************************************************)
(* Http, whatever is asked and however the input is cut: if peers wait for *)
(* replies and nothing comes behind an error, no call goes to a request    *)
(* that is deleted, and the replies on the wire are whole and in order.    *)
(***************************************************************************)
EXTENDS Http, TLAPS, SequenceTheorems

-----------------------------------------------------------------------------
(* What is on the wire *)

Piece == [of : Nat, part : {"status", "length", "data"}, size : Nat]

Before(w, k) == IF k = 1 THEN [of |-> 0, part |-> "data", size |-> 0] ELSE w[k - 1]

\* What may follow a piece.
Fits(before, e) ==
  CASE e.part = "status" -> before.part = "data" /\ e.of > before.of
    [] e.part = "length" -> before.part = "status" /\ e.of = before.of
    [] OTHER -> before.part = "length" /\ e.of = before.of /\ e.size = before.size

Whole(w) == \A k \in DOMAIN w : Fits(Before(w, k), w[k])

Last(w) == Before(w, Len(w) + 1)

HasReplied(w, i) == \E k \in DOMAIN w : w[k].of = i /\ w[k].part = "length"
Of(w) == {w[k].of : k \in DOMAIN w}

\* A piece that fits is written.
LEMMA Written ==
  ASSUME NEW w \in Seq(Piece), NEW e \in Piece, Whole(w), Fits(Last(w), e)
  PROVE  /\ Append(w, e) \in Seq(Piece) /\ Append(w, e) # <<>>
         /\ Whole(Append(w, e)) /\ Last(Append(w, e)) = e
         /\ \A i : HasReplied(Append(w, e), i) <=>
              HasReplied(w, i) \/ (e.part = "length" /\ e.of = i)
         /\ Of(Append(w, e)) = Of(w) \cup {e.of}
<1>. DEFINE v == Append(w, e)
            n == Len(w) + 1
<1>1. /\ v \in Seq(Piece) /\ Len(v) = n /\ Len(w) \in Nat /\ DOMAIN w = 1..Len(w)
      /\ DOMAIN v = 1..n
      /\ \A k \in 1..Len(w) : v[k] = w[k]
      /\ v[n] = e
  BY AppendProperties
<1>. HIDE DEF v
<1>2. n # 1 => Len(w) \in 1..Len(w) /\ n - 1 = Len(w)
  BY <1>1
<1>3. Before(v, n) = Last(w)
  BY <1>1, <1>2 DEF Before, Last
<1>4. \A k \in 1..Len(w) : Before(v, k) = Before(w, k)
  <2>1. \A k \in 1..Len(w) : k = 1 \/ k - 1 \in 1..Len(w)
    BY <1>1
  <2>. QED
    BY <1>1, <2>1 DEF Before
<1>5. \A k \in 1..n : k = n \/ k \in 1..Len(w)
  BY <1>1
<1>6. Whole(v)
  BY <1>1, <1>3, <1>4, <1>5 DEF Whole
<1>7. Last(v) = e
  <2>1. Len(v) + 1 # 1 /\ Len(v) + 1 - 1 = n
    BY <1>1
  <2>. QED
    BY <1>1, <2>1 DEF Last, Before
<1>8. n \in 1..n /\ 1..Len(w) \subseteq 1..n
  BY <1>1
<1>9. \A i : HasReplied(v, i) <=> HasReplied(w, i) \/ (e.part = "length" /\ e.of = i)
  BY <1>1, <1>5, <1>8 DEF HasReplied
<1>10. \A x : x \in Of(v) <=> x \in Of(w) \cup {e.of}
  BY <1>1, <1>5, <1>8 DEF Of
<1>11. v # <<>>
  BY <1>1, <1>8
<1>. QED
  BY <1>1, <1>6, <1>7, <1>9, <1>10, <1>11 DEF v

\* Several pieces are written one by one.
LEMMA Pieces ==
  ASSUME NEW w \in Seq(Piece), NEW a \in Piece, NEW b \in Piece, NEW c \in Piece
  PROVE  /\ w \o (<<>> \o <<a, b>>) = Append(Append(w, a), b)
         /\ w \o (<<a>> \o <<b, c>>) = Append(Append(Append(w, a), b), c)
<1>. HIDE DEF Piece
<1>1. <<>> \o <<a, b>> = <<a>> \o <<b>> /\ <<a>> \o <<b, c>> = (<<a>> \o <<b>>) \o <<c>>
  <2>1. /\ <<>> \in Seq(Piece) /\ <<a>> \in Seq(Piece) /\ <<b>> \in Seq(Piece) /\ <<c>> \in Seq(Piece)
        /\ <<a, b>> \in Seq(Piece) /\ <<b, c>> \in Seq(Piece)
        /\ Len(<<a>>) = 1 /\ Len(<<b>>) = 1 /\ Len(<<c>>) = 1
        /\ Len(<<a, b>>) = 2 /\ Len(<<b, c>>) = 2
    OBVIOUS
  <2>2. \A p, q \in Piece :
          /\ <<p>> \o <<q>> \in Seq(Piece) /\ Len(<<p>> \o <<q>>) = 2
          /\ (<<p>> \o <<q>>)[1] = p /\ (<<p>> \o <<q>>)[2] = q
    <3>1. TAKE p, q \in Piece
    <3>2. <<p>> \in Seq(Piece) /\ Len(<<p>>) = 1 /\ <<q>> \in Seq(Piece) /\ Len(<<q>>) = 1
      OBVIOUS
    <3>. QED
      BY <3>2, ConcatProperties
  <2>3. \A p, q \in Piece : <<p, q>> = <<p>> \o <<q>>
    <3>1. TAKE p, q \in Piece
    <3>2. <<p, q>> \in Seq(Piece) /\ Len(<<p, q>>) = 2
      OBVIOUS
    <3>3. \A i \in 1..Len(<<p, q>>) : <<p, q>>[i] = (<<p>> \o <<q>>)[i]
      BY <2>2
    <3>4. <<p>> \o <<q>> \in Seq(Piece) /\ Len(<<p, q>>) = Len(<<p>> \o <<q>>)
      BY <2>2, <3>2
    <3>. DEFINE s == <<p, q>>
                t == <<p>> \o <<q>>
    <3>5. s \in Seq(Piece) /\ t \in Seq(Piece) /\ Len(s) = Len(t) /\ \A i \in 1..Len(s) : s[i] = t[i]
      BY <3>2, <3>3, <3>4
    <3>. HIDE DEF s, t
    <3>6. s = t
      BY <3>5, SeqEqual
    <3>. QED
      BY <3>6 DEF s, t
  <2>4. <<a>> \o (<<b>> \o <<c>>) = (<<a>> \o <<b>>) \o <<c>>
    BY <2>1, ConcatAssociative
  <2>5. <<>> \o <<a, b>> = <<a, b>>
    BY <2>1, ConcatEmptySeq
  <2>. QED
    BY <2>3, <2>4, <2>5
<1>2. \A u \in Seq(Piece), e \in Piece :
        /\ <<e>> \in Seq(Piece) /\ u \o <<e>> \in Seq(Piece)
        /\ Append(u, e) = u \o <<e>> /\ Append(u, e) \in Seq(Piece)
  BY AppendIsConcat, AppendProperties, ConcatProperties
<1>3. /\ w \o (<<a>> \o <<b>>) = (w \o <<a>>) \o <<b>>
      /\ w \o ((<<a>> \o <<b>>) \o <<c>>) = (w \o (<<a>> \o <<b>>)) \o <<c>>
  <2>1. /\ <<a>> \in Seq(Piece) /\ <<b>> \in Seq(Piece) /\ <<c>> \in Seq(Piece)
        /\ <<a>> \o <<b>> \in Seq(Piece)
    BY <1>2
  <2>. QED
    BY <2>1, ConcatAssociative
<1>4. Append(Append(w, a), b) = (w \o <<a>>) \o <<b>>
  <2>1. Append(w, a) \in Seq(Piece) /\ Append(w, a) = w \o <<a>>
    BY <1>2
  <2>. QED
    BY <1>2, <2>1
<1>5. Append(Append(Append(w, a), b), c) = ((w \o <<a>>) \o <<b>>) \o <<c>>
  <2>1. Append(Append(w, a), b) \in Seq(Piece)
    BY <1>2
  <2>. QED
    BY <1>2, <1>4, <2>1
<1>. QED
  BY <1>1, <1>3, <1>4, <1>5

-----------------------------------------------------------------------------
(* The inductive invariant *)

Typed ==
  /\ mData \in Seq(Nat) /\ wire \in Seq(Piece)
  /\ mHttpRequest \in {0, Len(mData)}
  /\ live \subseteq 1..Len(mData) /\ held \subseteq 1..Len(mData)
  /\ mStatusSent \subseteq 1..Len(mData)

\* A request that is being received exists, unless an error was met, and the
\* state is one of a request: the parser does not lose it.
Alive ==
  /\ mHttpRequest # 0 => mState \in InRequest /\ (mHttpRequest \in live \/ failed)
  /\ receiving /\ mState \in InRequest => mHttpRequest \in live

\* Requests take turns: when one is made, those before it have been replied to.
Turns ==
  /\ \A i \in 1..Len(mData) : i # Len(mData) => HasReplied(wire, i)
  /\ receiving /\ mHttpRequest = 0 => \A i \in 1..Len(mData) : HasReplied(wire, i)

\* The wire ends behind a whole reply, or behind the status of the one request
\* that is not replied to; only a held one has its status sent early.
Ending ==
  /\ Whole(wire) /\ Last(wire).part # "length"
  /\ Last(wire).part = "status" => ~HasReplied(wire, Last(wire).of)
  /\ wire # <<>> /\ Last(wire).part = "data" => HasReplied(wire, Last(wire).of)
  /\ Last(wire).of \in Of(wire) \cup {0} /\ Of(wire) \subseteq mStatusSent
  /\ \A i \in mStatusSent :
       HasReplied(wire, i) \/ (Last(wire).part = "status" /\ Last(wire).of = i)
  /\ mStatusSent \cap live \subseteq held

Inv == Typed /\ Alive /\ Turns /\ Ending

-----------------------------------------------------------------------------
(* The steps of process() *)

\* It goes on in the same request, or before one,
Quiet ==
  /\ UNCHANGED <<mHttpRequest, live, failed, replies>>
  /\ mState' \in InRequest <=> mState \in InRequest

\* fails,
Fails ==
  /\ receiving' = FALSE /\ failed' = TRUE
  /\ live' = live \ {mHttpRequest} /\ UNCHANGED <<mHttpRequest, replies>>
  /\ mState' \in InRequest <=> mState \in InRequest

\* makes a request,
Makes ==
  \E own \in BOOLEAN :
    /\ mState \notin InRequest /\ mState' \in InRequest
    /\ mHttpRequest' = Len(mData) + 1 /\ live' = live \cup {Len(mData) + 1}
    /\ held' = (IF own THEN held \cup {Len(mData) + 1} ELSE held)
    /\ mData' = Append(mData, 0) /\ UNCHANGED <<mStatusSent, wire, failed>>

\* or ends it.
EndsIt ==
  /\ mState \in InRequest /\ mHttpRequest' = 0 /\ receiving' = FALSE
  /\ UNCHANGED <<failed, held, mData>>
  /\ IF mHttpRequest \in held
       THEN UNCHANGED <<live, mStatusSent, wire>>
       ELSE live' = live \ {mHttpRequest} /\ SendReply(mHttpRequest, 0)

LEMMA Kinds == process => Quiet \/ Fails \/ Makes \/ EndsIt
<1>. SUFFICES ASSUME process PROVE Quiet \/ Fails \/ Makes \/ EndsIt
  OBVIOUS
<1>1. ASSUME Tokens, UNCHANGED replies PROVE Quiet \/ Fails
  <2>1. CASE Method \/ Uri
    BY <1>1, <2>1 DEF Method, Uri, Ends, PopFound, Found, Quiet, InRequest
  <2>2. CASE Key \/ Value \/ HeadersEnd
    BY <1>1, <2>2 DEF Key, Value, HeadersEnd, LastHeader, Ends, PopFound, Found, Quiet, InRequest
  <2>3. CASE UnknownVersion
    BY <1>1, <2>3 DEF UnknownVersion, Ends, Error, Close, Fails, InRequest
  <2>4. ASSUME NEW pre, NEW state, NEW terms, Incomplete(pre, state, terms),
               pre \in InRequest <=> state \in InRequest
        PROVE  Quiet
    BY <1>1, <2>4 DEF Incomplete, NotFound, Quiet, replies
  <2>5. ASSUME NEW pre, NEW state, NEW terms, NEW fail, Malformed(pre, state, terms, fail),
               pre \in InRequest <=> state \in InRequest
        PROVE  Fails
    BY <1>1, <2>5 DEF Malformed, Ends, Error, Close, Fails, replies
  <2>6. ASSUME NEW state \in {"REQUEST_LINE_EOL", "HEADER_EOL"}, EndOfLine(state)
        PROVE  Quiet
    BY <1>1, <2>6 DEF EndOfLine, PopFound, Found, Quiet, InRequest
  <2>7. ASSUME NEW state, NoEndOfLine(state) PROVE Fails
    BY <1>1, <2>7 DEF NoEndOfLine, Error, Close, Fails
  <2>8. /\ "PRE_METHOD" \notin InRequest /\ "METHOD" \notin InRequest
        /\ "PRE_URI" \notin InRequest /\ "URI" \notin InRequest
        /\ "PRE_VERSION" \notin InRequest /\ "VERSION" \notin InRequest
        /\ "PRE_KEY" \in InRequest /\ "KEY" \in InRequest
        /\ "PRE_VALUE" \in InRequest /\ "VALUE" \in InRequest
    BY DEF InRequest
  <2>. QED
    BY <1>1, <2>1, <2>2, <2>3, <2>4, <2>5, <2>6, <2>7, <2>8 DEF Tokens
<1>2. ASSUME NEW own \in BOOLEAN, Version(own), mData' = Append(mData, 0),
             UNCHANGED <<mStatusSent, wire>>
      PROVE  Makes
  BY <1>2 DEF Version, Ends, PopFound, Found, Makes, InRequest
<1>3. CASE NoData
  BY <1>3 DEF NoData, RequestEnd, EndsIt, InRequest
<1>4. CASE DataFollows
  BY <1>4 DEF DataFollows, PopFound, Found, Quiet, InRequest
<1>5. CASE Data
  BY <1>5 DEF Data, NotFound, Quiet
<1>6. CASE LastData
  BY <1>6 DEF LastData, RequestEnd, EndsIt, InRequest
<1>. QED
  BY <1>1, <1>2, <1>3, <1>4, <1>5, <1>6 DEF process

-----------------------------------------------------------------------------
(* Replies *)

\* Only the newest request is open; and the wire is ready for it.
LEMMA Open ==
  ASSUME Inv, NEW i \in 1..Len(mData), ~HasReplied(wire, i)
  PROVE  /\ i = Len(mData) /\ i \in Nat /\ Len(mData) \in Nat
         /\ i \in mStatusSent => Last(wire).part = "status" /\ Last(wire).of = i
         /\ i \notin mStatusSent => Last(wire).part = "data" /\ i > Last(wire).of
         /\ Last(wire) \in Piece
<1>1. i = Len(mData) /\ i \in Nat /\ Len(mData) \in Nat
  BY DEF Inv, Typed, Turns
<1>2. i \in mStatusSent => Last(wire).part = "status" /\ Last(wire).of = i
  BY DEF Inv, Ending
<1>3. Last(wire) \in Piece
  <2>1. wire \in Seq(Piece) /\ Len(wire) \in Nat
    BY DEF Inv, Typed
  <2>2. Len(wire) + 1 # 1 => Len(wire) + 1 - 1 \in 1..Len(wire)
    BY <2>1
  <2>3. [of |-> 0, part |-> "data", size |-> 0] \in Piece
    BY DEF Piece
  <2>. HIDE DEF Piece
  <2>4. CASE Len(wire) + 1 = 1
    BY <2>3, <2>4 DEF Last, Before
  <2>5. CASE Len(wire) + 1 # 1
    BY <2>1, <2>2, <2>5 DEF Last, Before
  <2>. QED
    BY <2>4, <2>5
<1>4. ASSUME i \notin mStatusSent
      PROVE  Last(wire).part = "data" /\ i > Last(wire).of
  <2>1. Last(wire).of \in {0} \cup 1..Len(mData) /\ Last(wire).of # i
    <3>1. /\ Last(wire).of \in Of(wire) \cup {0} /\ Of(wire) \subseteq mStatusSent
          /\ mStatusSent \subseteq 1..Len(mData) /\ i # 0
      BY DEF Inv, Typed, Ending
    <3>. QED
      BY <1>4, <3>1
  <2>2. Last(wire).of < i
    BY <1>1, <2>1
  <2>3. Last(wire).part # "status"
    <3>1. Last(wire).part = "status" => Last(wire).of # 0
      <4>1. Len(wire) + 1 = 1 => Last(wire).part = "data"
        BY DEF Last, Before
      <4>2. Len(wire) \in Nat /\ \A k \in 1..Len(wire) : wire[k].of \in mStatusSent
        BY DEF Inv, Typed, Ending, Of
      <4>3. Len(wire) + 1 # 1 => Len(wire) + 1 - 1 \in 1..Len(wire) /\ Last(wire).of \in mStatusSent
        BY <4>2 DEF Last, Before
      <4>4. 0 \notin mStatusSent
        BY <1>1 DEF Inv, Typed
      <4>. QED
        BY <4>1, <4>3, <4>4
    <3>2. Last(wire).of \in 1..Len(mData) => HasReplied(wire, Last(wire).of)
      BY <1>1, <2>1 DEF Inv, Turns
    <3>. QED
      BY <2>1, <3>1, <3>2 DEF Inv, Ending
  <2>. QED
    BY <1>3, <2>2, <2>3 DEF Inv, Ending, Piece
<1>. QED
  BY <1>1, <1>2, <1>3, <1>4

\* What sendEnd() writes completes the reply.
LEMMA Ended ==
  ASSUME Inv, NEW i \in 1..Len(mData), ~HasReplied(wire, i), NEW n \in Nat,
         SendReply(i, n)
  PROVE  /\ wire' \in Seq(Piece) /\ Whole(wire')
         /\ Last(wire').part = "data" /\ Last(wire').of = i
         /\ \A j : HasReplied(wire', j) <=> HasReplied(wire, j) \/ j = i
         /\ Of(wire') = Of(wire) \cup {i}
         /\ mStatusSent' = mStatusSent \cup {i}
<1>. DEFINE a == [of |-> i, part |-> "status", size |-> 0]
            b == [of |-> i, part |-> "length", size |-> n]
            c == [of |-> i, part |-> "data", size |-> n]
<1>1. /\ i \in Nat
      /\ i \in mStatusSent => Last(wire).part = "status" /\ Last(wire).of = i
      /\ i \notin mStatusSent => Last(wire).part = "data" /\ i > Last(wire).of
  BY Open
<1>2. /\ a \in Piece /\ b \in Piece /\ c \in Piece
      /\ a.of = i /\ b.of = i /\ c.of = i
      /\ a.part = "status" /\ b.part = "length" /\ c.part = "data"
  BY <1>1 DEF Piece
<1>3. Fits(a, b) /\ Fits(b, c)
  BY DEF Fits
<1>4. wire \in Seq(Piece) /\ Whole(wire)
  BY DEF Inv, Typed, Ending
<1>5. CASE i \in mStatusSent
  <2>1. wire' = wire \o (<<>> \o <<b, c>>)
    BY <1>5 DEF SendReply, Reply
  <2>2. Fits(Last(wire), b)
    BY <1>1, <1>5 DEF Fits
  <2>. HIDE DEF a, b, c
  <2>3. wire' = Append(Append(wire, b), c)
    BY <1>2, <1>4, <2>1, Pieces
  <2>4. /\ Append(wire, b) \in Seq(Piece) /\ Whole(Append(wire, b)) /\ Last(Append(wire, b)) = b
        /\ \A j : HasReplied(Append(wire, b), j) <=> HasReplied(wire, j) \/ j = i
        /\ Of(Append(wire, b)) = Of(wire) \cup {i}
    BY <1>2, <1>4, <2>2, Written
  <2>. DEFINE v == Append(wire, b)
  <2>5. /\ v \in Seq(Piece) /\ Whole(v) /\ Last(v) = b /\ wire' = Append(v, c)
        /\ \A j : HasReplied(v, j) <=> HasReplied(wire, j) \/ j = i
        /\ Of(v) = Of(wire) \cup {i}
    BY <2>3, <2>4
  <2>. HIDE DEF v
  <2>6. /\ Append(v, c) \in Seq(Piece) /\ Whole(Append(v, c)) /\ Last(Append(v, c)) = c
        /\ \A j : HasReplied(Append(v, c), j) <=> HasReplied(wire, j) \/ j = i
        /\ Of(Append(v, c)) = Of(wire) \cup {i}
    BY <1>2, <1>3, <2>5, Written
  <2>. QED
    BY <1>2, <2>5, <2>6 DEF SendReply
<1>6. CASE i \notin mStatusSent
  <2>1. wire' = wire \o (<<a>> \o <<b, c>>)
    BY <1>6 DEF SendReply, Reply
  <2>2. Fits(Last(wire), a)
    BY <1>1, <1>6 DEF Fits
  <2>. HIDE DEF a, b, c
  <2>3. wire' = Append(Append(Append(wire, a), b), c)
    BY <1>2, <1>4, <2>1, Pieces
  <2>4. /\ Append(wire, a) \in Seq(Piece) /\ Whole(Append(wire, a)) /\ Last(Append(wire, a)) = a
        /\ \A j : HasReplied(Append(wire, a), j) <=> HasReplied(wire, j)
        /\ Of(Append(wire, a)) = Of(wire) \cup {i}
    BY <1>2, <1>4, <2>2, Written
  <2>. DEFINE v == Append(wire, a)
  <2>. HIDE DEF v
  <2>5. /\ Append(v, b) \in Seq(Piece) /\ Whole(Append(v, b)) /\ Last(Append(v, b)) = b
        /\ \A j : HasReplied(Append(v, b), j) <=> HasReplied(wire, j) \/ j = i
        /\ Of(Append(v, b)) = Of(wire) \cup {i}
    <3>1. /\ v \in Seq(Piece) /\ Whole(v) /\ Last(v) = a
          /\ \A j : HasReplied(v, j) <=> HasReplied(wire, j)
          /\ Of(v) = Of(wire) \cup {i}
      BY <2>4 DEF v
    <3>. QED
      BY <1>2, <1>3, <3>1, Written
  <2>. DEFINE w == Append(v, b)
  <2>6. /\ w \in Seq(Piece) /\ Whole(w) /\ Last(w) = b /\ wire' = Append(w, c)
        /\ \A j : HasReplied(w, j) <=> HasReplied(wire, j) \/ j = i
        /\ Of(w) = Of(wire) \cup {i}
    BY <2>3, <2>5 DEF v
  <2>. HIDE DEF w
  <2>7. /\ Append(w, c) \in Seq(Piece) /\ Whole(Append(w, c)) /\ Last(Append(w, c)) = c
        /\ \A j : HasReplied(Append(w, c), j) <=> HasReplied(wire, j) \/ j = i
        /\ Of(Append(w, c)) = Of(wire) \cup {i}
    BY <1>2, <1>3, <2>6, Written
  <2>. QED
    BY <1>2, <2>6, <2>7 DEF SendReply
<1>. QED
  BY <1>5, <1>6

-----------------------------------------------------------------------------
(* The invariant holds *)

\* The wire's part of the invariant, when a reply is completed.
LEMMA EndingKept ==
  ASSUME Inv, NEW i \in 1..Len(mData), ~HasReplied(wire, i), NEW n \in Nat,
         SendReply(i, n), mData' = mData, held' = held, live' \subseteq live,
         i \in held \/ i \notin live'
  PROVE  /\ Ending' /\ wire' \in Seq(Piece) /\ mStatusSent' \subseteq 1..Len(mData)
         /\ \A j \in 1..Len(mData) : HasReplied(wire', j)
<1>1. /\ wire' \in Seq(Piece) /\ Whole(wire')
      /\ Last(wire').part = "data" /\ Last(wire').of = i
      /\ \A j : HasReplied(wire', j) <=> HasReplied(wire, j) \/ j = i
      /\ Of(wire') = Of(wire) \cup {i}
      /\ mStatusSent' = mStatusSent \cup {i}
  BY Ended
<1>2. \A j \in 1..Len(mData) : j = i \/ HasReplied(wire, j)
  BY Open DEF Inv, Turns
<1>3. mStatusSent' \subseteq 1..Len(mData)
  BY <1>1 DEF Inv, Typed
<1>4. mStatusSent' \cap live' \subseteq held
  BY <1>1 DEF Inv, Ending
<1>5. Ending'
  BY <1>1, <1>2, <1>3, <1>4 DEF Inv, Ending
<1>. QED
  BY <1>1, <1>2, <1>3, <1>5

LEMMA ProcessStep ==
  ASSUME Inv, receiving, Quiet \/ Fails \/ Makes \/ EndsIt PROVE Inv'
<1>1. Len(mData) \in Nat
  BY DEF Inv, Typed
<1>2. CASE Quiet
  <2>1. Typed' /\ Ending'
    BY <1>2 DEF Quiet, Inv, Typed, Ending, replies
  <2>2. Alive' /\ Turns'
    BY <1>2 DEF Quiet, Inv, Alive, Turns, replies
  <2>. QED
    BY <2>1, <2>2 DEF Inv
<1>3. CASE Fails
  <2>1. Typed' /\ Ending'
    BY <1>3 DEF Fails, Inv, Typed, Ending, replies
  <2>2. Alive' /\ Turns'
    BY <1>3 DEF Fails, Inv, Alive, Turns, replies
  <2>. QED
    BY <2>1, <2>2 DEF Inv
<1>4. CASE Makes
  <2>. DEFINE n == Len(mData) + 1
  <2>1. /\ mHttpRequest = 0 /\ \A i \in 1..Len(mData) : HasReplied(wire, i)
    BY <1>4 DEF Makes, Inv, Alive, Turns
  <2>2. /\ mData' \in Seq(Nat) /\ Len(mData') = n
        /\ 1..Len(mData) \subseteq 1..n /\ n \in 1..n /\ n # 0 /\ n \notin 1..Len(mData)
        /\ \A i \in 1..n : i # n => i \in 1..Len(mData)
    <3>1. mData' = Append(mData, 0) /\ mData \in Seq(Nat) /\ 0 \in Nat
      BY <1>4 DEF Makes, Inv, Typed
    <3>2. mData' \in Seq(Nat) /\ Len(mData') = n
      BY <3>1, AppendProperties
    <3>. QED
      BY <1>1, <3>2
  <2>3. /\ mHttpRequest' = n /\ live' = live \cup {n} /\ held \subseteq held'
        /\ held' \subseteq held \cup {n} /\ mStatusSent' = mStatusSent /\ wire' = wire
        /\ mState' \in InRequest
    BY <1>4 DEF Makes
  <2>. HIDE DEF n
  <2>4. Typed'
    BY <2>2, <2>3 DEF Inv, Typed
  <2>5. Alive' /\ Turns'
    BY <2>1, <2>2, <2>3 DEF Alive, Turns
  <2>6. Ending'
    <3>1. n \notin mStatusSent
      BY <2>2 DEF Inv, Typed
    <3>. QED
      BY <2>3, <3>1 DEF Inv, Ending
  <2>. QED
    BY <2>4, <2>5, <2>6 DEF Inv
<1>5. CASE EndsIt
  <2>1. mHttpRequest \in live /\ mHttpRequest \in 1..Len(mData)
    BY <1>5 DEF EndsIt, Inv, Alive, Typed
  <2>2. mHttpRequest' = 0 /\ receiving' = FALSE /\ held' = held /\ mData' = mData
    BY <1>5 DEF EndsIt
  <2>3. Alive'
    BY <2>2 DEF Alive
  <2>4. CASE mHttpRequest \in held
    <3>1. live' = live /\ mStatusSent' = mStatusSent /\ wire' = wire
      BY <1>5, <2>4 DEF EndsIt
    <3>2. Typed' /\ Turns' /\ Ending'
      BY <2>2, <3>1 DEF Inv, Typed, Turns, Ending
    <3>. QED
      BY <2>3, <3>2 DEF Inv
  <2>5. CASE mHttpRequest \notin held
    <3>1. live' = live \ {mHttpRequest} /\ SendReply(mHttpRequest, 0)
      BY <1>5, <2>5 DEF EndsIt
    <3>2. ~HasReplied(wire, mHttpRequest)
      <4>1. mHttpRequest \notin Of(wire)
        BY <2>1, <2>5 DEF Inv, Ending
      <4>. QED
        BY <4>1 DEF HasReplied, Of
    <3>3. /\ Ending' /\ wire' \in Seq(Piece) /\ mStatusSent' \subseteq 1..Len(mData)
          /\ \A j \in 1..Len(mData) : HasReplied(wire', j)
      BY <2>1, <2>2, <3>1, <3>2, EndingKept
    <3>4. Typed' /\ Turns'
      BY <2>2, <3>1, <3>3 DEF Inv, Typed, Turns
    <3>. QED
      BY <2>3, <3>3, <3>4 DEF Inv
  <2>. QED
    BY <2>4, <2>5
<1>. QED
  BY <1>2, <1>3, <1>4, <1>5

LEMMA RepliedOn == \A i : Replied(i) <=> HasReplied(wire, i)
BY DEF Replied, HasReplied

LEMMA SendStep ==
  ASSUME Inv, NEW i \in 1..Len(mData), sendStatus(i) \/ sendData(i) \/ sendEnd(i)
  PROVE  Inv'
<1>1. /\ i \in held /\ i \in live /\ ~HasReplied(wire, i)
      /\ mHttpRequest' = mHttpRequest /\ mState' = mState /\ receiving' = receiving
      /\ failed' = failed /\ live' = live /\ held' = held
  BY RepliedOn DEF sendStatus, sendData, sendEnd, parser
<1>2. Alive'
  BY <1>1 DEF Inv, Alive
<1>3. CASE sendData(i)
  <2>1. mData' \in Seq(Nat) /\ Len(mData') = Len(mData)
    <3>1. mData' = [mData EXCEPT ![i] = mData[i] + 1] /\ mData \in Seq(Nat)
      BY <1>3 DEF sendData, Inv, Typed
    <3>2. mData[i] + 1 \in Nat
      BY <3>1
    <3>. QED
      BY <3>1, <3>2, ExceptSeq
  <2>2. wire' = wire /\ mStatusSent' = mStatusSent
    BY <1>3 DEF sendData
  <2>3. Typed' /\ Turns' /\ Ending'
    BY <1>1, <2>1, <2>2 DEF Inv, Typed, Turns, Ending
  <2>. QED
    BY <1>2, <2>3 DEF Inv
<1>4. CASE sendEnd(i)
  <2>1. SendReply(i, mData[i]) /\ mData' = mData /\ mData[i] \in Nat
    BY <1>4 DEF sendEnd, Inv, Typed
  <2>2. /\ Ending' /\ wire' \in Seq(Piece) /\ mStatusSent' \subseteq 1..Len(mData)
        /\ \A j \in 1..Len(mData) : HasReplied(wire', j)
    BY <1>1, <2>1, EndingKept
  <2>3. Typed' /\ Turns'
    BY <1>1, <2>1, <2>2 DEF Inv, Typed, Turns
  <2>. QED
    BY <1>2, <2>2, <2>3 DEF Inv
<1>5. CASE sendStatus(i) /\ i \in mStatusSent
  <2>1. mStatusSent' = mStatusSent /\ wire' = wire /\ mData' = mData
    BY <1>5 DEF sendStatus
  <2>2. Typed' /\ Turns' /\ Ending'
    BY <1>1, <2>1 DEF Inv, Typed, Turns, Ending
  <2>. QED
    BY <1>2, <2>2 DEF Inv
<1>6. CASE sendStatus(i) /\ i \notin mStatusSent
  <2>. DEFINE a == [of |-> i, part |-> "status", size |-> 0]
  <2>1. mStatusSent' = mStatusSent \cup {i} /\ wire' = Append(wire, a) /\ mData' = mData
    BY <1>6 DEF sendStatus
  <2>2. /\ i \in Nat /\ i = Len(mData)
        /\ Last(wire).part = "data" /\ i > Last(wire).of
    BY <1>1, <1>6, Open
  <2>3. a \in Piece /\ a.of = i /\ a.part = "status" /\ Fits(Last(wire), a)
    BY <2>2 DEF Piece, Fits
  <2>. HIDE DEF a
  <2>4. /\ wire' \in Seq(Piece) /\ Whole(wire') /\ Last(wire') = a
        /\ \A j : HasReplied(wire', j) <=> HasReplied(wire, j)
        /\ Of(wire') = Of(wire) \cup {i}
    <3>1. wire \in Seq(Piece) /\ Whole(wire)
      BY DEF Inv, Typed, Ending
    <3>. QED
      BY <2>1, <2>3, <3>1, Written
  <2>5. Typed' /\ Turns'
    BY <1>1, <2>1, <2>4 DEF Inv, Typed, Turns
  <2>6. Ending'
    <3>1. \A j \in mStatusSent : HasReplied(wire, j)
      BY <2>2 DEF Inv, Ending
    <3>. QED
      BY <1>1, <2>1, <2>3, <2>4, <3>1 DEF Inv, Ending
  <2>. QED
    BY <1>2, <2>5, <2>6 DEF Inv
<1>. QED
  BY <1>3, <1>4, <1>5, <1>6

LEMMA InvInitially == Init => Inv
<1>. SUFFICES ASSUME Init PROVE Inv
  OBVIOUS
<1>1. Typed /\ Alive /\ Turns
  BY DEF Init, Typed, Alive, Turns, InRequest
<1>2. Ending
  <2>1. /\ wire = <<>> /\ mStatusSent = {} /\ Of(wire) = {} /\ Whole(wire)
        /\ Last(wire) = [of |-> 0, part |-> "data", size |-> 0]
    BY DEF Init, Of, Whole, Last, Before
  <2>. QED
    BY <2>1 DEF Ending
<1>. QED
  BY <1>1, <1>2 DEF Inv

LEMMA InvStep ==
  ASSUME {"error", "pipeline"} \cap Liberties = {}, Inv, [Next]_vars PROVE Inv'
<1>1. CASE process
  BY <1>1, Kinds, ProcessStep DEF process
<1>2. CASE Delivery
  <2>1. /\ MayGoOn /\ MayFollow /\ mState' = mState /\ mHttpRequest' = mHttpRequest
        /\ failed' = failed /\ live' = live /\ UNCHANGED replies
    BY <1>2 DEF Delivery, receive
  <2>2. Typed' /\ Ending'
    BY <2>1 DEF Inv, Typed, Ending, replies
  <2>3. Alive'
    BY <2>1 DEF Inv, Alive, MayGoOn, MayFollow
  <2>4. Turns'
    BY <2>1, RepliedOn DEF Inv, Turns, MayFollow, replies
  <2>. QED
    BY <2>2, <2>3, <2>4 DEF Inv
<1>3. CASE receiveEnd
  <2>1. /\ ~receiving /\ receiving' = receiving /\ mHttpRequest' = 0 /\ live' \subseteq live
        /\ UNCHANGED replies
    BY <1>3 DEF receiveEnd
  <2>2. Typed' /\ Ending'
    BY <2>1 DEF Inv, Typed, Ending, replies
  <2>3. Alive' /\ Turns'
    BY <2>1 DEF Inv, Alive, Turns, replies
  <2>. QED
    BY <2>2, <2>3 DEF Inv
<1>4. ASSUME NEW i \in 1..Len(mData), sendStatus(i) \/ sendData(i) \/ sendEnd(i) PROVE Inv'
  BY <1>4, SendStep
<1>5. ASSUME UNCHANGED <<parser, live, replies>> PROVE Inv'
  <2>1. Typed' /\ Ending'
    BY <1>5 DEF Inv, Typed, Ending, replies, parser
  <2>2. Alive' /\ Turns'
    BY <1>5 DEF Inv, Alive, Turns, replies, parser
  <2>. QED
    BY <2>1, <2>2 DEF Inv
<1>6. ASSUME NEW r, Ask(r) \/ \E i : AskGarbled(r, i) PROVE Inv'
  BY <1>5, <1>6 DEF Ask, AskGarbled
<1>7. CASE UNCHANGED vars
  BY <1>5, <1>7 DEF vars
<1>. QED
  BY <1>1, <1>2, <1>3, <1>4, <1>6, <1>7 DEF Next

LEMMA InvAlways ==
  ASSUME {"error", "pipeline"} \cap Liberties = {} PROVE Spec => []Inv
<1>1. Init => Inv
  BY InvInitially
<1>2. Inv /\ [Next]_vars => Inv'
  BY InvStep
<1>. QED
  BY <1>1, <1>2, PTL DEF Spec

-----------------------------------------------------------------------------
(* The theorems *)

\* Whatever is asked and however it arrives, no call of the connection goes to
\* a request that ended or was deleted (HttpConnection::process, receive).
THEOREM RequestAlwaysAlive ==
  ASSUME {"error", "pipeline"} \cap Liberties = {} PROVE Spec => []RequestAlive
<1>1. Inv => RequestAlive
  BY DEF Inv, Alive, RequestAlive
<1>. QED
  BY <1>1, InvAlways, PTL

\* Each reply is whole and they are in the order of the requests, whether the
\* application holds them or not (HttpRequest::sendStatus, sendEnd).
THEOREM RepliesAlwaysWhole ==
  ASSUME {"error", "pipeline"} \cap Liberties = {} PROVE Spec => []RepliesWhole
<1>1. Inv => RepliesWhole
  BY DEF Inv, Ending, Whole, Fits, Before, RepliesWhole
<1>. QED
  BY <1>1, InvAlways, PTL

=============================================================================

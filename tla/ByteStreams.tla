---------------------------- MODULE ByteStreams ----------------------------
(***************************************************************************)
(* What the buffers of stateplex/core/buffer.h promise: every buffer is a  *)
(* sequence of bytes of its own, written anywhere, consumed from the head, *)
(* with a reader that has a place in it and keeps it whatever is written   *)
(* or consumed elsewhere.                                                  *)
(***************************************************************************)
EXTENDS Naturals, Sequences

CONSTANTS Buffers,
          Texts      \* what may be written

VARIABLES stream,    \* the bytes of each buffer
          place,     \* how many of them its reader has passed
          pending    \* a text being written: to which buffer, where, what is left

vars == <<stream, place, pending>>

None == [text |-> <<>>]

Init ==
  /\ stream = [b \in Buffers |-> <<>>]
  /\ place = [b \in Buffers |-> 0]
  /\ pending = None

Inserted(b, at, text) ==
  stream' = [stream EXCEPT ![b] = SubSeq(@, 1, at) \o text \o SubSeq(@, at + 1, Len(@))]

Call(b, at, text) ==
  /\ pending = None
  /\ pending' = [buffer |-> b, at |-> at, text |-> text]
  /\ place[b] <= at
  /\ UNCHANGED <<stream, place>>

\* The next count bytes are in the buffer, and still to be read.
Write(count) ==
  LET text == pending.text
      rest == SubSeq(text, count + 1, Len(text))
  IN  /\ pending # None
      /\ Inserted(pending.buffer, pending.at, SubSeq(text, 1, count))
      /\ \/ pending' = [pending EXCEPT !.at = @ + count, !.text = rest]
         \/ rest = <<>> /\ pending' = None
      /\ UNCHANGED place

\* A whole text, or some of what another buffer has, at the end.
Put(b) ==
  /\ \/ \E text \in Texts : Inserted(b, Len(stream[b]), text)
     \/ \E c \in Buffers \ {b} : \E from, to \in 1..Len(stream[c]) :
          Inserted(b, Len(stream[b]), SubSeq(stream[c], from, to))
  /\ UNCHANGED <<place, pending>>

Consume(b, count) ==
  /\ stream' = [stream EXCEPT ![b] = SubSeq(@, count + 1, Len(@))]
  /\ place' = [place EXCEPT ![b] = IF @ > count THEN @ - count ELSE 0]
  /\ UNCHANGED pending

Advance(b, count) ==
  /\ place' = [place EXCEPT ![b] = @ + count]
  /\ place'[b] <= Len(stream[b])
  /\ UNCHANGED <<stream, pending>>

\* The buffer is destroyed, and another one constructed.
Renew(b) ==
  /\ stream' = [stream EXCEPT ![b] = <<>>]
  /\ place' = [place EXCEPT ![b] = 0]
  /\ UNCHANGED pending

Next ==
  \/ \E count \in 0..Len(pending.text) : Write(count)
  \/ \E b \in Buffers :
       \/ \E at \in 0..Len(stream[b]), text \in Texts : Call(b, at, text)
       \/ \E count \in 0..Len(stream[b]) : Consume(b, count) \/ Advance(b, count)
       \/ Put(b) \/ Renew(b)

Spec == Init /\ [][Next]_vars
=============================================================================

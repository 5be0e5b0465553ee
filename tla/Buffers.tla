------------------------------ MODULE Buffers ------------------------------
(***************************************************************************)
(* stateplex/core/buffer.h, readbuffer.h and writebuffer.h: buffers as     *)
(* lists of blocks, each a window on counted bytes that other blocks may   *)
(* be windows on too, and an iterator on every buffer (HttpConnection has  *)
(* one for as long as its input buffer lives).                             *)
(*                                                                         *)
(* The files are read with both sides of their merge markers, which are    *)
(* the same code, and with blockSize in Block::room() meaning mBlockSize.  *)
(***************************************************************************)
EXTENDS Integers, Sequences, FiniteSets

CONSTANTS Buffers,
          Readers,       \* those of them that are read with an iterator
          Edited,        \* those of them that strings are inserted in
          Chars,
          Strings,       \* what is appended and inserted
          Reads,         \* what is read from descriptors
          mBlockSize,    \* 1024 in the code
          SIZE16,        \* values of a Size16: 65536
          SIZE,          \* values of a Size
          MaxBytes,      \* bound: counted bytes there are at once
          MaxLength,     \* bound: bytes in a buffer when something is added
          MaxWrites,     \* bound: calls that write to a buffer
          Liberties,     \* what callers do that the code does not allow for
          Null           \* no character: what was never written

ASSUME BufferAssumption ==
  /\ mBlockSize \in Nat /\ 2 < mBlockSize /\ mBlockSize < SIZE16 /\ SIZE16 <= SIZE
  /\ SIZE16 \in Nat /\ SIZE \in Nat /\ MaxBytes \in Nat /\ MaxLength \in Nat
  /\ MaxWrites \in Nat
  /\ IsFiniteSet(Buffers) /\ Readers \subseteq Buffers /\ Edited \subseteq Buffers
  /\ Strings \subseteq Seq(Chars) /\ Reads \subseteq Seq(Chars) /\ Null \notin Chars
  /\ Liberties \subseteq {"full blocks", "readers"}

Sets == INSTANCE FiniteSetsExt
Seqs == INSTANCE SequencesExt

VARIABLES
  mBytes,      \* the counted bytes; with no reference they are free memory
  mBlocks,     \* of each buffer, its blocks
  mSize,       \* of each buffer
  mIterator,   \* of each buffer, the iterator; mBlock is the place of the block
               \* in the list, 0 for no block
  push,        \* the call of pushToBlock under way
  leaked,      \* of the counted bytes, the blocks of destroyed buffers on them
  writes       \* calls so far that write to a buffer

bufferVars == <<mBytes, mBlocks, mSize, mIterator, push, leaked, writes>>

Offsets == 0..(mBlockSize - 1)
FreeBytes == [mReferenceCount |-> 0, mEnd |-> 0, data |-> [o \in Offsets |-> Null]]
NewBytes == [FreeBytes EXCEPT !.mReferenceCount = 1]
Unstarted == [mBlock |-> 0, mPosition |-> 0]
NoPush == [on |-> FALSE]

BufferInit ==
  /\ mBytes = [m \in 1..MaxBytes |-> FreeBytes]
  /\ mBlocks = [b \in Buffers |-> <<>>]
  /\ mSize = [b \in Buffers |-> 0]
  /\ mIterator = [b \in Buffers |-> Unstarted]
  /\ push = NoPush
  /\ leaked = [m \in 1..MaxBytes |-> 0]
  /\ writes = 0

-----------------------------------------------------------------------------
(* Blocks. *)

Block(bytes, start, end) == [mBytes |-> bytes, mStart |-> start, mEnd |-> end]

size(block) == block.mEnd - block.mStart

room(bytes, block) ==
  IF block.mEnd = bytes[block.mBytes].mEnd THEN mBlockSize - block.mEnd ELSE 0

BlocksOf(b) == DOMAIN mBlocks[b]

Free == {m \in DOMAIN mBytes : mBytes[m].mReferenceCount = 0}

\* Memory for bytes, the lowest there is.
FreshMemory == Sets!Min(Free)

\* A slip: the constructor that shares the bytes does not count.
ReferencedNot(blocks) == mBytes

\* The reference counts after some blocks were made, and destroyed.
Referenced(blocks) ==
  [m \in DOMAIN mBytes |->
     [mBytes[m] EXCEPT !.mReferenceCount = @ + Cardinality({k \in DOMAIN blocks : blocks[k].mBytes = m})]]

Released(blocks) ==
  [m \in DOMAIN mBytes |->
     LET left == mBytes[m].mReferenceCount - Cardinality({k \in DOMAIN blocks : blocks[k].mBytes = m})
     IN  IF left = 0 THEN FreeBytes ELSE [mBytes[m] EXCEPT !.mReferenceCount = left]]

\* string in bytes from offset at on; what would be beyond the end is not there.
Overwritten(data, at, string) ==
  [o \in DOMAIN data |->
     IF at <= o /\ o < at + Len(string) THEN string[o - at + 1] ELSE data[o]]

-----------------------------------------------------------------------------
(* Buffers. *)

\* How much is in the first blocks of a list, by their number.
Sizes(blocks) ==
  LET first[k \in 0..Len(blocks)] == IF k = 0 THEN 0 ELSE first[k - 1] + size(blocks[k])
  IN  first

Total(blocks) == Sizes(blocks)[Len(blocks)]

\* blockOffset: how much is in the blocks before block k.
blockOffset(b, k) == Sizes(mBlocks[b])[k - 1]

\* blockByOffset: the block the byte is in, none behind the last one.
BlockByOffset(b, offset) ==
  {k \in BlocksOf(b) : blockOffset(b, k) <= offset /\ offset < blockOffset(b, k + 1)}

\* What blocks show of their bytes.
Text(block) ==
  [o \in 1..size(block) |->
     IF block.mStart + o - 1 \in Offsets
     THEN mBytes[block.mBytes].data[block.mStart + o - 1] ELSE Null]

Content(b) == Seqs!FlattenSeq([k \in BlocksOf(b) |-> Text(mBlocks[b][k])])

\* A slip: the offset not counted from each block's own start.
charAtUncounted(b, offset) ==
  LET at == {k \in BlocksOf(b) : offset < size(mBlocks[b][k])}
  IN  IF at = {} THEN Null ELSE Text(mBlocks[b][Sets!Min(at)])[offset + 1]

charAt(b, offset) ==
  LET at == BlockByOffset(b, offset)
  IN  IF at = {} THEN Null
      ELSE Text(mBlocks[b][Sets!Min(at)])[offset - blockOffset(b, Sets!Min(at)) + 1]

\* equals, of compare with a string: nothing but the string's length is read.
equals(b, string) ==
  /\ Len(string) <= mSize[b]
  /\ \A o \in DOMAIN string : charAt(b, o - 1) = string[o]

-----------------------------------------------------------------------------
(* Iterators. *)

\* A slip: what was popped meanwhile not looked at.
EnsuredBefore(b) ==
  IF mIterator[b].mBlock # 0 \/ mBlocks[b] = <<>> THEN mIterator[b]
  ELSE [mBlock |-> 1, mPosition |-> mBlocks[b][1].mStart]

\* ensureBlock: what the iterator is when it is looked at.
Ensured(b) ==
  LET it == mIterator[b]
  IN  IF it.mBlock # 0
      THEN [it EXCEPT !.mPosition = Sets!Max({@, mBlocks[b][it.mBlock].mStart})]
      ELSE IF mBlocks[b] = <<>> THEN Unstarted
      ELSE [mBlock |-> 1, mPosition |-> mBlocks[b][1].mStart]

offset(b) ==
  LET it == Ensured(b)
  IN  IF it.mBlock = 0 THEN mSize[b]
      ELSE blockOffset(b, it.mBlock) + it.mPosition - mBlocks[b][it.mBlock].mStart

\* The iterator when a block was made behind block k.
BehindNew(b, k) ==
  IF mIterator[b].mBlock > k THEN [mIterator[b] EXCEPT !.mBlock = @ + 1] ELSE mIterator[b]

\* Iterator::deleteBlock for each of the first blocks, of which gone go: on to
\* the next one, and off the buffer with the last one; there is no previous.
WithoutHead(b, gone) ==
  LET it == mIterator[b]
  IN  IF it.mBlock > gone THEN [it EXCEPT !.mBlock = @ - gone]
      ELSE IF it.mBlock = 0 \/ gone = Len(mBlocks[b]) THEN Unstarted
      ELSE [mBlock |-> 1, mPosition |-> mBlocks[b][gone + 1].mStart]

\* Iterator::advance: length bytes further, in the first block that goes on
\* behind them, or to the end of the last one.
Advanced(b, length) ==
  LET it == Ensured(b)
      to == offset(b) + length
      on == {k \in BlocksOf(b) : k >= it.mBlock /\ to < blockOffset(b, k + 1)}
      last == Len(mBlocks[b])
  IN  IF it.mBlock = 0 THEN Unstarted
      ELSE IF on = {} THEN [mBlock |-> last, mPosition |-> mBlocks[b][last].mEnd]
      ELSE [mBlock |-> Sets!Min(on),
            mPosition |-> mBlocks[b][Sets!Min(on)].mStart + to - blockOffset(b, Sets!Min(on))]

-----------------------------------------------------------------------------
(* Writing strings: pushToBlock, one step for each of its recursive calls. *)

Idle == push = NoPush

\* One more call, in the bound there is for them.
Writing ==
  /\ Idle
  /\ writes < MaxWrites
  /\ writes' = writes + 1

\* ensurePush makes a block, but only where there is room.
Makes(b, at, length) == at # 0 => length < room(mBytes, mBlocks[b][at])

\* A slip: the count of mBytes only.
CopyForgettingEnd(bytes, m, end, string) ==
  [bytes EXCEPT ![m].data = Overwritten(@, end, string)]

\* copyFrom: what is written, mBytes->mEnd becomes the block's, and that may
\* be less than it was, and less than the mEnd of other blocks.
Copied(bytes, m, end, string) ==
  [bytes EXCEPT ![m].data = Overwritten(@, end, string), ![m].mEnd = end + Len(string)]

\* One call of pushToBlock: allocateBlock, copyFrom, the size, and the call
\* for the rest with the same block, also when there is no room and no rest.
PushToBlock ==
  /\ push # NoPush
  /\ LET b == push.buffer
         makes == Makes(b, push.at, 1)
         fresh == FreshMemory
         blocks == IF makes
                   THEN Seqs!InsertAt(mBlocks[b], push.at + 1, Block(fresh, 0, 0))
                   ELSE mBlocks[b]
         bytes == IF makes THEN [mBytes EXCEPT ![fresh] = NewBytes] ELSE mBytes
         at == IF makes THEN push.at + 1 ELSE push.at
         free == room(bytes, blocks[at])
         now == SubSeq(push.left, 1, Sets!Min({free, Len(push.left)}))
     IN  /\ mBytes' = Copied(bytes, blocks[at].mBytes, blocks[at].mEnd, now)
         /\ mBlocks' = [mBlocks EXCEPT ![b] = [blocks EXCEPT ![at].mEnd = @ + Len(now)]]
         /\ mSize' = [mSize EXCEPT ![b] = @ + Len(now)]
         /\ push' = IF Len(push.left) < free THEN NoPush
                    ELSE [push EXCEPT !.left = SubSeq(@, free + 1, Len(@)), !.at = at]
         /\ mIterator' = IF makes THEN [mIterator EXCEPT ![b] = BehindNew(b, push.at)] ELSE mIterator
  /\ UNCHANGED <<leaked, writes>>

\* What callers must respect: a block that is full, or lacks one byte, is no
\* place to append to, nor may a string fill a block.
MayPush(end, string) ==
  \/ "full blocks" \in Liberties
  \/ Len(string) < mBlockSize /\ end < mBlockSize - 1

\* mEnd of block k, that of a new block for none.
EndOf(b, k) == IF k = 0 THEN 0 ELSE mBlocks[b][k].mEnd

append(b, string) ==
  /\ Writing
  /\ Free # {} /\ mSize[b] + Len(string) <= MaxLength
  /\ MayPush(EndOf(b, Len(mBlocks[b])), string)
  /\ push' = [on |-> TRUE, buffer |-> b, left |-> string, at |-> Len(mBlocks[b])]
  /\ UNCHANGED <<mBytes, mBlocks, mSize, mIterator, leaked>>

\* splitBlock: the block that ends at the offset, cut there if none does; none
\* at the very beginning, and none beyond the end.
SplitAt(b, at) == {k \in BlocksOf(b) : 0 < at /\ blockOffset(b, k) < at /\ at <= blockOffset(b, k + 1)}

\* Block::split at a place in block k.
Split(b, k, at) ==
  LET block == mBlocks[b][k]
  IN  <<[block EXCEPT !.mEnd = block.mStart + at],
        Block(block.mBytes, block.mStart + at, block.mEnd)>>

\* What callers must respect: splitBlock moves no iterator, so that one beyond
\* the offset is left beyond the end of its block, and one at the offset finds
\* itself before or behind what is new.
MayInsert(b, at) ==
  \/ "readers" \in Liberties
  \/ mIterator[b].mBlock # 0 => offset(b) < at

\* insert of a string; a length that is passed is ignored.
insert(b, at, string) ==
  /\ Writing
  /\ Free # {} /\ mSize[b] + Len(string) <= MaxLength
  /\ MayInsert(b, at)
  /\ LET on == SplitAt(b, at)
         k == IF on = {} THEN 0 ELSE Sets!Min(on)
         within == at - blockOffset(b, k)
         cuts == k # 0 /\ within < size(mBlocks[b][k])
         parts == Split(b, k, within)
     IN  /\ MayPush(IF cuts THEN parts[1].mEnd ELSE EndOf(b, k), string)
         /\ mBlocks' = IF cuts
                       THEN [mBlocks EXCEPT ![b] = SubSeq(@, 1, k - 1) \o parts \o SubSeq(@, k + 1, Len(@))]
                       ELSE mBlocks
         /\ mBytes' = IF cuts THEN Referenced(<<parts[2]>>) ELSE mBytes
         /\ mIterator' = IF cuts THEN [mIterator EXCEPT ![b] = BehindNew(b, k)] ELSE mIterator
         /\ push' = [on |-> TRUE, buffer |-> b, left |-> string, at |-> k]
  /\ UNCHANGED <<mSize, leaked>>

-----------------------------------------------------------------------------
(* Writing through pushPointer. *)

\* What callers must respect, and the only one, ReceiverSource, does: where
\* others have windows on the bytes, the room may be theirs as well.
MayTakeRoom(b) ==
  mBlocks[b] # <<>> =>
    mBytes[mBlocks[b][Len(mBlocks[b])].mBytes].mReferenceCount = 1

ensurePushLength(b, length) ==
  /\ Writing
  /\ Free # {}
  /\ Makes(b, Len(mBlocks[b]), length)
  /\ LET fresh == FreshMemory
     IN  /\ mBytes' = [mBytes EXCEPT ![fresh] = NewBytes]
         /\ mBlocks' = [mBlocks EXCEPT ![b] = Append(@, Block(fresh, 0, 0))]
  /\ UNCHANGED <<mSize, mIterator, push, leaked>>

\* What was read from a descriptor to pushPointer, pushLength at most, is made
\* part of the buffer.  mBytes->mEnd stays, so the block's room is gone.
pushed(b, string) ==
  LET last == Len(mBlocks[b])
      block == mBlocks[b][last]
  IN  /\ Writing
      /\ last # 0 /\ 0 < Len(string) /\ Len(string) <= room(mBytes, block)
      /\ mSize[b] + Len(string) <= MaxLength
      /\ MayTakeRoom(b)
      /\ mBytes' = [mBytes EXCEPT ![block.mBytes].data = Overwritten(@, block.mEnd, string)]
      /\ mBlocks' = [mBlocks EXCEPT ![b][last].mEnd = @ + Len(string)]
      /\ mSize' = [mSize EXCEPT ![b] = @ + Len(string)]
      /\ UNCHANGED <<mIterator, push, leaked>>

-----------------------------------------------------------------------------
(* References to other buffers' bytes. *)

\* New blocks at the tail of b, windows as these ones.
Added(b, pieces) ==
  /\ mBlocks' = [mBlocks EXCEPT ![b] = @ \o pieces]
  /\ mBytes' = Referenced(pieces)
  /\ mSize' = [mSize EXCEPT ![b] = @ + Total(pieces)]

\* append of another buffer; of itself it would not end.
appendBuffer(b, buffer) ==
  /\ Writing
  /\ b # buffer
  /\ mSize[b] + mSize[buffer] <= MaxLength
  /\ Added(b, mBlocks[buffer])
  /\ UNCHANGED <<mIterator, push, leaked>>

\* A slip: the block's start counted for the start only.
PieceToOffset(b, k, at, length) ==
  LET block == mBlocks[b][k]
  IN  Block(block.mBytes, block.mStart + at, at + length)

\* The part of length bytes from an offset into block k on.
Piece(b, k, at, length) ==
  LET block == mBlocks[b][k]
  IN  Block(block.mBytes, block.mStart + at, block.mStart + at + length)

\* What is left of length at block k, when block first was begun at an offset:
\* the whole size of each block before is taken off, in a Size.
LeftAt(b, first, k, length) ==
  (length - (blockOffset(b, k) - blockOffset(b, first))) % SIZE

\* The pieces region() makes: to the block that has what is left, each of the
\* size of its block, also the first one, although it may not begin there.
Pieces(b, at, length) ==
  LET first == Sets!Min(BlockByOffset(b, at))
      begin(k) == IF k = first THEN at - blockOffset(b, first) ELSE 0
      left(k) == LeftAt(b, first, k, length)
      ends == {k \in BlocksOf(b) : k >= first /\ (begin(k) + left(k)) % SIZE <= size(mBlocks[b][k])}
      last == IF ends = {} THEN Len(mBlocks[b]) ELSE Sets!Min(ends)
  IN  IF BlockByOffset(b, at) = {} THEN <<>>
      ELSE [i \in 1..(last - first + 1) |->
              LET k == first + i - 1
              IN  Piece(b, k, begin(k), IF k \in ends THEN left(k) ELSE size(mBlocks[b][k]))]

\* What callers must respect: a region that goes on in the next block must not
\* begin within one, or it shows bytes behind that block.
MayTake(b, at, length) ==
  \A k \in BlockByOffset(b, at) :
    at = blockOffset(b, k) \/ at + length <= blockOffset(b, k + 1)

region(b, at, length, buffer) ==
  /\ Writing
  /\ b # buffer
  /\ mSize[buffer] + length <= MaxLength
  /\ MayTake(b, at, length)
  /\ Added(buffer, Pieces(b, at, length))
  /\ UNCHANGED <<mIterator, push, leaked>>

-----------------------------------------------------------------------------
(* Taking a buffer apart. *)

\* memchr() in one block after the other.  What is found is counted from the
\* start of its block, not of the buffer.
offsetOf(b, c, from) ==
  LET found == {o \in from..(mSize[b] - 1) : charAt(b, o) = c}
  IN  IF found = {} THEN SIZE - 1
      ELSE Sets!Min(found) - blockOffset(b, Sets!Min(BlockByOffset(b, Sets!Min(found))))

\* The text of the region that begins at an offset.
Fragment(b, at, length) ==
  Seqs!FoldLeft(LAMBDA text, piece : text \o Text(piece), <<>>, Pieces(b, at, length))

\* doSplit(): the texts of the elements, of which the last takes what is left.
split(b, delimiter, maxElements) ==
  LET end(from, n) ==
        IF n = maxElements THEN mSize[b] ELSE Sets!Min({offsetOf(b, delimiter, from), mSize[b]})
      elements[from \in 0..(mSize[b] + 1), n \in 1..(maxElements + 1)] ==
        IF from >= mSize[b] THEN <<>>
        ELSE <<Fragment(b, from, end(from, n) - from)>> \o elements[end(from, n) + 1, n + 1]
  IN  elements[0, 1]

\* What callers must respect: what offsetOf finds is in the first block, where
\* its offset is that in the buffer, and no element begins within that block
\* and goes on behind it.
MaySplit(b, c, maxElements) ==
  LET delimiters == {o \in 0..(mSize[b] - 1) : charAt(b, o) = c}
      first == blockOffset(b, 2)
  IN  \/ Len(mBlocks[b]) <= 1
      \/ delimiters = {}
      \/ /\ delimiters \subseteq 0..(first - 1)
         /\ first - 1 \in delimiters
         /\ Cardinality(delimiters) < maxElements

-----------------------------------------------------------------------------
(* Reading. *)

\* How many blocks end within the first length bytes, empty ones included.
HeadsWithin(b, length) ==
  {k \in 0..Len(mBlocks[b]) : blockOffset(b, k + 1) <= length}

\* The length is a Size16, and callers pass a Size.
Popped(b, asked) ==
  LET length == Sets!Min({asked % SIZE16, mSize[b]})
      gone == Sets!Max(HeadsWithin(b, length))
      rest == SubSeq(mBlocks[b], gone + 1, Len(mBlocks[b]))
  IN  /\ mSize' = [mSize EXCEPT ![b] = @ - length]
      /\ mBytes' = Released(SubSeq(mBlocks[b], 1, gone))
      /\ mBlocks' = [mBlocks EXCEPT
           ![b] = IF rest = <<>> THEN rest
                  ELSE [rest EXCEPT ![1].mStart = @ + length - blockOffset(b, gone + 1)]]
      /\ mIterator' = [mIterator EXCEPT ![b] = WithoutHead(b, gone)]

popped(b, length) ==
  /\ Idle
  /\ Popped(b, length)
  /\ UNCHANGED <<push, leaked, writes>>

poppedAll(b) ==
  /\ Idle
  /\ Popped(b, mSize[b])
  /\ UNCHANGED <<push, leaked, writes>>

\* offset(), hasCurrent(), current(), charBlock(): each begins with this.
ensureBlock(b) ==
  /\ Idle
  /\ mIterator' = [mIterator EXCEPT ![b] = Ensured(b)]
  /\ UNCHANGED <<mBytes, mBlocks, mSize, push, leaked, writes>>

advance(b, length) ==
  /\ Idle
  /\ mIterator' = [mIterator EXCEPT ![b] = Advanced(b, length)]
  /\ UNCHANGED <<mBytes, mBlocks, mSize, push, leaked, writes>>

\* The buffer and its iterator are destroyed, and another one constructed in
\* their place.  GenericBuffer has no destructor: the blocks stay, and refer
\* to their bytes (of which the model forgets what nobody can read).
delete(b) ==
  /\ Idle
  /\ leaked' = [m \in DOMAIN leaked |->
       leaked[m] + Cardinality({k \in BlocksOf(b) : mBlocks[b][k].mBytes = m})]
  /\ mBlocks' = [mBlocks EXCEPT ![b] = <<>>]
  /\ mSize' = [mSize EXCEPT ![b] = 0]
  /\ mIterator' = [mIterator EXCEPT ![b] = Unstarted]
  /\ mBytes' = [m \in DOMAIN mBytes |->
       IF \E c \in Buffers \ {b} : \E k \in BlocksOf(c) : mBlocks[c][k].mBytes = m
       THEN mBytes[m] ELSE [mBytes[m] EXCEPT !.data = FreeBytes.data]]
  /\ UNCHANGED <<push, writes>>

-----------------------------------------------------------------------------
BufferNext ==
  \/ PushToBlock
  \/ \E b \in Buffers :
       \/ \E string \in Strings : append(b, string)
       \/ \E string \in Reads : pushed(b, string)
  \/ \E b \in Edited, string \in Strings : \E at \in 0..mSize[b] : insert(b, at, string)
  \/ \E b \in Buffers, length \in 1..mBlockSize : ensurePushLength(b, length)
  \/ \E b, buffer \in Buffers :
       \/ appendBuffer(b, buffer)
       \/ \E at, length \in 0..mSize[b] : region(b, at, length, buffer)
  \/ \E b \in Buffers :
       \/ \E length \in 0..mSize[b] : popped(b, length)
       \/ poppedAll(b)
       \/ delete(b)
  \/ \E b \in Readers :
       \/ ensureBlock(b)
       \/ \E length \in 1..mBlockSize : advance(b, length)

\* A call that was made goes on.
BufferSpec == BufferInit /\ [][BufferNext]_bufferVars /\ WF_bufferVars(PushToBlock)

-----------------------------------------------------------------------------
\* Blocks are windows on bytes, within the memory that these have.
Windows ==
  {w \in [mBytes : 1..MaxBytes, mStart : 0..mBlockSize, mEnd : 0..mBlockSize] : w.mStart <= w.mEnd}

BufferTypeOK ==
  /\ mBytes \in [1..MaxBytes ->
       [mReferenceCount : Nat, mEnd : 0..mBlockSize, data : [Offsets -> Chars \cup {Null}]]]
  /\ mBlocks \in [Buffers -> Seq(Windows)]
  /\ mSize \in [Buffers -> Nat]
  /\ mIterator \in [Buffers -> [mBlock : Nat, mPosition : Int]]
  /\ push \in {NoPush} \cup [on : {TRUE}, buffer : Buffers, left : Seq(Chars), at : Nat]
  /\ leaked \in [1..MaxBytes -> Nat]

\* GenericBuffer::mSize is kept apart from the blocks by ten functions, and is
\* the size of the blocks after each of them.
SizeAgrees ==
  \A b \in Buffers : mSize[b] = Total(mBlocks[b])

\* The blocks on some bytes.
On(m) == UNION {{b} \X {k \in BlocksOf(b) : mBlocks[b][k].mBytes = m} : b \in Buffers}

\* Bytes are counted by Block's constructors and destroy(): as many references
\* as blocks have been made and not destroyed, so that no memory is given back
\* while a block of some buffer shows it.
CountsAgree ==
  \A m \in DOMAIN mBytes : mBytes[m].mReferenceCount = leaked[m] + Cardinality(On(m))

\* deleteBlock: an iterator is on a block of its buffer or on none, never on
\* memory of a block that is gone, and not beyond the block's bytes.
IteratorsInBuffers ==
  \A b \in Buffers :
    LET it == mIterator[b]
    IN  it.mBlock # 0 =>
          /\ it.mBlock \in BlocksOf(b)
          /\ Ensured(b).mPosition <= mBlocks[b][it.mBlock].mEnd

\* Buffers that share bytes are buffers of their own, each an exact sequence of
\* what was written to it where it was asked for and not consumed, whose reader
\* keeps its place.
Stream == INSTANCE ByteStreams WITH
  Texts <- Strings \cup Reads,
  stream <- [b \in Buffers |-> Content(b)],
  place <- [b \in Buffers |-> offset(b)],
  pending <- IF push = NoPush THEN [text |-> <<>>]
             ELSE [buffer |-> push.buffer, at |-> blockOffset(push.buffer, push.at + 1),
                   text |-> push.left]
ImplementsStreams == Stream!Spec

\* pushToBlock comes to an end: every append and insert returns.
CallsReturn == push # NoPush ~> push = NoPush

\* compare and equals go through the blocks by their own offsets: what a buffer
\* holds equals it, and what equals it are the first bytes there are, not bytes
\* of other windows or behind the end.
ContentCompared ==
  \A b \in Buffers :
    /\ equals(b, Content(b))
    /\ \A string \in Strings \cup Reads :
         equals(b, string) => Seqs!IsPrefix(string, Content(b))

\* That nothing else equals it is what buffer.h:647 says, and bufferTests.cpp:65
\* ("Fails") would test.  The code's equals is true of less as well.
EqualsExact ==
  \A b \in Buffers, string \in Strings \cup Reads :
    equals(b, string) => string = Content(b)

\* split(), wherever in their bytes the blocks begin: the elements are the text
\* between the delimiters, all of it, the last of them with what is left
\* (buffer.h:499, 748).
SplitAtDelimiters ==
  \A b \in Buffers, c \in Chars, maxElements \in 2..3 :
    MaySplit(b, c, maxElements) =>
      LET elements == split(b, c, maxElements)
          joined == Seqs!FoldLeft(LAMBDA text, e : text \o <<c>> \o e, <<>>, elements)
      IN  /\ Len(elements) <= maxElements
          /\ \A n \in 1..Len(elements) :
               n < maxElements => c \notin Seqs!ToSet(elements[n])
          /\ <<c>> \o Content(b) \in {joined, joined \o <<c>>, <<c>>}
          /\ elements = <<>> <=> Content(b) = <<>>

\* Comparing and splitting find what the buffer holds.
TextFound == ContentCompared /\ SplitAtDelimiters

\* What is kept beside the blocks - sizes, reference counts, iterators - agrees
\* with the blocks there are, in whatever order buffers that share bytes grow,
\* shrink and go (buffer.h:116, 216, 944).
BookkeepingAgrees == SizeAgrees /\ CountsAgree /\ IteratorsInBuffers

\* A region is the fragment asked for, as far as there are bytes, of however many
\* blocks it is, and shows the same bytes without copying them.
RegionIsFragment ==
  [][\A b, buffer \in Buffers : \A at, length \in 0..mSize[b] :
       region(b, at, length, buffer) =>
         Content(buffer)' = Content(buffer) \o SubSeq(Content(b), at + 1, Sets!Min({at + length, mSize[b]}))]_bufferVars
=============================================================================

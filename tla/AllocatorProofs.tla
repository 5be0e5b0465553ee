-------------------------- MODULE AllocatorProofs --------------------------
(***************************************************************************)
(* Memory, for every size of blocks, any allocators and any lengths of     *)
(* strings and arrays: the classes of sizes, what an object takes of its   *)
(* memory, and that no two owners ever have the same memory.               *)
(***************************************************************************)
EXTENDS Strings, TLAPS, SequenceTheorems, FunctionTheorems, FiniteSetTheorems

-----------------------------------------------------------------------------
(* The classes of sizes *)

\* sliceSizeToIndex and sliceSizeFromIndex agree although they round: the
\* slice is never smaller than what was asked for, and its class is always
\* an index of mFreeSlices.
THEOREM EveryClassServes ==
  \A size \in 1..LargestSliced : ClassServes(size)
<1>. USE BlockSizeAssumption DEF sizeofSlice, sizeofBlock
<1>1. TAKE size \in 1..LargestSliced
<1>2. sliceSizeFromIndex(sliceSizeToIndex(size)) >= size
  BY DEF sliceSizeFromIndex, sliceSizeToIndex, LargestSliced
<1>3. sliceSizeToIndex(size) \in 0..MAX_SLICE_INDEX
  BY DEF sliceSizeToIndex, LargestSliced, MAX_SLICE_INDEX
<1>. QED
  BY <1>2, <1>3 DEF ClassServes

\* No class below would do, also at the boundary of 144 bytes where the step
\* between the classes changes from 16 to 128 bytes.
THEOREM EveryClassTight ==
  \A size \in 1..LargestSliced : ClassTight(size)
BY BlockSizeAssumption
DEF sizeofSlice, sizeofBlock, ClassTight, sliceSizeFromIndex, sliceSizeToIndex, LargestSliced

\* A freed slice goes to a class that is not larger than the slice, even when
\* the caller understates the size.
THEOREM UnderstatedIsSmaller ==
  \A size \in 1..LargestSliced : \A given \in 1..size :
    sliceSizeFromIndex(sliceSizeToIndex(given)) <= sliceSizeFromIndex(sliceSizeToIndex(size))
BY BlockSizeAssumption
DEF sizeofSlice, sizeofBlock, sliceSizeFromIndex, sliceSizeToIndex, LargestSliced

\* The slices sliceBlock makes end before the block does.
THEOREM SlicesFit ==
  \A index \in 0..MAX_SLICE_INDEX : \A k \in 0..(nSlices(index) - 1) :
    SliceOffset(index, k) + sliceSizeFromIndex(index) <= BLOCK_SIZE
BY BlockSizeAssumption
DEF sizeofSlice, sizeofBlock, sliceSizeFromIndex, nSlices, MAX_SLICE_INDEX, SliceOffset

\* Two slices of a block do not overlap.
THEOREM SlicesApart ==
  \A index \in 0..MAX_SLICE_INDEX : \A k, l \in Nat :
    k < l => SliceOffset(index, k) + sliceSizeFromIndex(index) <= SliceOffset(index, l)
<1>. TAKE index \in 0..MAX_SLICE_INDEX
<1>. TAKE k, l \in Nat
<1>. DEFINE size == sliceSizeFromIndex(index)
<1>1. size \in Nat
  BY BlockSizeAssumption DEF sliceSizeFromIndex, sizeofSlice, sizeofBlock, MAX_SLICE_INDEX
<1>. HIDE DEF size
<1>2. ASSUME k < l PROVE k * size + size <= l * size
  BY <1>1, <1>2
<1>. QED
  BY <1>1, <1>2 DEF SliceOffset, sizeofBlock, size

-----------------------------------------------------------------------------
(* The contents of objects *)

\* A product grows with its factor.
LEMMA ProductGrows ==
  \A m, n, p \in Nat : m <= n => m * p \in Nat /\ n * p \in Nat /\ m * p <= n * p
<1>. TAKE m, n, p \in Nat
<1>1. ASSUME m <= n PROVE m * p <= n * p
  <2>1. PICK d \in Nat : n = m + d
    BY <1>1
  <2>2. (m + d) * p = m * p + d * p /\ d * p \in Nat /\ m * p \in Nat
    OBVIOUS
  <2>. QED
    BY <2>1, <2>2
<1>2. m * p \in Nat /\ n * p \in Nat
  OBVIOUS
<1>. QED
  BY <1>1, <1>2

\* What is read is no longer than what was written, and begins no later.
LEMMA ReadBack ==
  ASSUME NEW kind \in {"String", "Array"}, NEW length \in Nat, length < 16384
  PROVE  /\ getLength(setLength(kind, length)).size \in 1..sizeOfLength(kind, length)
         /\ getLength(setLength(kind, length)).length \in 0..length
         /\ sizeOfLength(kind, length) \in 1..3
<1>. DEFINE low == length % 128
            next == length \div 128
<1>1. low \in 0..127 /\ next \in 0..127 /\ length = (128 * next) + low
  OBVIOUS
<1>2. (low + 128) % 128 = low /\ next % 256 = next /\ low + 128 >= 128
  BY <1>1
<1>3. ~(length >= 2 * 16384)
  OBVIOUS
<1>4. CASE length >= 2 * 128 \/ (kind = "String" /\ length = 0)
  <2>1. setLength(kind, length) = <<low + 128, next % 256>> /\ sizeOfLength(kind, length) = 2
    BY <1>3, <1>4 DEF setLength, sizeOfLength
  <2>. HIDE DEF low, next
  <2>2. setLength(kind, length)[1] = low + 128 /\ setLength(kind, length)[2] = next
    BY <1>2, <2>1
  <2>3. /\ SevenBits(setLength(kind, length)[1]) = low
        /\ ~(setLength(kind, length)[1] < 128) /\ setLength(kind, length)[2] < 128
    BY <1>1, <1>2, <2>2 DEF SevenBits
  <2>4. getLength(setLength(kind, length)) = [size |-> 2, length |-> low + (next * 128)]
    BY <2>2, <2>3 DEF getLength
  <2>. QED
    BY <1>1, <2>1, <2>4
<1>5. CASE ~(length >= 2 * 128 \/ (kind = "String" /\ length = 0))
  <2>1. setLength(kind, length) = <<low>> /\ sizeOfLength(kind, length) = 1
    BY <1>3, <1>5 DEF setLength, sizeOfLength
  <2>. HIDE DEF low, next
  <2>2. setLength(kind, length)[1] = low
    BY <2>1
  <2>3. getLength(setLength(kind, length)) = [size |-> 1, length |-> low]
    BY <1>1, <2>2 DEF getLength
  <2>4. low <= length
    BY <1>1
  <2>. QED
    BY <1>1, <2>1, <2>3, <2>4
<1>. QED
  BY <1>4, <1>5

\* An object is no longer than the memory it takes, and less takes less.
LEMMA MemoryGrows ==
  ASSUME NEW kind \in {"String", "Array"}, NEW length \in Nat, NEW less \in 0..length
  PROVE  /\ length <= MemorySize(kind, length) /\ MemorySize(kind, length) \in Nat \ {0}
         /\ ContentsSize(kind, less) \in Nat /\ ContentsSize(kind, length) \in Nat
         /\ ContentsSize(kind, less) <= ContentsSize(kind, length)
<1>. USE StringsAssumption
<1>. DEFINE taken == length * sizeofPointer
            other == less * sizeofPointer
<1>1. taken \in Nat /\ other \in Nat /\ other <= taken
  BY ProductGrows
<1>2. length <= taken
  <2>1. sizeofPointer * length \in Nat /\ 1 * length <= sizeofPointer * length
    BY ProductGrows
  <2>. QED
    BY <2>1
<1>3. sizeOfLength(kind, length) \in 1..3
  BY DEF sizeOfLength
<1>4. /\ ContentsSize(kind, length) = IF kind = "String" THEN length + 1 ELSE taken
      /\ ContentsSize(kind, less) = IF kind = "String" THEN less + 1 ELSE other
  BY DEF ContentsSize
<1>. HIDE DEF taken, other
<1>. QED
  BY <1>1, <1>2, <1>3, <1>4 DEF MemorySize

\* An element is where its index says, within what the array takes.
LEMMA ElementInContents ==
  ASSUME NEW object, NEW size \in Nat, NEW length \in Nat, NEW index \in Nat,
         getLength(object.bytes) = [size |-> size, length |-> length],
         sizeofType <= sizeofPointer
  PROVE  element(object, index) \subseteq size..(size + ContentsSize("Array", length) - 1)
<1>. USE StringsAssumption
<1>. DEFINE start == index * sizeofType
            taken == length * sizeofPointer
<1>1. CASE index < length
  <2>1. (index + 1) * sizeofType = start + sizeofType /\ start \in Nat
    BY <1>1
  <2>2. /\ length * sizeofType \in Nat
        /\ (index + 1) * sizeofType <= length * sizeofType
    <3>1. index + 1 \in Nat /\ length \in Nat /\ sizeofType \in Nat /\ index + 1 <= length
      BY <1>1
    <3>. QED
      BY <3>1, ProductGrows
  <2>3. length * sizeofType <= taken /\ taken \in Nat
    <3>1. sizeofType * length <= sizeofPointer * length /\ sizeofPointer * length \in Nat
      BY ProductGrows
    <3>. QED
      BY <3>1
  <2>4. /\ element(object, index) = (size + start)..(size + start + sizeofType - 1)
        /\ ContentsSize("Array", length) = taken
    BY <1>1 DEF element, ContentsSize
  <2>5. start + sizeofType <= taken
    BY <2>1, <2>2, <2>3
  <2>. HIDE DEF start, taken
  <2>. QED
    BY <2>1, <2>3, <2>4, <2>5
<1>2. CASE ~(index < length)
  BY <1>2 DEF element
<1>. QED
  BY <1>1, <1>2

\* What every object is: made of a length that its memory has the room for,
\* with the bytes that setLength wrote, and of elements that MayMake admits.
Sound(object) ==
  /\ object.kind \in {"String", "Array"} /\ object.made \in Nat
  /\ object.kind = "Array" => sizeofType <= sizeofPointer
  /\ MemorySize(object.kind, object.made) <= LargestSliced
  /\ object.bytes = setLength(object.kind, object.made)
  /\ object.held.size = MemorySize(object.kind, object.made)

\* What is read from a sound object's bytes.
LEMMA SoundReads ==
  ASSUME LargestSliced < 16384, NEW object, Sound(object)
  PROVE  /\ getLength(object.bytes).size \in 1..sizeOfLength(object.kind, object.made)
         /\ getLength(object.bytes).length \in 0..object.made
         /\ sizeOfLength(object.kind, object.made) \in 1..3
<1>1. LargestSliced \in Nat
  BY BlockSizeAssumption DEF LargestSliced, sizeofBlock
<1>2. object.made \in Nat /\ object.made < 16384
  <2>1. object.kind \in {"String", "Array"} /\ object.made \in Nat /\ object.made \in 0..object.made
    BY DEF Sound
  <2>2. MemorySize(object.kind, object.made) \in Nat /\ object.made <= MemorySize(object.kind, object.made)
    BY <2>1, MemoryGrows
  <2>3. MemorySize(object.kind, object.made) <= LargestSliced
    BY DEF Sound
  <2>4. object.made <= LargestSliced
    BY <1>1, <2>1, <2>2, <2>3
  <2>. QED
    BY <1>1, <2>1, <2>4
<1>3. object.kind \in {"String", "Array"} /\ object.bytes = setLength(object.kind, object.made)
  BY DEF Sound
<1>. QED
  BY <1>2, <1>3, ReadBack

\* A sound object takes no more than its memory for its contents.
LEMMA SoundInMemory ==
  ASSUME LargestSliced < 16384, NEW object, Sound(object)
  PROVE  LET got == getLength(object.bytes)
         IN  /\ got.size + ContentsSize(object.kind, got.length) <= object.held.size
             /\ object.kind = "Array" => \A index \in Nat :
                  element(object, index) \subseteq got.size..(object.held.size - 1)
<1>. DEFINE got == getLength(object.bytes)
<1>0. got = [size |-> got.size, length |-> got.length]
  BY DEF getLength
<1>1. /\ got.size \in 1..sizeOfLength(object.kind, object.made)
      /\ got.length \in 0..object.made
      /\ sizeOfLength(object.kind, object.made) \in 1..3
  BY SoundReads
<1>. HIDE DEF got
<1>2. /\ object.kind \in {"String", "Array"} /\ object.made \in Nat
      /\ object.held.size = sizeOfLength(object.kind, object.made)
                              + ContentsSize(object.kind, object.made)
  BY DEF Sound, MemorySize
<1>3. /\ ContentsSize(object.kind, got.length) \in Nat
      /\ ContentsSize(object.kind, object.made) \in Nat
      /\ ContentsSize(object.kind, got.length) <= ContentsSize(object.kind, object.made)
  <2>1. object.kind \in {"String", "Array"} /\ object.made \in Nat /\ got.length \in 0..object.made
    BY <1>1, <1>2
  <2>. QED
    BY <2>1, MemoryGrows
<1>4. got.size + ContentsSize(object.kind, got.length) <= object.held.size
  BY <1>1, <1>2, <1>3
<1>5. ASSUME object.kind = "Array", NEW index \in Nat
      PROVE  element(object, index) \subseteq got.size..(object.held.size - 1)
  <2>1. element(object, index)
          \subseteq got.size..(got.size + ContentsSize("Array", got.length) - 1)
    <3>0. sizeofType <= sizeofPointer
      BY <1>5 DEF Sound
    <3>1. getLength(object.bytes) = [size |-> got.size, length |-> got.length]
      BY <1>0 DEF got
    <3>2. got.size \in Nat /\ got.length \in Nat
      BY <1>1, <1>2
    <3>. QED
      BY <3>0, <3>1, <3>2, ElementInContents
  <2>. QED
    BY <2>1, <1>1, <1>2, <1>3, <1>4, <1>5
<1>. QED
  BY <1>4, <1>5 DEF got

-----------------------------------------------------------------------------
(* Objects stay in their memory *)

AllSound == \A object \in objects : Sound(object)

LEMMA MakeSound ==
  ASSUME AllSound, NEW a, NEW kind \in {"String", "Array"}, NEW length \in Nat,
         Make(a, kind, length)
  PROVE  AllSound'
<1>. DEFINE size == MemorySize(kind, length)
<1>1. PICK h : live' = live \cup {h} /\ h.size = size
  <2>1. \E now : live' = live \cup {[slice |-> Head(now.slices), size |-> size]}
    BY DEF Make, allocate
  <2>2. PICK now : live' = live \cup {[slice |-> Head(now.slices), size |-> size]}
    BY <2>1
  <2>. HIDE DEF size
  <2>3. [slice |-> Head(now.slices), size |-> size].size = size
    OBVIOUS
  <2>. QED
    BY <2>2, <2>3
<1>2. SUFFICES ASSUME NEW object \in objects' \ objects PROVE Sound(object)
  BY DEF AllSound, Sound
<1>3. PICK held \in live' \ live :
        object = [held |-> held, kind |-> kind, made |-> length, bytes |-> setLength(kind, length)]
  BY <1>2 DEF Make
<1>4. held.size = size
  BY <1>1
<1>5. size <= LargestSliced /\ (kind = "Array" => sizeofType <= sizeofPointer)
  BY DEF Make, MayMake
<1>. QED
  BY <1>3, <1>4, <1>5 DEF Sound

LEMMA SoundStep ==
  ASSUME LargestSliced < 16384, AllSound, [StringsNext]_variables
  PROVE  AllSound'
<1>1. CASE UNCHANGED variables
  BY <1>1 DEF variables, AllSound, Sound
<1>2. ASSUME NEW a \in Allocators, NEW length \in StringLengths, Make(a, "String", length)
      PROVE  AllSound'
  BY <1>2, MakeSound, StringsAssumption
<1>3. ASSUME NEW a \in Allocators, NEW length \in ArrayLengths, Make(a, "Array", length)
      PROVE  AllSound'
  BY <1>3, MakeSound, StringsAssumption
<1>4. ASSUME NEW a \in Allocators, NEW object \in objects, copy(a, object)
      PROVE  AllSound'
  <2>1. Sound(object)
    BY DEF AllSound
  <2>2. object.kind \in {"String", "Array"} /\ object.made \in Nat
    BY <2>1 DEF Sound
  <2>3. getLength(object.bytes).length \in 0..object.made
    BY <2>1, SoundReads
  <2>. QED
    BY <1>4, <2>2, <2>3, MakeSound DEF copy
<1>5. ASSUME NEW a \in Allocators, NEW object \in objects, destroy(a, object)
      PROVE  AllSound'
  BY <1>5 DEF destroy, AllSound, Sound
<1>. QED
  BY <1>1, <1>2, <1>3, <1>4, <1>5 DEF StringsNext

\* An object never takes itself for larger than its memory, for any lengths
\* of one or two bytes and for elements that take no more than a pointer
\* (MayMake); a longer one does not come from a block of 4 * 4096 bytes
\* (string.h:79, array.h:68, 156).
THEOREM ContentsAlwaysInMemory ==
  ASSUME LargestSliced < 16384
  PROVE  StringsSpec => []ContentsInMemory
<1>1. StringsInit => AllSound
  BY DEF StringsInit, AllSound
<1>2. AllSound /\ [StringsNext]_variables => AllSound'
  BY SoundStep
<1>3. AllSound => ContentsInMemory
  <2>. SUFFICES ASSUME AllSound, NEW object \in objects
                PROVE  LET got == getLength(object.bytes)
                       IN  /\ got.size + ContentsSize(object.kind, got.length) <= object.held.size
                           /\ object.kind = "Array" =>
                                \A index \in {0, got.length - 1, got.length} \cap Nat :
                                  element(object, index) \subseteq got.size..(object.held.size - 1)
    BY DEF ContentsInMemory
  <2>1. Sound(object)
    BY DEF AllSound
  <2>. QED
    BY <2>1, SoundInMemory
<1>. QED
  BY <1>1, <1>2, <1>3, PTL DEF StringsSpec

-----------------------------------------------------------------------------
(* Lists without duplicates *)

Elements(s) == {s[k] : k \in 1..Len(s)}

Once(s) == \A k, l \in 1..Len(s) : s[k] = s[l] => k = l

LEMMA EmptyOnce == Once(<<>>) /\ Elements(<<>>) = {}
BY DEF Once, Elements

\* What a list loses with its first item.
LEMMA TailOnce ==
  ASSUME NEW T, NEW s \in Seq(T), s # <<>>, Once(s)
  PROVE  /\ Tail(s) \in Seq(T) /\ Once(Tail(s))
         /\ Head(s) \in T /\ Head(s) \in Elements(s)
         /\ Elements(Tail(s)) = Elements(s) \ {Head(s)}
<1>1. /\ Tail(s) \in Seq(T) /\ Head(s) \in T /\ Len(Tail(s)) = Len(s) - 1
      /\ \A k \in 1..Len(Tail(s)) : Tail(s)[k] = s[k + 1]
  BY HeadTailProperties
<1>2. Len(s) \in Nat /\ Len(s) # 0 /\ Head(s) = s[1]
  BY EmptySeq
<1>3. Once(Tail(s))
  BY <1>1, <1>2 DEF Once
<1>4. Head(s) \in Elements(s)
  BY <1>2 DEF Elements
<1>5. ASSUME NEW x \in Elements(Tail(s)) PROVE x \in Elements(s) \ {Head(s)}
  <2>1. PICK k \in 1..Len(Tail(s)) : x = Tail(s)[k]
    BY DEF Elements
  <2>2. k + 1 \in 1..Len(s) /\ x = s[k + 1] /\ k + 1 # 1 /\ 1 \in 1..Len(s)
    BY <1>1, <1>2, <2>1
  <2>. QED
    BY <1>2, <2>2 DEF Elements, Once
<1>6. ASSUME NEW x \in Elements(s) \ {Head(s)} PROVE x \in Elements(Tail(s))
  <2>1. PICK k \in 1..Len(s) : x = s[k]
    BY DEF Elements
  <2>2. k - 1 \in 1..Len(Tail(s)) /\ (k - 1) + 1 = k
    BY <1>1, <1>2, <2>1
  <2>3. x = Tail(s)[k - 1]
    BY <1>1, <2>1, <2>2
  <2>. QED
    BY <2>2, <2>3 DEF Elements
<1>. QED
  BY <1>1, <1>3, <1>4, <1>5, <1>6

\* What a list gains at its head.
LEMMA ConsOnce ==
  ASSUME NEW T, NEW s \in Seq(T), NEW e \in T, Once(s), e \notin Elements(s)
  PROVE  /\ S!Cons(e, s) \in Seq(T) /\ Once(S!Cons(e, s))
         /\ Elements(S!Cons(e, s)) = Elements(s) \cup {e}
<1>. DEFINE c == S!Cons(e, s)
<1>1. /\ c \in Seq(T) /\ Len(c) = Len(s) + 1 /\ c[1] = e
      /\ \A k \in 1..Len(s) : c[k + 1] = s[k]
  BY DEF S!Cons
<1>2. Len(s) \in Nat
  OBVIOUS
<1>. HIDE DEF c
<1>3. ASSUME NEW k \in 1..Len(c) PROVE k = 1 \/ (k - 1 \in 1..Len(s) /\ c[k] = s[k - 1])
  <2>1. k = 1 \/ (k - 1 \in 1..Len(s) /\ (k - 1) + 1 = k)
    BY <1>1, <1>2
  <2>. QED
    BY <1>1, <2>1
<1>4. Once(c)
  <2>. SUFFICES ASSUME NEW k \in 1..Len(c), NEW l \in 1..Len(c), c[k] = c[l] PROVE k = l
    BY DEF Once
  <2>1. /\ k = 1 \/ (k - 1 \in 1..Len(s) /\ c[k] = s[k - 1])
        /\ l = 1 \/ (l - 1 \in 1..Len(s) /\ c[l] = s[l - 1])
    BY <1>3
  <2>2. ~(\E n \in 1..Len(s) : s[n] = e)
    BY DEF Elements
  <2>3. k = 1 <=> l = 1
    BY <1>1, <2>1, <2>2
  <2>4. CASE k # 1
    BY <2>1, <2>3, <2>4, <1>1, <1>2 DEF Once
  <2>. QED
    BY <2>3, <2>4
<1>5. Elements(c) \subseteq Elements(s) \cup {e}
  BY <1>1, <1>3, SMTT(60) DEF Elements
<1>6. ASSUME NEW x \in Elements(s) \cup {e} PROVE x \in Elements(c)
  <2>1. CASE x = e
    <3>1. 1 \in 1..Len(c)
      BY <1>1, <1>2
    <3>. QED
      BY <1>1, <2>1, <3>1 DEF Elements
  <2>2. CASE x \in Elements(s)
    <3>1. PICK k \in 1..Len(s) : x = s[k]
      BY <2>2 DEF Elements
    <3>2. k + 1 \in 1..Len(c) /\ c[k + 1] = x
      BY <1>1, <1>2, <3>1
    <3>. QED
      BY <3>2 DEF Elements
  <2>. QED
    BY <2>1, <2>2
<1>. QED
  BY <1>1, <1>4, <1>5, <1>6 DEF c

-----------------------------------------------------------------------------
(* The slices of a block *)

SliceSet == [block : Nat, offset : Nat]

\* Slice k, from 0, of a block cut for a class.
At(block, index, k) == [block |-> block, offset |-> SliceOffset(index, k)]

LEMMA ClassSizes ==
  ASSUME NEW index \in Index
  PROVE  /\ sliceSizeFromIndex(index) \in Nat /\ sliceSizeFromIndex(index) >= 16
         /\ nSlices(index) \in Nat \ {0} /\ MAX_SLICE_INDEX \in Nat
<1>. USE BlockSizeAssumption DEF sizeofBlock, sizeofSlice
<1>1. /\ MAX_SLICE_INDEX \in Nat /\ sliceSizeFromIndex(index) \in Nat
      /\ sliceSizeFromIndex(index) >= 16
      /\ sliceSizeFromIndex(index) <= BLOCK_SIZE - 32
  BY DEF Index, MAX_SLICE_INDEX, sliceSizeFromIndex
<1>2. \A m \in Nat : \A n \in Nat \ {0} : n <= m => m \div n \in Nat \ {0}
  OBVIOUS
<1>. QED
  BY <1>1, <1>2, SMTT(60) DEF nSlices

LEMMA AtTyped ==
  ASSUME NEW block \in Nat, NEW index \in Index, NEW k \in Nat
  PROVE  At(block, index, k) \in SliceSet /\ At(block, index, k).block = block
<1>1. k * sliceSizeFromIndex(index) \in Nat
  BY ClassSizes
<1>. QED
  BY <1>1 DEF At, SliceSet, SliceOffset, sizeofBlock

LEMMA AtDiffers ==
  ASSUME NEW block, NEW index \in Index, NEW k \in Nat, NEW l \in Nat,
         At(block, index, k) = At(block, index, l)
  PROVE  k = l
<1>1. SliceOffset(index, k) = SliceOffset(index, l)
  BY DEF At
<1>2. SliceOffset(index, k) \in Nat
  <2>1. k * sliceSizeFromIndex(index) \in Nat
    BY ClassSizes
  <2>. QED
    BY <2>1 DEF SliceOffset, sizeofBlock
<1>3. sliceSizeFromIndex(index) \in Nat /\ sliceSizeFromIndex(index) >= 16
  BY ClassSizes
<1>4. ~(k < l) /\ ~(l < k)
  BY <1>1, <1>2, <1>3, SlicesApart DEF Index
<1>. QED
  BY <1>4

LEMMA SlicesOnce ==
  ASSUME NEW index \in Index, NEW block \in Nat
  PROVE  /\ Slices(index, block) \in Seq(SliceSet) /\ Slices(index, block) # <<>>
         /\ Once(Slices(index, block))
         /\ Elements(Slices(index, block)) =
              {At(block, index, k) : k \in 0..(nSlices(index) - 1)}
<1>. DEFINE n == nSlices(index)
            s == Slices(index, block)
<1>1. n \in Nat \ {0}
  BY ClassSizes
<1>2. s = [k \in 1..n |-> At(block, index, k - 1)]
  BY DEF Slices, At
<1>. HIDE DEF n, s
<1>3. \A k \in 1..n : k - 1 \in Nat /\ At(block, index, k - 1) \in SliceSet
  BY <1>1, AtTyped
<1>4. s \in Seq(SliceSet) /\ Len(s) = n /\ s # <<>>
  BY <1>1, <1>2, <1>3
<1>5. Once(s)
  <2>. SUFFICES ASSUME NEW k \in 1..n, NEW l \in 1..n, s[k] = s[l] PROVE k = l
    BY <1>4 DEF Once
  <2>1. k - 1 \in Nat /\ l - 1 \in Nat /\ At(block, index, k - 1) = At(block, index, l - 1)
    BY <1>2, <1>3
  <2>2. k - 1 = l - 1
    BY <2>1, AtDiffers
  <2>. QED
    BY <1>1, <2>2
<1>6. ASSUME NEW x \in Elements(s) PROVE x \in {At(block, index, k) : k \in 0..(n - 1)}
  <2>1. PICK k \in 1..n : x = s[k]
    BY <1>4, <1>6 DEF Elements
  <2>2. k - 1 \in 0..(n - 1) /\ x = At(block, index, k - 1)
    BY <1>1, <1>2, <2>1
  <2>. QED
    BY <2>2
<1>7. ASSUME NEW k \in 0..(n - 1) PROVE At(block, index, k) \in Elements(s)
  <2>1. k + 1 \in 1..n /\ (k + 1) - 1 = k
    BY <1>1
  <2>2. s[k + 1] = At(block, index, k)
    BY <1>2, <2>1
  <2>. QED
    BY <1>4, <2>1, <2>2 DEF Elements
<1>. QED
  BY <1>4, <1>5, <1>6, <1>7 DEF s, n

\* What fits a slice is served by a class that fits it too.
LEMMA PartFits ==
  ASSUME NEW index \in Index, NEW size \in Nat \ {0}, size <= sliceSizeFromIndex(index)
  PROVE  /\ sliceSizeToIndex(size) \in Index
         /\ sliceSizeFromIndex(sliceSizeToIndex(size)) <= sliceSizeFromIndex(index)
<1>. USE BlockSizeAssumption DEF sizeofBlock, sizeofSlice, Index, MAX_SLICE_INDEX
<1>1. sliceSizeToIndex(size) \in Nat /\ sliceSizeToIndex(size) <= index
  BY DEF sliceSizeFromIndex, sliceSizeToIndex
<1>. QED
  BY <1>1 DEF sliceSizeFromIndex

-----------------------------------------------------------------------------
(* The inductive invariant: every block is in a list or has been cut, and    *)
(* each slice of a cut block is in one list or in one hand, of a class or a  *)
(* size that fits it.  Stated of values, for allocate() passes through       *)
(* states between.                                                           *)

Typed(blocks, slices, n, hands, cut) ==
  /\ n \in Nat /\ cut \in [Nat -> Index]
  /\ hands \subseteq [slice : SliceSet, size : Nat \ {0}]
  /\ blocks \in [Allocators -> Seq(Nat)]
  /\ slices \in [Allocators -> [Index -> Seq(SliceSet)]]

BlocksOnce(blocks, n) ==
  \A a \in Allocators :
    /\ Once(blocks[a]) /\ Elements(blocks[a]) \subseteq 1..n
    /\ \A b \in Allocators : \A x :
         x \in Elements(blocks[a]) /\ x \in Elements(blocks[b]) => a = b

FreeOnly(slices, hands) ==
  \A a \in Allocators : \A i \in Index :
    /\ Once(slices[a][i])
    /\ \A b \in Allocators : \A j \in Index : \A x :
         x \in Elements(slices[a][i]) /\ x \in Elements(slices[b][j]) => a = b /\ i = j
    /\ \A h \in hands : h.slice \notin Elements(slices[a][i])

HeldOnce(hands) == \A g, h \in hands : g.slice = h.slice => g = h

IsCut(blocks, block) == \A a \in Allocators : block \notin Elements(blocks[a])

\* A slice of a cut block, used for no more than it has.
Placed(slice, length, blocks, n, cut) ==
  /\ slice.block \in 1..n /\ IsCut(blocks, slice.block)
  /\ \E k \in 0..(nSlices(cut[slice.block]) - 1) :
       slice = At(slice.block, cut[slice.block], k)
  /\ length <= sliceSizeFromIndex(cut[slice.block])

AllPlaced(blocks, slices, n, hands, cut) ==
  /\ \A h \in hands : Placed(h.slice, h.size, blocks, n, cut)
  /\ \A a \in Allocators : \A i \in Index : \A x \in Elements(slices[a][i]) :
       Placed(x, sliceSizeFromIndex(i), blocks, n, cut)

Owned(slice, slices, hands) ==
  \/ \E h \in hands : h.slice = slice
  \/ \E a \in Allocators : \E i \in Index : slice \in Elements(slices[a][i])

AllOwned(blocks, slices, n, hands, cut) ==
  \A b \in 1..n : IsCut(blocks, b) =>
    \A k \in 0..(nSlices(cut[b]) - 1) : Owned(At(b, cut[b], k), slices, hands)

Good(blocks, slices, n, hands, cut) ==
  /\ Typed(blocks, slices, n, hands, cut) /\ BlocksOnce(blocks, n)
  /\ FreeOnly(slices, hands) /\ HeldOnce(hands)
  /\ AllPlaced(blocks, slices, n, hands, cut)
  /\ AllOwned(blocks, slices, n, hands, cut)

\* allocateBlocks(): new blocks are nobody's yet.
LEMMA ObtainGood ==
  ASSUME NEW blocks, NEW slices, NEW n, NEW hands, NEW cut, NEW a \in Allocators,
         Good(blocks, slices, n, hands, cut), blocks[a] = <<>>
  PROVE  Good([blocks EXCEPT ![a] = [k \in 1..nBlocks |-> n + k]],
              slices, n + nBlocks, hands, cut)
<1>. DEFINE fresh == [k \in 1..nBlocks |-> n + k]
            after == [blocks EXCEPT ![a] = fresh]
<1>1. nBlocks \in Nat /\ n \in Nat /\ n + nBlocks \in Nat
  BY AllocatorAssumption DEF Good, Typed
<1>2. fresh \in Seq(Nat) /\ Len(fresh) = nBlocks /\ Once(fresh)
  BY <1>1 DEF Once
<1>3. ASSUME NEW x \in Elements(fresh) PROVE x \in 1..(n + nBlocks) /\ x \notin 1..n
  BY <1>1, <1>2 DEF Elements
<1>. HIDE DEF fresh
<1>4. /\ blocks \in [Allocators -> Seq(Nat)] /\ after \in [Allocators -> Seq(Nat)]
      /\ \A b \in Allocators : after[b] = IF b = a THEN fresh ELSE blocks[b]
  BY <1>2 DEF Good, Typed
<1>. HIDE DEF after
<1>5. Typed(after, slices, n + nBlocks, hands, cut)
  BY <1>1, <1>4 DEF Good, Typed
<1>6. \A b \in Allocators : Elements(blocks[b]) \subseteq 1..n /\ 1..n \subseteq 1..(n + nBlocks)
  BY <1>1 DEF Good, BlocksOnce
<1>7. BlocksOnce(after, n + nBlocks)
  <2>. SUFFICES ASSUME NEW b \in Allocators
                PROVE  /\ Once(after[b]) /\ Elements(after[b]) \subseteq 1..(n + nBlocks)
                       /\ \A c \in Allocators : \A x :
                            x \in Elements(after[b]) /\ x \in Elements(after[c]) => b = c
    BY DEF BlocksOnce
  <2>1. Once(after[b])
    BY <1>2, <1>4 DEF Good, BlocksOnce
  <2>2. Elements(after[b]) \subseteq 1..(n + nBlocks)
    BY <1>3, <1>4, <1>6
  <2>3. ASSUME NEW c \in Allocators, NEW x, x \in Elements(after[b]), x \in Elements(after[c])
        PROVE  b = c
    <3>1. CASE b = a /\ c = a
      BY <3>1
    <3>2. CASE b # a /\ c # a
      BY <3>2, <2>3, <1>4 DEF Good, BlocksOnce
    <3>3. CASE b = a /\ c # a
      BY <3>3, <2>3, <1>3, <1>4, <1>6
    <3>4. CASE b # a /\ c = a
      BY <3>4, <2>3, <1>3, <1>4, <1>6
    <3>. QED
      BY <3>1, <3>2, <3>3, <3>4
  <2>. QED
    BY <2>1, <2>2, <2>3
<1>8. ASSUME NEW x \in 1..n PROVE IsCut(after, x) <=> IsCut(blocks, x)
  <2>1. x \notin Elements(fresh) /\ x \notin Elements(blocks[a])
    BY <1>3, EmptyOnce
  <2>. QED
    BY <1>4, <2>1 DEF IsCut
<1>9. ASSUME NEW x, NEW length, Placed(x, length, blocks, n, cut)
      PROVE  Placed(x, length, after, n + nBlocks, cut)
  BY <1>9, <1>8, <1>6 DEF Placed
<1>10. AllPlaced(after, slices, n + nBlocks, hands, cut)
  BY <1>9 DEF Good, AllPlaced
<1>11. ASSUME NEW x \in 1..(n + nBlocks), IsCut(after, x) PROVE x \in 1..n
  <2>1. CASE x > n
    <3>1. x - n \in 1..nBlocks /\ x = n + (x - n)
      BY <1>1, <2>1
    <3>2. fresh[x - n] = x
      BY <3>1 DEF fresh
    <3>3. x \in Elements(fresh)
      BY <1>2, <3>1, <3>2 DEF Elements
    <3>. QED
      BY <1>4, <1>11, <3>3 DEF IsCut
  <2>. QED
    BY <1>1, <2>1
<1>12. AllOwned(after, slices, n + nBlocks, hands, cut)
  BY <1>8, <1>11 DEF Good, AllOwned
<1>. QED
  BY <1>5, <1>7, <1>10, <1>12 DEF Good, after, fresh

\* sliceBlock(): a free block becomes the slices of a list that had none.
LEMMA CutGood ==
  ASSUME NEW blocks, NEW slices, NEW n, NEW hands, NEW cut,
         NEW a \in Allocators, NEW i \in Index,
         Good(blocks, slices, n, hands, cut), blocks[a] # <<>>, slices[a][i] = <<>>
  PROVE  Good([blocks EXCEPT ![a] = Tail(@)],
              [slices EXCEPT ![a][i] = Slices(i, Head(blocks[a]))],
              n, hands, [cut EXCEPT ![Head(blocks[a])] = i])
<1>. DEFINE block == Head(blocks[a])
            made == Slices(i, block)
            blocks1 == [blocks EXCEPT ![a] = Tail(@)]
            slices1 == [slices EXCEPT ![a][i] = made]
            cut1 == [cut EXCEPT ![block] = i]
<1>1. Typed(blocks, slices, n, hands, cut)
  BY DEF Good
<1>2. BlocksOnce(blocks, n) /\ FreeOnly(slices, hands) /\ HeldOnce(hands)
  BY DEF Good
<1>3. /\ Tail(blocks[a]) \in Seq(Nat) /\ Once(Tail(blocks[a])) /\ block \in Nat
      /\ block \in Elements(blocks[a])
      /\ Elements(Tail(blocks[a])) = Elements(blocks[a]) \ {block}
  <2>1. blocks[a] \in Seq(Nat) /\ Once(blocks[a])
    BY <1>1, <1>2 DEF Typed, BlocksOnce
  <2>. QED
    BY <2>1, TailOnce
<1>4. block \in 1..n
  BY <1>2, <1>3 DEF BlocksOnce
<1>. HIDE DEF block
<1>5. /\ made \in Seq(SliceSet) /\ Once(made)
      /\ Elements(made) = {At(block, i, k) : k \in 0..(nSlices(i) - 1)}
  BY <1>3, SlicesOnce
<1>6. \A x \in Elements(made) : x.block = block
  BY <1>3, <1>5, AtTyped, ClassSizes
<1>. HIDE DEF made
<1>7. /\ blocks1 \in [Allocators -> Seq(Nat)]
      /\ \A b \in Allocators : blocks1[b] = IF b = a THEN Tail(blocks[a]) ELSE blocks[b]
  BY <1>1, <1>3 DEF Typed
<1>8. /\ slices1 \in [Allocators -> [Index -> Seq(SliceSet)]]
      /\ \A b \in Allocators : \A j \in Index :
           slices1[b][j] = IF b = a /\ j = i THEN made ELSE slices[b][j]
  BY <1>1, <1>5 DEF Typed
<1>9. /\ cut1 \in [Nat -> Index] /\ cut1[block] = i
      /\ \A b \in Nat \ {block} : cut1[b] = cut[b]
  BY <1>1, <1>3 DEF Typed
<1>. HIDE DEF blocks1, slices1, cut1
<1>10. Typed(blocks1, slices1, n, hands, cut1)
  BY <1>1, <1>7, <1>8, <1>9 DEF Typed
<1>11. \A b \in Allocators : Elements(blocks1[b]) = Elements(blocks[b]) \ {block}
  <2>1. \A b \in Allocators : block \in Elements(blocks[b]) => b = a
    BY <1>2, <1>3 DEF BlocksOnce
  <2>. QED
    BY <1>3, <1>7, <2>1
<1>12. BlocksOnce(blocks1, n)
  BY <1>2, <1>3, <1>7, <1>11 DEF BlocksOnce
<1>13. ASSUME NEW x PROVE IsCut(blocks1, x) <=> x = block \/ IsCut(blocks, x)
  BY <1>11 DEF IsCut
<1>14. ~IsCut(blocks, block)
  BY <1>3 DEF IsCut
<1>15. ASSUME NEW b \in Allocators, NEW j \in Index, NEW x \in Elements(slices[b][j])
       PROVE  x.block # block
  BY <1>14 DEF Good, AllPlaced, Placed
<1>16. ASSUME NEW h \in hands PROVE h.slice.block # block
  BY <1>14 DEF Good, AllPlaced, Placed
<1>17. FreeOnly(slices1, hands)
  <2>. SUFFICES ASSUME NEW b \in Allocators, NEW j \in Index
                PROVE  /\ Once(slices1[b][j])
                       /\ \A c \in Allocators : \A k \in Index : \A x :
                            x \in Elements(slices1[b][j]) /\ x \in Elements(slices1[c][k])
                              => b = c /\ j = k
                       /\ \A h \in hands : h.slice \notin Elements(slices1[b][j])
    BY DEF FreeOnly
  <2>1. Once(slices1[b][j])
    BY <1>2, <1>5, <1>8 DEF FreeOnly
  <2>2. ASSUME NEW c \in Allocators, NEW k \in Index, NEW x,
               x \in Elements(slices1[b][j]), x \in Elements(slices1[c][k])
        PROVE  b = c /\ j = k
    <3>1. CASE b = a /\ j = i
      BY <3>1, <2>2, <1>6, <1>8, <1>15
    <3>2. CASE c = a /\ k = i
      BY <3>2, <2>2, <1>6, <1>8, <1>15, ZenonT(60)
    <3>3. CASE ~(b = a /\ j = i) /\ ~(c = a /\ k = i)
      <4>1. x \in Elements(slices[b][j]) /\ x \in Elements(slices[c][k])
        BY <3>3, <2>2, <1>8
      <4>. QED
        BY <4>1, <1>2 DEF FreeOnly
    <3>. QED
      BY <3>1, <3>2, <3>3
  <2>3. ASSUME NEW h \in hands PROVE h.slice \notin Elements(slices1[b][j])
    BY <1>2, <1>6, <1>8, <1>16, ZenonT(60) DEF FreeOnly
  <2>. QED
    BY <2>1, <2>2, <2>3
<1>18. ASSUME NEW x, NEW length, Placed(x, length, blocks, n, cut)
       PROVE  Placed(x, length, blocks1, n, cut1)
  <2>1. x.block \in 1..n /\ x.block # block /\ IsCut(blocks1, x.block)
    BY <1>13, <1>14, <1>18 DEF Placed
  <2>2. cut1[x.block] = cut[x.block]
    <3>1. n \in Nat
      BY <1>1 DEF Typed
    <3>2. x.block \in Nat \ {block}
      BY <2>1, <3>1
    <3>. QED
      BY <1>9, <3>2
  <2>. QED
    BY <1>18, <2>1, <2>2 DEF Placed
<1>19. ASSUME NEW x \in Elements(made)
       PROVE  Placed(x, sliceSizeFromIndex(i), blocks1, n, cut1)
  <2>1. x.block = block /\ IsCut(blocks1, block)
    BY <1>6, <1>13
  <2>2. \E k \in 0..(nSlices(i) - 1) : x = At(block, i, k)
    BY <1>5
  <2>3. sliceSizeFromIndex(i) <= sliceSizeFromIndex(i)
    BY ClassSizes
  <2>. QED
    BY <1>4, <1>9, <2>1, <2>2, <2>3 DEF Placed
<1>20. AllPlaced(blocks1, slices1, n, hands, cut1)
  <2>1. AllPlaced(blocks, slices, n, hands, cut)
    BY DEF Good
  <2>. QED
    BY <1>8, <1>18, <1>19, <2>1 DEF AllPlaced
<1>21. ASSUME NEW x, Owned(x, slices, hands) PROVE Owned(x, slices1, hands)
  <2>1. ASSUME NEW b \in Allocators, NEW j \in Index, x \in Elements(slices[b][j])
        PROVE  slices1[b][j] = slices[b][j]
    BY <1>8, <2>1, EmptyOnce
  <2>. QED
    BY <1>21, <2>1 DEF Owned
<1>22. AllOwned(blocks1, slices1, n, hands, cut1)
  <2>. SUFFICES ASSUME NEW b \in 1..n, IsCut(blocks1, b), NEW k \in 0..(nSlices(cut1[b]) - 1)
                PROVE  Owned(At(b, cut1[b], k), slices1, hands)
    BY DEF AllOwned
  <2>1. CASE b = block
    <3>1. At(b, i, k) \in Elements(slices1[a][i])
      BY <2>1, <1>5, <1>8, <1>9
    <3>. QED
      BY <2>1, <3>1, <1>9 DEF Owned
  <2>2. CASE b # block
    <3>1. cut1[b] = cut[b] /\ IsCut(blocks, b)
      BY <2>2, <1>1, <1>9, <1>13 DEF Typed
    <3>2. Owned(At(b, cut[b], k), slices, hands)
      BY <3>1 DEF Good, AllOwned
    <3>. QED
      BY <3>1, <3>2, <1>21
  <2>. QED
    BY <2>1, <2>2
<1>. QED
  BY <1>2, <1>10, <1>12, <1>17, <1>20, <1>22 DEF Good, blocks1, slices1, cut1, made, block

\* The first slice of a list passes to a caller.
LEMMA TakeGood ==
  ASSUME NEW blocks, NEW slices, NEW n, NEW hands, NEW cut,
         NEW a \in Allocators, NEW i \in Index, NEW size \in Nat \ {0},
         Good(blocks, slices, n, hands, cut), slices[a][i] # <<>>,
         size <= sliceSizeFromIndex(i)
  PROVE  Good(blocks, [slices EXCEPT ![a][i] = Tail(slices[a][i])], n,
              hands \cup {[slice |-> Head(slices[a][i]), size |-> size]}, cut)
<1>. DEFINE first == Head(slices[a][i])
            slices1 == [slices EXCEPT ![a][i] = Tail(slices[a][i])]
            hand == [slice |-> first, size |-> size]
<1>1. Typed(blocks, slices, n, hands, cut)
  BY DEF Good
<1>2. BlocksOnce(blocks, n) /\ FreeOnly(slices, hands) /\ HeldOnce(hands)
  BY DEF Good
<1>3. AllPlaced(blocks, slices, n, hands, cut) /\ AllOwned(blocks, slices, n, hands, cut)
  BY DEF Good
<1>4. /\ Tail(slices[a][i]) \in Seq(SliceSet) /\ Once(Tail(slices[a][i])) /\ first \in SliceSet
      /\ first \in Elements(slices[a][i])
      /\ Elements(Tail(slices[a][i])) = Elements(slices[a][i]) \ {first}
  <2>1. slices[a][i] \in Seq(SliceSet) /\ Once(slices[a][i])
    BY <1>1, <1>2 DEF Typed, FreeOnly
  <2>. QED
    BY <2>1, TailOnce
<1>. HIDE DEF first
<1>5. hand \in [slice : SliceSet, size : Nat \ {0}] /\ hand.slice = first /\ hand.size = size
  BY <1>4
<1>. HIDE DEF hand
<1>6. /\ slices1 \in [Allocators -> [Index -> Seq(SliceSet)]]
      /\ \A b \in Allocators : \A j \in Index :
           slices1[b][j] = IF b = a /\ j = i THEN Tail(slices[a][i]) ELSE slices[b][j]
  BY <1>1, <1>4 DEF Typed
<1>. HIDE DEF slices1
<1>7. Typed(blocks, slices1, n, hands \cup {hand}, cut)
  BY <1>1, <1>5, <1>6 DEF Typed
<1>8. \A b \in Allocators : \A j \in Index :
        Elements(slices1[b][j]) = Elements(slices[b][j]) \ {first}
  <2>1. \A b \in Allocators : \A j \in Index : first \in Elements(slices[b][j]) => b = a /\ j = i
    BY <1>2, <1>4 DEF FreeOnly
  <2>. QED
    BY <1>4, <1>6, <2>1
<1>9. FreeOnly(slices1, hands \cup {hand})
  <2>. SUFFICES ASSUME NEW b \in Allocators, NEW j \in Index
                PROVE  /\ Once(slices1[b][j])
                       /\ \A c \in Allocators : \A k \in Index : \A x :
                            x \in Elements(slices1[b][j]) /\ x \in Elements(slices1[c][k])
                              => b = c /\ j = k
                       /\ \A h \in hands \cup {hand} : h.slice \notin Elements(slices1[b][j])
    BY DEF FreeOnly
  <2>1. Once(slices1[b][j])
    BY <1>2, <1>4, <1>6 DEF FreeOnly
  <2>2. ASSUME NEW c \in Allocators, NEW k \in Index, NEW x,
               x \in Elements(slices1[b][j]), x \in Elements(slices1[c][k])
        PROVE  b = c /\ j = k
    BY <2>2, <1>2, <1>8, SMTT(60) DEF FreeOnly
  <2>3. ASSUME NEW h \in hands \cup {hand} PROVE h.slice \notin Elements(slices1[b][j])
    BY <1>2, <1>5, <1>8, SMTT(60) DEF FreeOnly
  <2>. QED
    BY <2>1, <2>2, <2>3
<1>10. HeldOnce(hands \cup {hand})
  <2>1. \A h \in hands : h.slice # first
    BY <1>2, <1>4 DEF FreeOnly
  <2>. QED
    BY <1>2, <1>5, <2>1 DEF HeldOnce
<1>11. Placed(first, size, blocks, n, cut)
  <2>1. Placed(first, sliceSizeFromIndex(i), blocks, n, cut)
    BY <1>3, <1>4 DEF AllPlaced
  <2>2. first.block \in Nat /\ cut \in [Nat -> Index]
    BY <1>1, <1>4 DEF Typed, SliceSet
  <2>3. /\ sliceSizeFromIndex(cut[first.block]) \in Nat /\ sliceSizeFromIndex(i) \in Nat
    BY <2>2, ClassSizes
  <2>. QED
    BY <2>1, <2>3 DEF Placed
<1>12. AllPlaced(blocks, slices1, n, hands \cup {hand}, cut)
  BY <1>3, <1>5, <1>8, <1>11, ZenonT(60) DEF AllPlaced
<1>13. ASSUME NEW x, Owned(x, slices, hands) PROVE Owned(x, slices1, hands \cup {hand})
  <2>1. CASE x = first
    BY <2>1, <1>5 DEF Owned
  <2>2. CASE x # first
    <3>1. \A b \in Allocators : \A j \in Index :
            x \in Elements(slices[b][j]) => x \in Elements(slices1[b][j])
      BY <1>8, <2>2
    <3>. QED
      BY <1>13, <3>1 DEF Owned
  <2>. QED
    BY <2>1, <2>2
<1>14. AllOwned(blocks, slices1, n, hands \cup {hand}, cut)
  BY <1>3, <1>13 DEF AllOwned
<1>. QED
  BY <1>2, <1>7, <1>9, <1>10, <1>12, <1>14 DEF Good, slices1, hand, first

\* deallocateSlice(): a slice in a hand passes to a list, of a class that it
\* has the room for.
LEMMA GiveGood ==
  ASSUME NEW blocks, NEW slices, NEW n, NEW hands, NEW cut,
         NEW a \in Allocators, NEW i \in Index, NEW hand \in hands,
         Good(blocks, slices, n, hands, cut),
         sliceSizeFromIndex(i) <= sliceSizeFromIndex(cut[hand.slice.block])
  PROVE  Good(blocks, [slices EXCEPT ![a][i] = S!Cons(hand.slice, @)], n, hands \ {hand}, cut)
<1>. DEFINE slice == hand.slice
            slices1 == [slices EXCEPT ![a][i] = S!Cons(hand.slice, @)]
<1>1. Typed(blocks, slices, n, hands, cut)
  BY DEF Good
<1>2. BlocksOnce(blocks, n) /\ FreeOnly(slices, hands) /\ HeldOnce(hands)
  BY DEF Good
<1>3. AllPlaced(blocks, slices, n, hands, cut) /\ AllOwned(blocks, slices, n, hands, cut)
  BY DEF Good
<1>4. slice \in SliceSet /\ \A b \in Allocators : \A j \in Index : slice \notin Elements(slices[b][j])
  BY <1>1, <1>2 DEF Typed, FreeOnly
<1>. HIDE DEF slice
<1>5. /\ S!Cons(slice, slices[a][i]) \in Seq(SliceSet) /\ Once(S!Cons(slice, slices[a][i]))
      /\ Elements(S!Cons(slice, slices[a][i])) = Elements(slices[a][i]) \cup {slice}
  <2>1. slices[a][i] \in Seq(SliceSet) /\ Once(slices[a][i])
    BY <1>1, <1>2 DEF Typed, FreeOnly
  <2>. QED
    BY <1>4, <2>1, ConsOnce
<1>6. slices1 = [slices EXCEPT ![a][i] = S!Cons(slice, slices[a][i])]
  BY DEF slice
<1>7. /\ slices1 \in [Allocators -> [Index -> Seq(SliceSet)]]
      /\ \A b \in Allocators : \A j \in Index :
           slices1[b][j] = IF b = a /\ j = i THEN S!Cons(slice, slices[a][i]) ELSE slices[b][j]
  <2>. HIDE DEF slices1
  <2>. DEFINE longer == S!Cons(slice, slices[a][i])
  <2>. HIDE DEF longer
  <2>1. slices1 = [slices EXCEPT ![a][i] = longer] /\ longer \in Seq(SliceSet)
    BY <1>5, <1>6 DEF longer
  <2>2. /\ slices1 \in [Allocators -> [Index -> Seq(SliceSet)]]
        /\ \A b \in Allocators : \A j \in Index :
             slices1[b][j] = IF b = a /\ j = i THEN longer ELSE slices[b][j]
    BY <1>1, <2>1 DEF Typed
  <2>. QED
    BY <2>2 DEF longer
<1>. HIDE DEF slices1
<1>8. Typed(blocks, slices1, n, hands \ {hand}, cut)
  BY <1>1, <1>7 DEF Typed
<1>9. /\ Elements(slices1[a][i]) = Elements(slices[a][i]) \cup {slice}
      /\ \A b \in Allocators : \A j \in Index :
           ~(b = a /\ j = i) => Elements(slices1[b][j]) = Elements(slices[b][j])
  BY <1>5, <1>7
<1>10. FreeOnly(slices1, hands \ {hand})
  <2>. SUFFICES ASSUME NEW b \in Allocators, NEW j \in Index
                PROVE  /\ Once(slices1[b][j])
                       /\ \A c \in Allocators : \A k \in Index : \A x :
                            x \in Elements(slices1[b][j]) /\ x \in Elements(slices1[c][k])
                              => b = c /\ j = k
                       /\ \A h \in hands \ {hand} : h.slice \notin Elements(slices1[b][j])
    BY DEF FreeOnly
  <2>1. Once(slices1[b][j])
    BY <1>2, <1>5, <1>7 DEF FreeOnly
  <2>2. ASSUME NEW c \in Allocators, NEW k \in Index, NEW x,
               x \in Elements(slices1[b][j]), x \in Elements(slices1[c][k])
        PROVE  b = c /\ j = k
    <3>1. CASE x = slice
      BY <3>1, <2>2, <1>4, <1>9
    <3>2. CASE x # slice
      <4>1. x \in Elements(slices[b][j]) /\ x \in Elements(slices[c][k])
        BY <3>2, <2>2, <1>9
      <4>. QED
        BY <4>1, <1>2 DEF FreeOnly
    <3>. QED
      BY <3>1, <3>2
  <2>3. ASSUME NEW h \in hands \ {hand} PROVE h.slice \notin Elements(slices1[b][j])
    <3>1. h.slice # slice
      BY <1>2 DEF HeldOnce, slice
    <3>2. h.slice \notin Elements(slices[b][j])
      BY <1>2 DEF FreeOnly
    <3>. QED
      BY <1>9, <3>1, <3>2
  <2>. QED
    BY <2>1, <2>2, <2>3
<1>11. HeldOnce(hands \ {hand})
  BY <1>2 DEF HeldOnce
<1>12. Placed(slice, sliceSizeFromIndex(i), blocks, n, cut)
  <2>1. Placed(slice, hand.size, blocks, n, cut)
    BY <1>3 DEF AllPlaced, slice
  <2>2. sliceSizeFromIndex(i) <= sliceSizeFromIndex(cut[slice.block])
    BY DEF slice
  <2>. QED
    BY <2>1, <2>2 DEF Placed
<1>13. AllPlaced(blocks, slices1, n, hands \ {hand}, cut)
  BY <1>3, <1>9, <1>12 DEF AllPlaced
<1>14. ASSUME NEW x, Owned(x, slices, hands) PROVE Owned(x, slices1, hands \ {hand})
  <2>1. CASE x = slice
    BY <2>1, <1>9 DEF Owned
  <2>2. CASE x # slice
    <3>1. \A h \in hands : h.slice = x => h \in hands \ {hand}
      BY <2>2 DEF slice
    <3>2. \A b \in Allocators : \A j \in Index :
            x \in Elements(slices[b][j]) => x \in Elements(slices1[b][j])
      BY <1>9
    <3>. QED
      BY <1>14, <3>1, <3>2 DEF Owned
  <2>. QED
    BY <2>1, <2>2
<1>15. AllOwned(blocks, slices1, n, hands \ {hand}, cut)
  BY <1>3, <1>14 DEF AllOwned
<1>. QED
  BY <1>2, <1>8, <1>10, <1>11, <1>13, <1>15 DEF Good, slices1

-----------------------------------------------------------------------------
(* The calls *)

\* The first slice of a block just cut passes to a caller.
LEMMA CutTakeGood ==
  ASSUME NEW blocks, NEW slices, NEW n, NEW hands, NEW cut,
         NEW a \in Allocators, NEW i \in Index, NEW size \in Nat \ {0},
         Good(blocks, slices, n, hands, cut), blocks[a] # <<>>, slices[a][i] = <<>>,
         size <= sliceSizeFromIndex(i)
  PROVE  \E c : Good([blocks EXCEPT ![a] = Tail(blocks[a])],
                     [slices EXCEPT ![a][i] = Tail(Slices(i, Head(blocks[a])))], n,
                     hands \cup {[slice |-> Head(Slices(i, Head(blocks[a]))), size |-> size]}, c)
<1>. DEFINE made == Slices(i, Head(blocks[a]))
            slices1 == [slices EXCEPT ![a][i] = made]
            c == [cut EXCEPT ![Head(blocks[a])] = i]
            blocks1 == [blocks EXCEPT ![a] = Tail(blocks[a])]
<1>1. Good(blocks1, slices1, n, hands, c)
  BY CutGood
<1>2. blocks[a] \in Seq(Nat) /\ slices \in [Allocators -> [Index -> Seq(SliceSet)]]
  BY DEF Good, Typed
<1>3. made # <<>>
  <2>1. Head(blocks[a]) \in Nat
    BY <1>2, HeadTailProperties
  <2>. QED
    BY <2>1, SlicesOnce
<1>. HIDE DEF made, blocks1, c
<1>4. slices1[a][i] = made
  BY <1>2
<1>5. [slices1 EXCEPT ![a][i] = Tail(made)] = [slices EXCEPT ![a][i] = Tail(made)]
  BY <1>2
<1>. HIDE DEF slices1
<1>6. Good(blocks1, [slices1 EXCEPT ![a][i] = Tail(slices1[a][i])], n,
           hands \cup {[slice |-> Head(slices1[a][i]), size |-> size]}, c)
  BY <1>1, <1>3, <1>4, TakeGood
<1>7. Good(blocks1, [slices EXCEPT ![a][i] = Tail(made)], n,
           hands \cup {[slice |-> Head(made), size |-> size]}, c)
  BY <1>4, <1>5, <1>6
<1>. QED
  BY <1>7 DEF made, blocks1

InOrder(cut) == Good(mFreeBlocks, mFreeSlices, obtained, live, cut)

LEMMA AllocateInOrder ==
  ASSUME NEW cut, InOrder(cut), NEW a \in Allocators, NEW size \in 1..LargestSliced,
         allocate(a, size)
  PROVE  \E c : InOrder(c)'
<1>. DEFINE i == sliceSizeToIndex(size)
<1>1. i \in Index /\ size <= sliceSizeFromIndex(i) /\ size \in Nat \ {0}
  <2>1. LargestSliced \in Nat
    BY BlockSizeAssumption DEF LargestSliced, sizeofBlock
  <2>2. ClassServes(size)
    BY EveryClassServes
  <2>3. i \in Index
    BY <2>2 DEF ClassServes, Index
  <2>4. sliceSizeFromIndex(i) \in Nat
    BY <2>3, ClassSizes
  <2>. QED
    BY <2>1, <2>2, <2>3, <2>4 DEF ClassServes
<1>. HIDE DEF i
<1>2. Good(mFreeBlocks, mFreeSlices, obtained, live, cut)
  BY DEF InOrder
<1>3. mFreeBlocks \in [Allocators -> Seq(Nat)] /\ obtained \in Nat
  BY <1>2 DEF Good, Typed
<1>4. /\ obtained' = IF mFreeSlices[a][i] = <<>> /\ mFreeBlocks[a] = <<>>
                       THEN obtained + nBlocks ELSE obtained
      /\ \E now \in {IF mFreeSlices[a][i] = <<>> THEN Sliced(a, i)
                     ELSE [blocks |-> mFreeBlocks[a], slices |-> mFreeSlices[a][i]]} :
           /\ mFreeBlocks' = [mFreeBlocks EXCEPT ![a] = now.blocks]
           /\ mFreeSlices' = [mFreeSlices EXCEPT ![a][i] = Tail(now.slices)]
           /\ live' = live \cup {[slice |-> Head(now.slices), size |-> size]}
  BY DEF allocate, i
<1>5. PICK now \in {IF mFreeSlices[a][i] = <<>> THEN Sliced(a, i)
                  ELSE [blocks |-> mFreeBlocks[a], slices |-> mFreeSlices[a][i]]} :
            /\ mFreeBlocks' = [mFreeBlocks EXCEPT ![a] = now.blocks]
            /\ mFreeSlices' = [mFreeSlices EXCEPT ![a][i] = Tail(now.slices)]
            /\ live' = live \cup {[slice |-> Head(now.slices), size |-> size]}
  BY <1>4
<1>6. CASE mFreeSlices[a][i] # <<>>
  <2>0. now.blocks = mFreeBlocks[a] /\ now.slices = mFreeSlices[a][i]
    BY <1>6, <1>5
  <2>1. /\ mFreeBlocks' = [mFreeBlocks EXCEPT ![a] = mFreeBlocks[a]] /\ obtained' = obtained
        /\ mFreeSlices' = [mFreeSlices EXCEPT ![a][i] = Tail(mFreeSlices[a][i])]
        /\ live' = live \cup {[slice |-> Head(mFreeSlices[a][i]), size |-> size]}
    BY <1>4, <1>6, <1>5, <2>0
  <2>2. mFreeBlocks' = mFreeBlocks
    BY <1>3, <2>1
  <2>3. Good(mFreeBlocks, [mFreeSlices EXCEPT ![a][i] = Tail(mFreeSlices[a][i])], obtained,
             live \cup {[slice |-> Head(mFreeSlices[a][i]), size |-> size]}, cut)
    BY <1>1, <1>2, <1>6, TakeGood
  <2>. QED
    BY <2>1, <2>2, <2>3 DEF InOrder
<1>7. CASE mFreeSlices[a][i] = <<>> /\ mFreeBlocks[a] # <<>>
  <2>1. /\ mFreeBlocks' = [mFreeBlocks EXCEPT ![a] = Tail(mFreeBlocks[a])] /\ obtained' = obtained
        /\ mFreeSlices' = [mFreeSlices EXCEPT ![a][i] = Tail(Slices(i, Head(mFreeBlocks[a])))]
        /\ live' = live \cup {[slice |-> Head(Slices(i, Head(mFreeBlocks[a]))), size |-> size]}
    <3>1. now.blocks = Tail(mFreeBlocks[a]) /\ now.slices = Slices(i, Head(mFreeBlocks[a]))
      BY <1>7, <1>5 DEF Sliced
    <3>. QED
      BY <1>4, <1>7, <1>5, <3>1
  <2>2. \E c : Good([mFreeBlocks EXCEPT ![a] = Tail(mFreeBlocks[a])],
                    [mFreeSlices EXCEPT ![a][i] = Tail(Slices(i, Head(mFreeBlocks[a])))], obtained,
                    live \cup {[slice |-> Head(Slices(i, Head(mFreeBlocks[a]))), size |-> size]}, c)
    BY <1>1, <1>2, <1>7, CutTakeGood
  <2>. QED
    BY <2>1, <2>2 DEF InOrder
<1>8. CASE mFreeSlices[a][i] = <<>> /\ mFreeBlocks[a] = <<>>
  <2>. DEFINE fresh == [k \in 1..nBlocks |-> obtained + k]
              blocks == [mFreeBlocks EXCEPT ![a] = fresh]
              n == obtained + nBlocks
  <2>1. Blocks(<<>>) = fresh /\ fresh # <<>>
    <3>1. fresh \in Seq(Nat) /\ Len(fresh) = nBlocks /\ nBlocks # 0
      BY <1>3, AllocatorAssumption, SMTT(60)
    <3>2. Blocks(<<>>) = <<>> \o fresh
      BY DEF Blocks
    <3>. HIDE DEF fresh
    <3>3. fresh # <<>>
      BY <3>1, EmptySeq
    <3>. QED
      BY <3>1, <3>2, <3>3, ConcatEmptySeq
  <2>2. /\ mFreeBlocks' = [mFreeBlocks EXCEPT ![a] = Tail(Blocks(<<>>))] /\ obtained' = n
        /\ mFreeSlices' = [mFreeSlices EXCEPT ![a][i] = Tail(Slices(i, Head(Blocks(<<>>))))]
        /\ live' = live \cup {[slice |-> Head(Slices(i, Head(Blocks(<<>>)))), size |-> size]}
    <3>1. now.blocks = Tail(Blocks(<<>>)) /\ now.slices = Slices(i, Head(Blocks(<<>>)))
      BY <1>8, <1>5 DEF Sliced
    <3>. QED
      BY <1>4, <1>8, <1>5, <3>1
  <2>3. Good(blocks, mFreeSlices, n, live, cut)
    BY <1>2, <1>8, ObtainGood
  <2>. HIDE DEF fresh, n
  <2>4. blocks[a] = fresh /\ [blocks EXCEPT ![a] = Tail(fresh)] = [mFreeBlocks EXCEPT ![a] = Tail(fresh)]
    BY <1>3
  <2>. HIDE DEF blocks
  <2>5. \E c : Good([blocks EXCEPT ![a] = Tail(blocks[a])],
                    [mFreeSlices EXCEPT ![a][i] = Tail(Slices(i, Head(blocks[a])))], n,
                    live \cup {[slice |-> Head(Slices(i, Head(blocks[a]))), size |-> size]}, c)
    BY <1>1, <1>8, <2>1, <2>3, <2>4, CutTakeGood
  <2>. QED
    BY <2>1, <2>2, <2>4, <2>5 DEF InOrder
<1>. QED
  BY <1>6, <1>7, <1>8

LEMMA DeallocateInOrder ==
  ASSUME NEW cut, InOrder(cut), NEW a \in Allocators, NEW held \in live,
         NEW size \in 1..held.size, deallocate(a, held, size)
  PROVE  \E c : InOrder(c)'
<1>. DEFINE i == sliceSizeToIndex(size)
            index == cut[held.slice.block]
<1>1. Good(mFreeBlocks, mFreeSlices, obtained, live, cut)
  BY DEF InOrder
<1>2. index \in Index /\ held.size <= sliceSizeFromIndex(index) /\ held.size \in Nat \ {0}
  <2>1. Typed(mFreeBlocks, mFreeSlices, obtained, live, cut)
    BY <1>1 DEF Good
  <2>2. held.slice.block \in Nat /\ held.size \in Nat \ {0} /\ cut \in [Nat -> Index]
    BY <2>1 DEF Typed, SliceSet
  <2>3. Placed(held.slice, held.size, mFreeBlocks, obtained, cut)
    BY <1>1 DEF Good, AllPlaced
  <2>. QED
    BY <2>2, <2>3 DEF Placed
<1>. HIDE DEF index
<1>3. size \in Nat \ {0} /\ size <= sliceSizeFromIndex(index)
  <2>1. sliceSizeFromIndex(index) \in Nat
    BY <1>2, ClassSizes
  <2>. QED
    BY <1>2, <2>1
<1>4. i \in Index /\ sliceSizeFromIndex(i) <= sliceSizeFromIndex(index)
  BY <1>2, <1>3, PartFits
<1>5. /\ mFreeBlocks' = mFreeBlocks /\ obtained' = obtained
      /\ mFreeSlices' = [mFreeSlices EXCEPT ![a][i] = S!Cons(held.slice, @)]
      /\ live' = live \ {held}
  BY DEF deallocate
<1>. HIDE DEF i
<1>6. Good(mFreeBlocks, [mFreeSlices EXCEPT ![a][i] = S!Cons(held.slice, @)], obtained,
           live \ {held}, cut)
  BY <1>1, <1>4, GiveGood DEF index
<1>. QED
  BY <1>5, <1>6 DEF InOrder

-----------------------------------------------------------------------------
(* What the invariant says of the memory *)

\* A place in a list of free slices, by its list and its number.
LEMMA PlaceIs ==
  /\ \A p \in FreePlaces : \E a \in Allocators : \E i \in Index :
       \E k \in DOMAIN mFreeSlices[a][i] : p = [list |-> <<a, i>>, at |-> k]
  /\ \A a \in Allocators : \A i \in Index : \A k \in DOMAIN mFreeSlices[a][i] :
       [list |-> <<a, i>>, at |-> k] \in FreePlaces
  /\ \A a \in Allocators : \A i \in Index : \A k :
       /\ SliceAt([list |-> <<a, i>>, at |-> k]) = mFreeSlices[a][i][k]
       /\ [list |-> <<a, i>>, at |-> k].list[2] = i
<1>. DEFINE Of(a, i) == {[list |-> <<a, i>>, at |-> k] : k \in DOMAIN mFreeSlices[a][i]}
<1>1. FreePlaces = UNION {Of(a, i) : a \in Allocators, i \in Index}
  BY DEF FreePlaces
<1>2. \A p \in FreePlaces : \E a \in Allocators : \E i \in Index : p \in Of(a, i)
  <2>. HIDE DEF Of
  <2>. QED
    BY <1>1
<1>3. \A a \in Allocators : \A i \in Index : \A p \in Of(a, i) : p \in FreePlaces
  <2>. HIDE DEF Of
  <2>. QED
    BY <1>1
<1>4. \A a \in Allocators : \A i \in Index : \A k :
       /\ SliceAt([list |-> <<a, i>>, at |-> k]) = mFreeSlices[a][i][k]
       /\ [list |-> <<a, i>>, at |-> k].list[2] = i
  BY DEF SliceAt
<1>. QED
  BY <1>2, <1>3, <1>4

\* The memory that somebody may write to: a slice held, or one in a list.
LEMMA ExtentIs ==
  ASSUME NEW cut, InOrder(cut)
  PROVE  /\ \A x \in Extents :
              \/ \E h \in live : x = [from |-> h.slice, length |-> h.size]
              \/ \E a \in Allocators : \E i \in Index : \E s \in Elements(mFreeSlices[a][i]) :
                   x = [from |-> s, length |-> sliceSizeFromIndex(i)]
         /\ \A h \in live : [from |-> h.slice, length |-> h.size] \in Extents
         /\ \A a \in Allocators : \A i \in Index : \A s \in Elements(mFreeSlices[a][i]) :
              [from |-> s, length |-> sliceSizeFromIndex(i)] \in Extents
<1>1. \A a \in Allocators : \A i \in Index :
        DOMAIN mFreeSlices[a][i] = 1..Len(mFreeSlices[a][i])
  BY DEF InOrder, Good, Typed
<1>2. ASSUME NEW x \in Extents
      PROVE  \/ \E h \in live : x = [from |-> h.slice, length |-> h.size]
             \/ \E a \in Allocators : \E i \in Index : \E s \in Elements(mFreeSlices[a][i]) :
                  x = [from |-> s, length |-> sliceSizeFromIndex(i)]
  <2>1. CASE \E p \in FreePlaces :
               x = [from |-> SliceAt(p), length |-> sliceSizeFromIndex(p.list[2])]
    <3>1. PICK p \in FreePlaces :
            x = [from |-> SliceAt(p), length |-> sliceSizeFromIndex(p.list[2])]
      BY <2>1
    <3>2. PICK a \in Allocators : \E i \in Index : \E k \in DOMAIN mFreeSlices[a][i] :
            p = [list |-> <<a, i>>, at |-> k]
      BY PlaceIs
    <3>3. PICK i \in Index : \E k \in DOMAIN mFreeSlices[a][i] : p = [list |-> <<a, i>>, at |-> k]
      BY <3>2
    <3>4. PICK k \in DOMAIN mFreeSlices[a][i] : p = [list |-> <<a, i>>, at |-> k]
      BY <3>3
    <3>5. SliceAt(p) = mFreeSlices[a][i][k] /\ p.list[2] = i
      BY <3>4, PlaceIs
    <3>6. SliceAt(p) \in Elements(mFreeSlices[a][i])
      BY <1>1, <3>4, <3>5 DEF Elements
    <3>. QED
      BY <3>1, <3>5, <3>6
  <2>2. CASE \E h \in live : x = [from |-> h.slice, length |-> h.size]
    BY <2>2
  <2>. QED
    BY <2>1, <2>2 DEF Extents
<1>3. \A h \in live : [from |-> h.slice, length |-> h.size] \in Extents
  BY DEF Extents
<1>4. ASSUME NEW a \in Allocators, NEW i \in Index, NEW s \in Elements(mFreeSlices[a][i])
      PROVE  [from |-> s, length |-> sliceSizeFromIndex(i)] \in Extents
  <2>1. PICK k \in DOMAIN mFreeSlices[a][i] : s = mFreeSlices[a][i][k]
    BY <1>1 DEF Elements
  <2>. DEFINE p == [list |-> <<a, i>>, at |-> k]
  <2>2. p \in FreePlaces /\ SliceAt(p) = s /\ p.list[2] = i
    BY <2>1, PlaceIs
  <2>. HIDE DEF p
  <2>. QED
    BY <2>2 DEF Extents
<1>. QED
  BY <1>2, <1>3, <1>4

LEMMA ExtentPlaced ==
  ASSUME NEW cut, InOrder(cut), NEW x \in Extents
  PROVE  Placed(x.from, x.length, mFreeBlocks, obtained, cut) /\ x.from \in SliceSet
<1>1. Good(mFreeBlocks, mFreeSlices, obtained, live, cut)
  BY DEF InOrder
<1>2. CASE \E h \in live : x = [from |-> h.slice, length |-> h.size]
  BY <1>1, <1>2 DEF Good, Typed, AllPlaced
<1>3. CASE \E a \in Allocators : \E i \in Index : \E s \in Elements(mFreeSlices[a][i]) :
             x = [from |-> s, length |-> sliceSizeFromIndex(i)]
  <2>1. PICK a \in Allocators : \E i \in Index : \E s \in Elements(mFreeSlices[a][i]) :
          x = [from |-> s, length |-> sliceSizeFromIndex(i)]
    BY <1>3
  <2>2. PICK i \in Index : \E s \in Elements(mFreeSlices[a][i]) :
          x = [from |-> s, length |-> sliceSizeFromIndex(i)]
    BY <2>1
  <2>3. PICK s \in Elements(mFreeSlices[a][i]) : x = [from |-> s, length |-> sliceSizeFromIndex(i)]
    BY <2>2
  <2>4. Placed(s, sliceSizeFromIndex(i), mFreeBlocks, obtained, cut)
    BY <1>1 DEF Good, AllPlaced
  <2>5. s \in SliceSet
    <3>1. mFreeSlices[a][i] \in Seq(SliceSet)
      BY <1>1 DEF Good, Typed
    <3>. QED
      BY <3>1 DEF Elements
  <2>. QED
    BY <2>3, <2>4, <2>5
<1>. QED
  BY <1>2, <1>3, ExtentIs

\* No memory belongs to two.
LEMMA ExtentOnce ==
  ASSUME NEW cut, InOrder(cut), NEW x \in Extents, NEW y \in Extents, x.from = y.from
  PROVE  x = y
<1>1. FreeOnly(mFreeSlices, live) /\ HeldOnce(live)
  BY DEF InOrder, Good
<1>. DEFINE InHand(z) == \E h \in live : z = [from |-> h.slice, length |-> h.size]
            InList(z) == \E a \in Allocators : \E i \in Index :
              z.from \in Elements(mFreeSlices[a][i])
                /\ z = [from |-> z.from, length |-> sliceSizeFromIndex(i)]
<1>2. (InHand(x) \/ InList(x)) /\ (InHand(y) \/ InList(y))
  BY ExtentIs
<1>3. CASE InHand(x) /\ InHand(y)
  BY <1>1, <1>3 DEF HeldOnce
<1>4. CASE InList(x) /\ InList(y)
  <2>1. PICK a \in Allocators, i \in Index :
          x.from \in Elements(mFreeSlices[a][i])
            /\ x = [from |-> x.from, length |-> sliceSizeFromIndex(i)]
    BY <1>4
  <2>2. PICK b \in Allocators, j \in Index :
          y.from \in Elements(mFreeSlices[b][j])
            /\ y = [from |-> y.from, length |-> sliceSizeFromIndex(j)]
    BY <1>4
  <2>3. i = j
    BY <1>1, <2>1, <2>2 DEF FreeOnly
  <2>. QED
    BY <2>1, <2>2, <2>3
<1>5. InHand(x) => ~InList(y)
  BY <1>1 DEF FreeOnly
<1>6. InHand(y) => ~InList(x)
  BY <1>1 DEF FreeOnly
<1>. QED
  BY <1>2, <1>3, <1>4, <1>5, <1>6

LEMMA DisjointHolds ==
  ASSUME NEW cut, InOrder(cut)
  PROVE  ExtentsDisjoint
<1>. SUFFICES ASSUME NEW x \in Extents
              PROVE  /\ x.from.offset >= sizeofBlock
                     /\ x.from.offset + x.length <= BLOCK_SIZE
                     /\ \A a \in Allocators : ~S!Contains(mFreeBlocks[a], x.from.block)
                     /\ \A y \in Extents \ {x} : x.from.block = y.from.block => Apart(x, y)
  BY DEF ExtentsDisjoint
<1>. DEFINE b == x.from.block
            i == cut[b]
            size == sliceSizeFromIndex(i)
<1>1. Placed(x.from, x.length, mFreeBlocks, obtained, cut) /\ x.from \in SliceSet
  BY ExtentPlaced
<1>2. i \in Index
  BY <1>1 DEF InOrder, Good, Typed, SliceSet
<1>3. size \in Nat /\ x.length <= size
  BY <1>1, <1>2, ClassSizes DEF Placed
<1>4. PICK k \in 0..(nSlices(i) - 1) : x.from = At(b, i, k)
  BY <1>1 DEF Placed
<1>5. nSlices(i) \in Nat /\ k \in Nat
  BY <1>2, <1>4, ClassSizes
<1>6. /\ x.from.offset = SliceOffset(i, k) /\ SliceOffset(i, k) \in Nat
      /\ SliceOffset(i, k) >= sizeofBlock
  <2>1. k * sliceSizeFromIndex(i) \in Nat
    BY <1>2, <1>5, ClassSizes
  <2>. HIDE DEF i, b
  <2>. QED
    BY <1>4, <2>1 DEF At, SliceOffset, sizeofBlock
<1>7. SliceOffset(i, k) + size <= BLOCK_SIZE
  BY <1>2, <1>4, SlicesFit DEF Index
<1>8. x.length \in Nat
  <2>1. live \subseteq [slice : SliceSet, size : Nat \ {0}]
    BY DEF InOrder, Good, Typed
  <2>2. \A j \in Index : sliceSizeFromIndex(j) \in Nat
    BY ClassSizes
  <2>. QED
    BY <2>1, <2>2, ExtentIs
<1>9. x.from.offset >= sizeofBlock /\ x.from.offset + x.length <= BLOCK_SIZE
  <2>. HIDE DEF size, i
  <2>. QED
    BY <1>3, <1>6, <1>7, <1>8, BlockSizeAssumption DEF sizeofBlock
<1>10. ASSUME NEW a \in Allocators PROVE ~S!Contains(mFreeBlocks[a], b)
  BY <1>1 DEF Placed, IsCut, Elements, S!Contains
<1>11. ASSUME NEW y \in Extents, y # x, b = y.from.block PROVE Apart(x, y)
  <2>1. Placed(y.from, y.length, mFreeBlocks, obtained, cut)
    BY ExtentPlaced
  <2>2. PICK l \in 0..(nSlices(i) - 1) : y.from = At(b, i, l)
    BY <1>11, <2>1 DEF Placed
  <2>3. y.length <= size /\ l \in Nat
    BY <1>5, <1>11, <2>1, <2>2 DEF Placed
  <2>4. y.from.offset = SliceOffset(i, l) /\ SliceOffset(i, l) \in Nat
    <3>1. l * sliceSizeFromIndex(i) \in Nat
      BY <1>2, <2>3, ClassSizes
    <3>. HIDE DEF i, b
    <3>. QED
      BY <2>2, <3>1 DEF At, SliceOffset, sizeofBlock
  <2>5. y.length \in Nat
    <3>1. live \subseteq [slice : SliceSet, size : Nat \ {0}]
      BY DEF InOrder, Good, Typed
    <3>2. \A j \in Index : sliceSizeFromIndex(j) \in Nat
      BY ClassSizes
    <3>. QED
      BY <3>1, <3>2, ExtentIs
  <2>6. k # l
    <3>1. x.from # y.from
      BY <1>11, ExtentOnce
    <3>. QED
      BY <1>4, <2>2, <3>1
  <2>7. k < l \/ l < k
    BY <1>5, <2>3, <2>6
  <2>8. \/ SliceOffset(i, k) + size <= SliceOffset(i, l)
        \/ SliceOffset(i, l) + size <= SliceOffset(i, k)
    BY <1>2, <1>5, <2>3, <2>7, SlicesApart DEF Index
  <2>. HIDE DEF size, i
  <2>. QED
    BY <1>3, <1>6, <1>8, <2>3, <2>4, <2>5, <2>8 DEF Apart
<1>. QED
  BY <1>9, <1>10, <1>11

\* A block cut has as many slices in lists and hands as it was cut into.
LEMMA NoneLost ==
  ASSUME NEW cut, InOrder(cut), NEW b \in 1..obtained, IsCut(mFreeBlocks, b)
  PROVE  Cardinality({x \in Extents : x.from.block = b}) = nSlices(cut[b]) /\ cut[b] \in Index
<1>. DEFINE n == nSlices(cut[b])
            X == {x \in Extents : x.from.block = b}
            slice(k) == At(b, cut[b], k - 1)
            f == [k \in 1..n |-> CHOOSE x \in X : x.from = slice(k)]
<1>1. b \in Nat /\ cut[b] \in Index
  BY DEF InOrder, Good, Typed
<1>2. n \in Nat
  BY <1>1, ClassSizes
<1>3. ASSUME NEW k \in 1..n PROVE \E x \in X : x.from = slice(k)
  <2>1. k - 1 \in 0..(n - 1) /\ k - 1 \in Nat
    BY <1>2
  <2>2. Owned(slice(k), mFreeSlices, live)
    BY <2>1 DEF InOrder, Good, AllOwned
  <2>3. slice(k).block = b
    BY <1>1, <2>1, AtTyped
  <2>. HIDE DEF slice
  <2>4. CASE \E h \in live : h.slice = slice(k)
    <3>1. PICK h \in live : h.slice = slice(k)
      BY <2>4
    <3>2. [from |-> h.slice, length |-> h.size] \in Extents
      BY ExtentIs
    <3>. QED
      BY <2>3, <3>1, <3>2
  <2>5. CASE \E a \in Allocators : \E i \in Index : slice(k) \in Elements(mFreeSlices[a][i])
    <3>1. PICK a \in Allocators, i \in Index : slice(k) \in Elements(mFreeSlices[a][i])
      BY <2>5
    <3>2. [from |-> slice(k), length |-> sliceSizeFromIndex(i)] \in Extents
      BY <3>1, ExtentIs
    <3>. QED
      BY <2>3, <3>2
  <2>. QED
    BY <2>2, <2>4, <2>5 DEF Owned
<1>4. \A k \in 1..n : f[k] \in X /\ f[k].from = slice(k)
  <2>. HIDE DEF X, slice
  <2>. QED
    BY <1>3
<1>5. f \in [1..n -> X]
  BY <1>4
<1>. HIDE DEF f
<1>6. ASSUME NEW k \in 1..n, NEW l \in 1..n, f[k] = f[l] PROVE k = l
  <2>1. At(b, cut[b], k - 1) = At(b, cut[b], l - 1)
    BY <1>4, <1>6
  <2>2. k - 1 \in Nat /\ l - 1 \in Nat
    BY <1>2
  <2>3. k - 1 = l - 1
    BY <1>1, <2>1, <2>2, AtDiffers
  <2>. QED
    BY <1>2, <2>3
<1>7. ASSUME NEW x \in X PROVE \E k \in 1..n : f[k] = x
  <2>1. Placed(x.from, x.length, mFreeBlocks, obtained, cut)
    BY ExtentPlaced
  <2>2. PICK k \in 0..(n - 1) : x.from = At(b, cut[b], k)
    BY <2>1 DEF Placed
  <2>3. k + 1 \in 1..n /\ (k + 1) - 1 = k
    BY <1>2
  <2>4. f[k + 1].from = x.from
    BY <1>4, <2>2, <2>3
  <2>5. f[k + 1] \in Extents /\ x \in Extents
    BY <1>4, <2>3
  <2>. QED
    BY <2>3, <2>4, <2>5, ExtentOnce
<1>. HIDE DEF X, n
<1>8. f \in Bijection(1..n, X)
  BY <1>5, <1>6, <1>7, Fun_IsBij
<1>9. Cardinality(X) = n
  BY <1>2, <1>8, Fun_ExistsBij, FS_CountingElements
<1>. QED
  BY <1>1, <1>9 DEF X, n

LEMMA FreePlacesFinite ==
  ASSUME NEW cut, InOrder(cut), IsFiniteSet(Allocators)
  PROVE  IsFiniteSet(FreePlaces)
<1>. DEFINE Of(a, i) == {[list |-> <<a, i>>, at |-> k] : k \in DOMAIN mFreeSlices[a][i]}
            all == {Of(l[1], l[2]) : l \in Allocators \X Index}
<1>1. MAX_SLICE_INDEX \in Nat
  BY BlockSizeAssumption DEF MAX_SLICE_INDEX, sizeofBlock
<1>2. IsFiniteSet(Allocators \X Index)
  <2>1. IsFiniteSet(Index)
    BY <1>1, FS_Interval DEF Index
  <2>. QED
    BY <2>1, FS_Product
<1>3. ASSUME NEW a \in Allocators, NEW i \in Index PROVE IsFiniteSet(Of(a, i))
  <2>1. IsFiniteSet(DOMAIN mFreeSlices[a][i])
    <3>1. mFreeSlices[a][i] \in Seq(SliceSet)
      BY DEF InOrder, Good, Typed
    <3>2. DOMAIN mFreeSlices[a][i] = 1..Len(mFreeSlices[a][i]) /\ Len(mFreeSlices[a][i]) \in Nat
      BY <3>1
    <3>. QED
      BY <3>2, FS_Interval
  <2>. DEFINE D == DOMAIN mFreeSlices[a][i]
              f == [k \in D |-> [list |-> <<a, i>>, at |-> k]]
  <2>2. f \in Surjection(D, Of(a, i))
    <3>1. f \in [D -> Of(a, i)] /\ \A t \in Of(a, i) : \E k \in D : f[k] = t
      OBVIOUS
    <3>. HIDE DEF f, Of, D
    <3>. QED
      BY <3>1, Fun_IsSurj
  <2>. HIDE DEF f, Of
  <2>. QED
    BY <2>1, <2>2, FS_Surjection
<1>4. IsFiniteSet(all)
  <2>. DEFINE f == [l \in Allocators \X Index |-> Of(l[1], l[2])]
  <2>. HIDE DEF Of
  <2>1. f \in [Allocators \X Index -> all] /\ \A t \in all : \E l \in Allocators \X Index : f[l] = t
    OBVIOUS
  <2>. HIDE DEF f, all
  <2>2. f \in Surjection(Allocators \X Index, all)
    BY <2>1, Fun_IsSurj
  <2>. QED
    BY <1>2, <2>2, FS_Surjection
<1>5. \A T \in all : IsFiniteSet(T)
  BY <1>3
<1>6. IsFiniteSet(UNION all)
  <2>. HIDE DEF all
  <2>. QED
    BY <1>4, <1>5, FS_UNION
<1>7. FreePlaces \subseteq UNION all
  <2>. SUFFICES ASSUME NEW p \in FreePlaces PROVE p \in UNION all
    OBVIOUS
  <2>1. PICK a \in Allocators : \E i \in Index : \E k \in DOMAIN mFreeSlices[a][i] :
          p = [list |-> <<a, i>>, at |-> k]
    BY PlaceIs
  <2>2. PICK i \in Index : \E k \in DOMAIN mFreeSlices[a][i] : p = [list |-> <<a, i>>, at |-> k]
    BY <2>1
  <2>3. p \in Of(a, i)
    BY <2>2
  <2>4. <<a, i>> \in Allocators \X Index /\ <<a, i>>[1] = a /\ <<a, i>>[2] = i
    OBVIOUS
  <2>. HIDE DEF Of
  <2>5. Of(a, i) \in all
    BY <2>4
  <2>. QED
    BY <2>3, <2>5
<1>. QED
  BY <1>6, <1>7, FS_Subset

LEMMA AccountedHolds ==
  ASSUME NEW cut, InOrder(cut), IsFiniteSet(Allocators)
  PROVE  SlicesAccounted
<1>. DEFINE free == {SliceAt(p) : p \in FreePlaces}
            f == [p \in FreePlaces |-> SliceAt(p)]
<1>1. ASSUME NEW p \in FreePlaces
      PROVE  \E a \in Allocators : \E i \in Index : \E k \in 1..Len(mFreeSlices[a][i]) :
               p = [list |-> <<a, i>>, at |-> k] /\ SliceAt(p) = mFreeSlices[a][i][k]
  <2>1. PICK a \in Allocators : \E i \in Index : \E k \in DOMAIN mFreeSlices[a][i] :
          p = [list |-> <<a, i>>, at |-> k]
    BY PlaceIs
  <2>2. PICK i \in Index : \E k \in DOMAIN mFreeSlices[a][i] : p = [list |-> <<a, i>>, at |-> k]
    BY <2>1
  <2>3. PICK k \in DOMAIN mFreeSlices[a][i] : p = [list |-> <<a, i>>, at |-> k]
    BY <2>2
  <2>4. SliceAt(p) = mFreeSlices[a][i][k]
    BY <2>3, PlaceIs
  <2>5. DOMAIN mFreeSlices[a][i] = 1..Len(mFreeSlices[a][i])
    BY DEF InOrder, Good, Typed
  <2>. QED
    BY <2>3, <2>4, <2>5
<1>2. FreeOnly(mFreeSlices, live)
  BY DEF InOrder, Good
<1>3. ASSUME NEW p \in FreePlaces, NEW q \in FreePlaces, SliceAt(p) = SliceAt(q) PROVE p = q
  <2>1. PICK a \in Allocators, i \in Index : \E k \in 1..Len(mFreeSlices[a][i]) :
          p = [list |-> <<a, i>>, at |-> k] /\ SliceAt(p) = mFreeSlices[a][i][k]
    BY <1>1
  <2>2. PICK k \in 1..Len(mFreeSlices[a][i]) :
          p = [list |-> <<a, i>>, at |-> k] /\ SliceAt(p) = mFreeSlices[a][i][k]
    BY <2>1
  <2>3. PICK b \in Allocators, j \in Index : \E l \in 1..Len(mFreeSlices[b][j]) :
          q = [list |-> <<b, j>>, at |-> l] /\ SliceAt(q) = mFreeSlices[b][j][l]
    BY <1>1
  <2>4. PICK l \in 1..Len(mFreeSlices[b][j]) :
          q = [list |-> <<b, j>>, at |-> l] /\ SliceAt(q) = mFreeSlices[b][j][l]
    BY <2>3
  <2>5. SliceAt(p) \in Elements(mFreeSlices[a][i]) /\ SliceAt(p) \in Elements(mFreeSlices[b][j])
    BY <1>3, <2>2, <2>4 DEF Elements
  <2>6. a = b /\ i = j
    BY <1>2, <2>5 DEF FreeOnly
  <2>7. k = l
    BY <1>2, <1>3, <2>2, <2>4, <2>6 DEF FreeOnly, Once
  <2>. QED
    BY <2>2, <2>4, <2>6, <2>7
<1>4. f \in [FreePlaces -> free] /\ \A t \in free : \E p \in FreePlaces : f[p] = t
  OBVIOUS
<1>5. \A p, q \in FreePlaces : f[p] = f[q] => p = q
  BY <1>3
<1>. HIDE DEF f
<1>6. Cardinality(free) = Cardinality(FreePlaces)
  <2>. HIDE DEF free
  <2>1. f \in Bijection(FreePlaces, free)
    BY <1>4, <1>5, Fun_IsBij
  <2>2. ExistsBijection(FreePlaces, free)
    BY <2>1, Fun_ExistsBij
  <2>. QED
    BY <2>2, FreePlacesFinite, FS_Bijection
<1>7. ASSUME NEW held \in live PROVE held.slice \notin free
  <2>. SUFFICES ASSUME NEW p \in FreePlaces PROVE held.slice # SliceAt(p)
    OBVIOUS
  <2>1. PICK a \in Allocators, i \in Index : \E k \in 1..Len(mFreeSlices[a][i]) :
          SliceAt(p) = mFreeSlices[a][i][k]
    BY <1>1
  <2>. QED
    BY <1>2, <2>1 DEF FreeOnly, Elements
<1>8. FreeOnce
  BY <1>6, <1>7 DEF FreeOnce
<1>9. NothingLost
  <2>. SUFFICES ASSUME NEW b \in 1..obtained,
                       ~\E a \in Allocators : S!Contains(mFreeBlocks[a], b)
                PROVE  Cardinality({x \in Extents : x.from.block = b}) \in {nSlices(i) : i \in Index}
    BY DEF NothingLost
  <2>1. IsCut(mFreeBlocks, b)
    BY DEF IsCut, Elements, S!Contains
  <2>. QED
    BY <2>1, NoneLost
<1>. QED
  BY <1>8, <1>9 DEF SlicesAccounted

-----------------------------------------------------------------------------
(* The theorems *)

MemoryInOrder == \E cut : InOrder(cut)

LEMMA InitInOrder == Init => MemoryInOrder
<1>. SUFFICES ASSUME Init PROVE MemoryInOrder
  OBVIOUS
<1>. DEFINE cut == [b \in Nat |-> 0]
<1>1. cut \in [Nat -> Index]
  BY BlockSizeAssumption DEF Index, MAX_SLICE_INDEX, sizeofBlock
<1>. HIDE DEF cut
<1>2. Typed(mFreeBlocks, mFreeSlices, obtained, live, cut)
  BY <1>1 DEF Init, Typed
<1>3. /\ \A a \in Allocators : Once(mFreeBlocks[a]) /\ Elements(mFreeBlocks[a]) = {}
      /\ \A a \in Allocators : \A i \in Index :
           Once(mFreeSlices[a][i]) /\ Elements(mFreeSlices[a][i]) = {}
  BY EmptyOnce DEF Init
<1>4. BlocksOnce(mFreeBlocks, obtained) /\ FreeOnly(mFreeSlices, live) /\ HeldOnce(live)
  BY <1>3 DEF Init, BlocksOnce, FreeOnly, HeldOnce
<1>5. /\ AllPlaced(mFreeBlocks, mFreeSlices, obtained, live, cut)
      /\ AllOwned(mFreeBlocks, mFreeSlices, obtained, live, cut)
  BY <1>3 DEF Init, AllPlaced, AllOwned
<1>. QED
  BY <1>2, <1>4, <1>5 DEF Good, InOrder, MemoryInOrder

LEMMA IdleInOrder == MemoryInOrder /\ UNCHANGED vars => MemoryInOrder'
BY DEF MemoryInOrder, InOrder, vars

LEMMA AllocateKeeps ==
  ASSUME MemoryInOrder, NEW a \in Allocators, NEW size \in 1..LargestSliced, allocate(a, size)
  PROVE  MemoryInOrder'
<1>1. PICK cut : InOrder(cut)
  BY DEF MemoryInOrder
<1>2. \E c : InOrder(c)'
  BY <1>1, AllocateInOrder
<1>. QED
  BY <1>2 DEF MemoryInOrder

LEMMA DeallocateKeeps ==
  ASSUME MemoryInOrder, NEW a \in Allocators, NEW held \in live,
         NEW size \in 1..held.size, deallocate(a, held, size)
  PROVE  MemoryInOrder'
<1>1. PICK cut : InOrder(cut)
  BY DEF MemoryInOrder
<1>2. \E c : InOrder(c)'
  BY <1>1, DeallocateInOrder
<1>. QED
  BY <1>2 DEF MemoryInOrder

LEMMA StringsKeep ==
  ASSUME LargestSliced < 16384, AllSound, MemoryInOrder, [StringsNext]_variables
  PROVE  MemoryInOrder'
<1>1. CASE UNCHANGED variables
  BY <1>1, IdleInOrder DEF variables
<1>2. ASSUME NEW a \in Allocators, NEW kind \in {"String", "Array"}, NEW length \in Nat,
             Make(a, kind, length)
      PROVE  MemoryInOrder'
  <2>1. MemorySize(kind, length) \in Nat \ {0}
    BY MemoryGrows
  <2>2. MemorySize(kind, length) <= LargestSliced /\ LargestSliced \in Nat
    BY <1>2, BlockSizeAssumption DEF Make, MayMake, LargestSliced, sizeofBlock
  <2>3. MemorySize(kind, length) \in 1..LargestSliced
    BY <2>1, <2>2
  <2>. QED
    BY <1>2, <2>3, AllocateKeeps DEF Make
<1>3. ASSUME NEW a \in Allocators, NEW object \in objects, copy(a, object)
      PROVE  MemoryInOrder'
  <2>1. Sound(object)
    BY DEF AllSound
  <2>2. object.kind \in {"String", "Array"} /\ object.made \in Nat
    BY <2>1 DEF Sound
  <2>3. getLength(object.bytes).length \in 0..object.made
    BY <2>1, SoundReads
  <2>. QED
    BY <1>2, <1>3, <2>2, <2>3 DEF copy
<1>4. ASSUME NEW a \in Allocators, NEW object \in objects, destroy(a, object)
      PROVE  MemoryInOrder'
  <2>. DEFINE got == getLength(object.bytes)
              size == DestroyedSize(object)
  <2>1. Sound(object)
    BY DEF AllSound
  <2>2. object.kind \in {"String", "Array"} /\ object.made \in Nat
        /\ object.held.size = MemorySize(object.kind, object.made)
    BY <2>1 DEF Sound
  <2>3. /\ got.size \in 1..sizeOfLength(object.kind, object.made)
        /\ got.length \in 0..object.made
        /\ sizeOfLength(object.kind, object.made) \in 1..3
    BY <2>1, SoundReads
  <2>4. /\ ContentsSize(object.kind, got.length) \in Nat
        /\ ContentsSize(object.kind, object.made) \in Nat
        /\ ContentsSize(object.kind, got.length) <= ContentsSize(object.kind, object.made)
    BY <2>2, <2>3, MemoryGrows, SMTT(60)
  <2>5. MemorySize(object.kind, object.made) =
          sizeOfLength(object.kind, object.made) + ContentsSize(object.kind, object.made)
    BY DEF MemorySize
  <2>. HIDE DEF got
  <2>6. ASSUME object.kind = "String" PROVE size \in 1..object.held.size
    <3>1. size = sizeOfLength("String", got.length) + (got.length + 1)
      BY <2>6 DEF DestroyedSize, MemorySize, ContentsSize, got
    <3>2. object.held.size = sizeOfLength("String", object.made) + (object.made + 1)
      BY <2>2, <2>6 DEF MemorySize, ContentsSize
    <3>3. \A l, m \in Nat : l <= m =>
            /\ sizeOfLength("String", l) \in 1..3 /\ sizeOfLength("String", m) \in 1..3
            /\ sizeOfLength("String", l) + l <= sizeOfLength("String", m) + m
      BY DEF sizeOfLength
    <3>4. got.length \in Nat /\ object.made \in Nat /\ got.length <= object.made
      BY <2>2, <2>3
    <3>. HIDE DEF size
    <3>. QED
      BY <3>1, <3>2, <3>3, <3>4
  <2>7. ASSUME object.kind = "Array" PROVE size \in 1..object.held.size
    <3>1. size = got.size + ContentsSize(object.kind, got.length)
      BY <2>7 DEF DestroyedSize, got
    <3>. HIDE DEF size
    <3>. QED
      BY <2>2, <2>3, <2>4, <2>5, <3>1
  <2>8. size \in 1..object.held.size
    BY <2>2, <2>6, <2>7
  <2>9. object.held \in live /\ deallocate(a, object.held, size)
    BY <1>4 DEF destroy, deallocate
  <2>. HIDE DEF size
  <2>. QED
    BY <2>8, <2>9, DeallocateKeeps
<1>. QED
  BY <1>1, <1>2, <1>3, <1>4, StringsAssumption DEF StringsNext

\* Memory in use and memory waiting to be used never overlap, nor does either
\* leave its block, whatever is freed to another allocator or in the name of
\* a shorter length than it was made with (allocator.cpp:88-178).
THEOREM ExtentsAlwaysDisjoint ==
  ASSUME LargestSliced < 16384
  PROVE  StringsSpec => []ExtentsDisjoint
<1>1. StringsInit => AllSound /\ MemoryInOrder
  BY InitInOrder DEF StringsInit, AllSound
<1>2. AllSound /\ MemoryInOrder /\ [StringsNext]_variables => (AllSound /\ MemoryInOrder)'
  BY SoundStep, StringsKeep
<1>3. AllSound /\ MemoryInOrder => ExtentsDisjoint
  BY DisjointHolds DEF MemoryInOrder
<1>. QED
  BY <1>1, <1>2, <1>3, PTL DEF StringsSpec

\* No slice is free twice, none is free and held, and no block that was cut
\* ever lacks one, for any number of allocators (allocator.cpp:88-178).
THEOREM SlicesAlwaysAccounted ==
  ASSUME LargestSliced < 16384, IsFiniteSet(Allocators)
  PROVE  StringsSpec => []SlicesAccounted
<1>1. StringsInit => AllSound /\ MemoryInOrder
  BY InitInOrder DEF StringsInit, AllSound
<1>2. AllSound /\ MemoryInOrder /\ [StringsNext]_variables => (AllSound /\ MemoryInOrder)'
  BY SoundStep, StringsKeep
<1>3. AllSound /\ MemoryInOrder => SlicesAccounted
  BY AccountedHolds DEF MemoryInOrder
<1>. QED
  BY <1>1, <1>2, <1>3, PTL DEF StringsSpec

\* The same of callers of the allocators that understate sizes in any way.
THEOREM AllocatorSound ==
  IsFiniteSet(Allocators) => (Spec => [](ExtentsDisjoint /\ SlicesAccounted))
<1>. SUFFICES ASSUME IsFiniteSet(Allocators) PROVE Spec => [](ExtentsDisjoint /\ SlicesAccounted)
  OBVIOUS
<1>1. MemoryInOrder /\ [Next]_vars => MemoryInOrder'
  <2>. SUFFICES ASSUME MemoryInOrder, [Next]_vars PROVE MemoryInOrder'
    OBVIOUS
  <2>1. CASE UNCHANGED vars
    BY <2>1, IdleInOrder
  <2>2. ASSUME NEW a \in Allocators, NEW size \in Sizes, allocate(a, size) PROVE MemoryInOrder'
    BY <2>2, AllocateKeeps, AllocatorAssumption
  <2>3. ASSUME NEW a \in Allocators, NEW size \in Sizes, NEW held \in live,
               size <= held.size, deallocate(a, held, size)
        PROVE  MemoryInOrder'
    <3>1. LargestSliced \in Nat /\ size \in 1..LargestSliced
      BY AllocatorAssumption, BlockSizeAssumption DEF LargestSliced, sizeofBlock
    <3>2. held.size \in Nat
      BY DEF MemoryInOrder, InOrder, Good, Typed
    <3>3. size \in 1..held.size
      BY <2>3, <3>1, <3>2
    <3>. QED
      BY <2>3, <3>3, DeallocateKeeps
  <2>. QED
    BY <2>1, <2>2, <2>3 DEF Next
<1>2. MemoryInOrder => ExtentsDisjoint /\ SlicesAccounted
  BY DisjointHolds, AccountedHolds DEF MemoryInOrder
<1>. QED
  BY <1>1, <1>2, InitInOrder, PTL DEF Spec
=============================================================================

------------------------------ MODULE Strings ------------------------------
(***************************************************************************)
(* stateplex/core/string.h and array.h over the allocators of module       *)
(* Allocator: objects that keep their length in one to three bytes before  *)
(* their contents, and compute from it the size they are destroyed with.   *)
(* A String whose first byte is zero is a reference to characters outside. *)
(* The contents are left out; of a length only what its bytes keep is left.*)
(***************************************************************************)
EXTENDS Allocator

CONSTANTS sizeofPointer,   \* sizeof(Type *), what an element is given, and
          sizeofType,      \* sizeof(Type), what it takes
          StringLengths, ArrayLengths   \* the lengths that callers ask for

ASSUME StringsAssumption ==
  /\ {sizeofPointer, sizeofType} \subseteq Nat \ {0}
  /\ StringLengths \subseteq Nat /\ ArrayLengths \subseteq Nat

VARIABLE objects  \* what is made and not destroyed: its memory, its kind,
                  \* the length asked for and the bytes that keep it

variables == <<vars, objects>>

-----------------------------------------------------------------------------
(* The bytes of a length *)

sizeOfLength(kind, length) ==
  IF length >= 2 * 16384 THEN 3
  ELSE IF length >= 2 * 128 \/ (kind = "String" /\ length = 0) THEN 2 ELSE 1

\* A byte keeps 8 bits; of the lowest, 7 belong to the length.
setLength(kind, length) ==
  LET low == length % 128
      next == length \div 128
  IN  IF length >= 2 * 16384
        THEN <<low + 128, (next % 128) + 128, (length \div 16384) % 256>>
      ELSE IF length >= 2 * 128 \/ (kind = "String" /\ length = 0)
        THEN <<low + 128, next % 256>>
      ELSE <<low>>

SevenBits(byte) == byte % 128

\* Where the contents begin, and how many there are.
getLength(bytes) ==
  IF bytes[1] < 128 THEN [size |-> 1, length |-> bytes[1]]
  ELSE IF bytes[2] < 128 THEN [size |-> 2, length |-> SevenBits(bytes[1]) + bytes[2] * 128]
  ELSE [size |-> 3, length |-> SevenBits(bytes[1]) + SevenBits(bytes[2]) * 128 + SevenBits(bytes[3]) * 16384]

\* A string ends with a zero that its length does not count.
ContentsSize(kind, length) ==
  IF kind = "String" THEN length + 1 ELSE length * sizeofPointer

\* A slip of the next: the room for the final zero forgotten.
MemorySizeUnterminated(kind, length) == sizeOfLength(kind, length) + length

MemorySize(kind, length) == sizeOfLength(kind, length) + ContentsSize(kind, length)

-----------------------------------------------------------------------------
(* Calls *)

\* A larger size gets no memory (allocator.cpp:115), and is written to all
\* the same.  128 characters leave a zero byte: the string takes itself for
\* a reference, its characters for a pointer, and destroy() aborts.  Elements
\* that take more than a pointer are written beyond what an array was given
\* for them (array.h:185 against 148, 162).
MayMake(kind, length) ==
  /\ MemorySize(kind, length) <= LargestSliced
  /\ kind = "Array" => sizeofType <= sizeofPointer
  /\ kind = "String" => setLength(kind, length)[1] # 0

\* uninitialised(), copy() of characters or elements, and of another object
Make(a, kind, length) ==
  /\ MayMake(kind, length)
  /\ allocate(a, MemorySize(kind, length))
  /\ objects' = objects \cup
       {[held |-> h, kind |-> kind, made |-> length, bytes |-> setLength(kind, length)] :
        h \in live' \ live}

copy(a, object) == Make(a, object.kind, getLength(object.bytes).length)

\* String::destroy() computes the bytes before the contents from the length,
\* Array::destroy() takes those it has read.
DestroyedSize(object) ==
  LET got == getLength(object.bytes)
  IN  IF object.kind = "String" THEN MemorySize("String", got.length)
      ELSE got.size + ContentsSize("Array", got.length)

\* element() and setElement() abort beyond the length; the bytes they take.
element(object, index) ==
  LET got == getLength(object.bytes)
      at == got.size + index * sizeofType
  IN  IF index < got.length THEN at..(at + sizeofType - 1) ELSE {}

destroy(a, object) ==
  /\ deallocate(a, object.held, DestroyedSize(object))
  /\ objects' = objects \ {object}

-----------------------------------------------------------------------------
StringsInit == Init /\ objects = {}

StringsNext ==
  \E a \in Allocators :
    \/ \E length \in StringLengths : Make(a, "String", length)
    \/ \E length \in ArrayLengths : Make(a, "Array", length)
    \/ \E object \in objects : copy(a, object) \/ destroy(a, object)

StringsSpec == StringsInit /\ [][StringsNext]_variables

-----------------------------------------------------------------------------
(* Properties *)

\* What an object takes for its contents lies in the memory it was given,
\* also if it has forgotten the highest bit of its length: reading and
\* copying it never leaves that memory, and setting an element of an array
\* neither leaves it nor writes to the bytes of the length (string.h:79,
\* array.h:68, 156).
ContentsInMemory ==
  \A object \in objects :
    LET got == getLength(object.bytes)
    IN  /\ got.size + ContentsSize(object.kind, got.length) <= object.held.size
        /\ object.kind = "Array" =>
             \A index \in {0, got.length - 1, got.length} \cap Nat :
               element(object, index) \subseteq got.size..(object.held.size - 1)

\* The length of an object is that it was made with.  It is not from 128 to
\* 255 elements: the second byte comes at 256 only (array.h:95, string.h:104).
LengthKept ==
  \A object \in objects : getLength(object.bytes).length = object.made
=============================================================================

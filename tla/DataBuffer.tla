------------------------------ MODULE DataBuffer ------------------------------
(***************************************************************************)
(* class DataBuffer (rtsp/DataBuffer.h): bytes between a read index and a   *)
(* write index of a block of memory that grows.  A buffer is a record with  *)
(* the block, mem, as a sequence of mBufferSize bytes, and the two indices, *)
(* 0-based as in the code.                                                  *)
(***************************************************************************)
EXTENDS Integers, Sequences

CONSTANTS Byte,         \* what is read from a socket
          InitialSize,  \* initialSize
          SpareSize,    \* sizeof(sparebuffer)
          Junk          \* what malloc and realloc leave in memory

ASSUME BufferAssumption == InitialSize \in Nat /\ SpareSize \in Nat

(* A state that the assertions of the class allow. *)
Buffer == {b \in [mem : Seq(Byte \cup {Junk}), r : Nat, w : Nat] :
              b.r <= b.w /\ b.w <= Len(b.mem)}

EmptyBuffer == [mem |-> [i \in 1..InitialSize |-> Junk], r |-> 0, w |-> 0]

readableDataSize(b) == b.w - b.r
writableDataSize(b) == Len(b.mem) - b.w

(* What is between getReadStart() and getWritePoint(). *)
Unread(b) == SubSeq(b.mem, b.r + 1, b.w)

(* std::copy(data, data+len, getWritePoint()) and hasWritten(len) *)
Put(b, data) ==
    [mem |-> [i \in 1..Len(b.mem) |->
                 IF i \in (b.w + 1)..(b.w + Len(data)) THEN data[i - b.w] ELSE b.mem[i]],
     r |-> b.r, w |-> b.w + Len(data)]

(* makeSpace, realloc: the indices stay. *)
Grown(b, len) ==
    [mem |-> [i \in 1..(b.w + len) |-> IF i <= Len(b.mem) THEN b.mem[i] ELSE Junk],
     r |-> b.r, w |-> b.w]

(* Mutant of Moved: the indices change, the bytes are not copied. *)
MovedIndices(b) == [mem |-> b.mem, r |-> 0, w |-> readableDataSize(b)]

(* makeSpace, std::copy: the unread bytes go to the front. *)
Moved(b) ==
    [mem |-> [i \in 1..Len(b.mem) |->
                 IF i <= readableDataSize(b) THEN b.mem[b.r + i] ELSE b.mem[i]],
     r |-> 0, w |-> readableDataSize(b)]

makeSpace(b, len) ==
    IF writableDataSize(b) + b.r < len THEN Grown(b, len) ELSE Moved(b)

ensureWritableBytes(b, len) ==
    IF writableDataSize(b) < len THEN makeSpace(b, len) ELSE b

append(b, data) == Put(ensureWritableBytes(b, Len(data)), data)

(* read: readv has the rest of the block and, if that is less than the spare *)
(* buffer, the spare buffer to fill.                                        *)
Capacity(b) ==
    writableDataSize(b) + (IF writableDataSize(b) < SpareSize THEN SpareSize ELSE 0)

read(b, data) ==
    LET writable == writableDataSize(b)
    IN  IF Len(data) <= writable THEN Put(b, data)
        ELSE append(Put(b, SubSeq(data, 1, writable)), SubSeq(data, writable + 1, Len(data)))

(* Mutant of retrieveAll: the read index stays. *)
retrieveWrite(b) == [mem |-> b.mem, r |-> b.r, w |-> 0]

retrieveAll(b) == [mem |-> b.mem, r |-> 0, w |-> 0]

retrieve(b, len) ==
    IF len < readableDataSize(b)
    THEN [mem |-> b.mem, r |-> b.r + len, w |-> b.w]
    ELSE retrieveAll(b)

=============================================================================

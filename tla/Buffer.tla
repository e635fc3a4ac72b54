-------------------------------- MODULE Buffer --------------------------------
(***************************************************************************)
(* Network/src/Buffer.h and Buffer.cpp: the buffer of a TcpConnection, one *)
(* vector of bytes with two indices.                                       *)
(*                                                                         *)
(*   | prependable bytes |  readable bytes  |  writable bytes  |           *)
(*   0      <=      readerIndex   <=   writerIndex    <=     size          *)
(*                                                                         *)
(* The byte at offset i of buffer_ is bytes[i + 1].  The indices are       *)
(* size_t and are subtracted without a test, so the order above is what    *)
(* keeps every difference from wrapping around.                            *)
(*                                                                         *)
(* The members change a buffer and return; they are functions on buffers   *)
(* here, and an action is one call of a public member by the owner of the  *)
(* buffer, who keeps to the assertions on the length it passes.            *)
(*                                                                         *)
(* A definition whose comment begins with "Fault" is not part of the       *)
(* specification: it is a plausible mistake in the definition after it,    *)
(* kept to show that the properties below notice it.                       *)
(***************************************************************************)
EXTENDS Naturals, Sequences

CONSTANTS
    Bytes,          \* the values of a byte
    Zero,           \* the byte that resize() fills with
    Data,           \* the pieces of data a caller may hand over
    kCheapPrepend,
    kInitialSize,
    kExtraBuf,      \* sizeof extrabuf in readFd
    MaxSize         \* bound: no call makes the vector longer than this

ASSUME BufferAssumption ==
    /\ Zero \in Bytes
    /\ Data \subseteq Seq(Bytes)
    /\ kCheapPrepend \in Nat
    /\ kInitialSize \in Nat
    /\ kExtraBuf \in Nat
    /\ MaxSize \in Nat

VARIABLES
    buffer,   \* [bytes, readerIndex, writerIndex]
    call      \* history: the last call and what was passed to it

bufferVars == <<buffer, call>>

Buffers == [bytes : Seq(Bytes), readerIndex : Nat, writerIndex : Nat]

readableBytes(b) == b.writerIndex - b.readerIndex
writableBytes(b) == Len(b.bytes) - b.writerIndex
prependableBytes(b) == b.readerIndex

\* The readable bytes.
Content(b) == SubSeq(b.bytes, b.readerIndex + 1, b.writerIndex)

Zeros(n) == [i \in 1 .. n |-> Zero]

BufferInit ==
    /\ buffer = [bytes |-> Zeros(kCheapPrepend + kInitialSize),
                 readerIndex |-> kCheapPrepend,
                 writerIndex |-> kCheapPrepend]
    /\ call = [op |-> "none"]

-----------------------------------------------------------------------------
(***************************************************************************)
(* The members.                                                            *)
(***************************************************************************)

\* std::copy of data to the offset at.
CopyTo(bytes, at, data) ==
    [i \in 1 .. Len(bytes) |->
        IF i \in at + 1 .. at + Len(data) THEN data[i - at] ELSE bytes[i]]

retrieveAll(b) ==
    [b EXCEPT !.readerIndex = kCheapPrepend, !.writerIndex = kCheapPrepend]

retrieve(b, len) ==
    IF len < readableBytes(b) THEN [b EXCEPT !.readerIndex = @ + len] ELSE retrieveAll(b)

\* The len bytes that begin at peek().
peek(b, len) == SubSeq(b.bytes, b.readerIndex + 1, b.readerIndex + len)

\* Fault: the cheap prepend is not counted when room is sought in front.
makeSpaceCountsPrepend(b, len) ==
    IF writableBytes(b) + prependableBytes(b) < len
      THEN [b EXCEPT !.bytes = @ \o Zeros(b.writerIndex + len - Len(@))]
      ELSE [bytes |-> CopyTo(b.bytes, kCheapPrepend, Content(b)),
            readerIndex |-> kCheapPrepend,
            writerIndex |-> kCheapPrepend + readableBytes(b)]

\* Fault: the content is never moved to the front.
makeSpaceNeverMoves(b, len) ==
    [b EXCEPT !.bytes = @ \o Zeros(b.writerIndex + len - Len(@))]

\* Resize the vector, or move the readable bytes to the front.
makeSpace(b, len) ==
    IF writableBytes(b) + prependableBytes(b) < len + kCheapPrepend
      THEN [b EXCEPT !.bytes = @ \o Zeros(b.writerIndex + len - Len(@))]
      ELSE [bytes |-> CopyTo(b.bytes, kCheapPrepend, Content(b)),
            readerIndex |-> kCheapPrepend,
            writerIndex |-> kCheapPrepend + readableBytes(b)]

ensureWritableBytes(b, len) ==
    IF writableBytes(b) < len THEN makeSpace(b, len) ELSE b

\* What the owner copied to beginWrite() becomes readable.
hasWritten(b, data) ==
    [b EXCEPT !.bytes = CopyTo(@, b.writerIndex, data),
              !.writerIndex = @ + Len(data)]

append(b, data) == hasWritten(ensureWritableBytes(b, Len(data)), data)

unwrite(b, len) == [b EXCEPT !.writerIndex = @ - len]

prepend(b, data) ==
    [b EXCEPT !.bytes = CopyTo(@, b.readerIndex - Len(data), data),
              !.readerIndex = @ - Len(data)]

\* How many bytes readv may deliver.
ReadLimit(b) ==
    writableBytes(b) + IF writableBytes(b) < kExtraBuf THEN kExtraBuf ELSE 0

\* Fault: what filled the vector is forgotten when extrabuf is appended.
readFdForgetsFirst(b, data) ==
    LET writable == writableBytes(b)
    IN  IF Len(data) <= writable
          THEN hasWritten(b, data)
          ELSE append(b, SubSeq(data, writable + 1, Len(data)))

\* readFd of data: what does not fit behind the content went to extrabuf
\* and is appended.
readFd(b, data) ==
    LET writable == writableBytes(b)
    IN  IF Len(data) <= writable
          THEN hasWritten(b, data)
          ELSE append(hasWritten(b, SubSeq(data, 1, writable)),
                      SubSeq(data, writable + 1, Len(data)))

-----------------------------------------------------------------------------
(***************************************************************************)
(* The calls.                                                              *)
(***************************************************************************)

WithinBound(b) == Len(b.bytes) <= MaxSize

AppendData(data) ==
    /\ call' = [op |-> "append", data |-> data]
    /\ buffer' = append(buffer, data)
    /\ WithinBound(buffer')

HasWritten(data) ==
    /\ Len(data) <= writableBytes(buffer)
    /\ call' = [op |-> "hasWritten", data |-> data]
    /\ buffer' = hasWritten(buffer, data)

ReadFd(data) ==
    /\ Len(data) <= ReadLimit(buffer)
    /\ call' = [op |-> "readFd", data |-> data]
    /\ buffer' = readFd(buffer, data)
    /\ WithinBound(buffer')

Prepend(data) ==
    /\ Len(data) <= prependableBytes(buffer)
    /\ call' = [op |-> "prepend", data |-> data]
    /\ buffer' = prepend(buffer, data)

EnsureWritableBytes(len) ==
    /\ call' = [op |-> "ensureWritableBytes", len |-> len]
    /\ buffer' = ensureWritableBytes(buffer, len)
    /\ WithinBound(buffer')

Retrieve(len) ==
    /\ call' = [op |-> "retrieve", len |-> len]
    /\ buffer' = retrieve(buffer, len)

\* retrieveAsString, and readInt64 and its siblings, which change the order
\* of the bytes they return back to the host's.
ReadFront(len) ==
    /\ call' = [op |-> "read", data |-> peek(buffer, len)]
    /\ buffer' = retrieve(buffer, len)

Unwrite(len) ==
    /\ call' = [op |-> "unwrite", len |-> len]
    /\ buffer' = unwrite(buffer, len)

BufferNext ==
    \/ \E data \in Data : AppendData(data) \/ HasWritten(data) \/ ReadFd(data) \/ Prepend(data)
    \/ \E len \in 0 .. MaxSize : EnsureWritableBytes(len)
    \/ \E len \in 0 .. readableBytes(buffer) :
        Retrieve(len) \/ ReadFront(len) \/ Unwrite(len)

BufferSpec == BufferInit /\ [][BufferNext]_bufferVars

-----------------------------------------------------------------------------
(***************************************************************************)
(* Properties.                                                             *)
(***************************************************************************)

(***************************************************************************)
(* The diagram of Buffer.h: 0 <= readerIndex <= writerIndex <= size after  *)
(* any calls, so that no difference of indices wraps around and no copy    *)
(* leaves the vector; and there is room for the cheap prepend to return to *)
(* when the buffer is emptied.                                             *)
(***************************************************************************)
InOrder(b) ==
    /\ b \in Buffers
    /\ b.readerIndex <= b.writerIndex
    /\ b.writerIndex <= Len(b.bytes)
    /\ kCheapPrepend <= Len(b.bytes)

IndicesInOrder == InOrder(buffer)

Queue == INSTANCE ByteQueue WITH content <- Content(buffer)

(***************************************************************************)
(* A buffer is a queue of bytes: resizing the vector and moving the        *)
(* content inside it, reading into two pieces of memory at once and        *)
(* starting over at the front change no byte and lose none, and what a     *)
(* reader is given is the front of the queue.                              *)
(***************************************************************************)
ImplementsByteQueue == Queue!Spec

(***************************************************************************)
(* The vector becomes longer only when the new content and the cheap       *)
(* prepend really need more than it has: space in front of the content is  *)
(* used first.                                                             *)
(***************************************************************************)
GrowsOnlyWhenFull ==
    [][call'.op \in {"append", "readFd"} /\ Len(buffer'.bytes) > Len(buffer.bytes)
          => kCheapPrepend + readableBytes(buffer') > Len(buffer.bytes)]_bufferVars
=============================================================================

------------------------------ MODULE ByteQueue ------------------------------
(***************************************************************************)
(* What a Buffer promises: a queue of bytes.  Bytes are appended at the    *)
(* end and retrieved from the front; a header can be put before the front  *)
(* and what was appended last can be taken back.  The call that was made   *)
(* last is visible, so that an implementation must treat the data of that  *)
(* very call as the queue does.                                            *)
(***************************************************************************)
EXTENDS Naturals, Sequences

CONSTANT
    Data   \* the pieces of data that are handed over at once

VARIABLES
    content,   \* the bytes in the queue, oldest first
    call       \* the last call

vars == <<content, call>>

Init ==
    /\ content = <<>>
    /\ call = [op |-> "none"]

PutLast(data) ==
    /\ call' \in [op : {"append", "hasWritten", "readFd"}, data : {data}]
    /\ content' = content \o data

PutFirst(data) ==
    /\ call' = [op |-> "prepend", data |-> data]
    /\ content' = data \o content

TakeFirst(len) ==
    /\ call' = [op |-> "retrieve", len |-> len]
    /\ content' = SubSeq(content, len + 1, Len(content))

ReadFirst(len) ==
    /\ call' = [op |-> "read", data |-> SubSeq(content, 1, len)]
    /\ content' = SubSeq(content, len + 1, Len(content))

TakeLast(len) ==
    /\ call' = [op |-> "unwrite", len |-> len]
    /\ content' = SubSeq(content, 1, Len(content) - len)

\* Room is made for more; how much does not matter to the queue.
Reserve ==
    /\ call'.op = "ensureWritableBytes"
    /\ UNCHANGED content

Next ==
    \/ \E data \in Data : PutLast(data) \/ PutFirst(data)
    \/ \E len \in 0 .. Len(content) : TakeFirst(len) \/ ReadFirst(len) \/ TakeLast(len)
    \/ Reserve

Spec == Init /\ [][Next]_vars
=============================================================================

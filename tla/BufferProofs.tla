----------------------------- MODULE BufferProofs -----------------------------
(***************************************************************************)
(* Theorems about the buffer for every kCheapPrepend, every size and every *)
(* byte: the indices stay in order and the buffer implements the abstract  *)
(* byte queue.  There is one lemma for each member; each says that the     *)
(* member keeps the indices in order and what it makes of the content.     *)
(***************************************************************************)
EXTENDS Buffer, SequenceTheorems, TLAPS

(***************************************************************************)
(* The content of a buffer whose indices are in order, byte by byte.       *)
(***************************************************************************)
LEMMA ContentBytes ==
  ASSUME NEW b, InOrder(b)
  PROVE  /\ Content(b) \in Seq(Bytes)
         /\ Len(Content(b)) = readableBytes(b)
         /\ \A i \in 1 .. readableBytes(b) : Content(b)[i] = b.bytes[b.readerIndex + i]
<1>1. /\ b.bytes \in Seq(Bytes)
      /\ b.readerIndex \in Nat /\ b.writerIndex \in Nat /\ Len(b.bytes) \in Nat
      /\ b.readerIndex <= b.writerIndex /\ b.writerIndex <= Len(b.bytes)
  BY DEF InOrder, Buffers
<1>2. \A i \in b.readerIndex + 1 .. b.writerIndex : b.bytes[i] \in Bytes
  <2> TAKE i \in b.readerIndex + 1 .. b.writerIndex
  <2>1. i \in 1 .. Len(b.bytes)
    BY <1>1
  <2> QED
    BY <1>1, <2>1, ElementOfSeq
<1>3. /\ SubSeq(b.bytes, b.readerIndex + 1, b.writerIndex) \in Seq(Bytes)
      /\ Len(SubSeq(b.bytes, b.readerIndex + 1, b.writerIndex))
            = IF b.readerIndex + 1 <= b.writerIndex
                THEN b.writerIndex - (b.readerIndex + 1) + 1 ELSE 0
      /\ \A i \in 1 .. b.writerIndex - (b.readerIndex + 1) + 1 :
            SubSeq(b.bytes, b.readerIndex + 1, b.writerIndex)[i]
              = b.bytes[b.readerIndex + 1 + i - 1]
  <2> DEFINE m == b.readerIndex + 1
             n == b.writerIndex
             s == b.bytes
  <2>1. m \in Int /\ n \in Int
    BY <1>1
  <2>2. \A i \in m .. n : s[i] \in Bytes
    BY <1>2
  <2> HIDE DEF m, n, s
  <2>3. /\ SubSeq(s, m, n) \in Seq(Bytes)
        /\ Len(SubSeq(s, m, n)) = IF m <= n THEN n - m + 1 ELSE 0
        /\ \A i \in 1 .. n - m + 1 : SubSeq(s, m, n)[i] = s[m + i - 1]
    BY <2>1, <2>2, SubSeqProperties
  <2> QED
    BY <2>3 DEF m, n, s
<1>4. Len(Content(b)) = readableBytes(b)
  BY <1>1, <1>3 DEF Content, readableBytes
<1>5. ASSUME NEW i \in 1 .. readableBytes(b)
      PROVE  Content(b)[i] = b.bytes[b.readerIndex + i]
  <2>1. i \in 1 .. b.writerIndex - (b.readerIndex + 1) + 1
    BY <1>1, <1>5 DEF readableBytes
  <2>2. b.readerIndex + 1 + i - 1 = b.readerIndex + i
    BY <1>1, <2>1
  <2>3. Content(b)[i] = b.bytes[b.readerIndex + 1 + i - 1]
    BY <1>3, <2>1 DEF Content
  <2> QED
    BY <2>2, <2>3
<1> QED
  BY <1>3, <1>4, <1>5 DEF Content

(***************************************************************************)
(* A sequence that agrees with the readable bytes is the content.          *)
(***************************************************************************)
LEMMA ContentIs ==
  ASSUME NEW b, InOrder(b),
         NEW s \in Seq(Bytes), Len(s) = readableBytes(b),
         \A i \in 1 .. Len(s) : s[i] = b.bytes[b.readerIndex + i]
  PROVE  Content(b) = s
<1>1. Content(b) \in Seq(Bytes) /\ Len(Content(b)) = Len(s)
  BY ContentBytes
<1>2. \A i \in 1 .. Len(Content(b)) : Content(b)[i] = s[i]
  BY <1>1, ContentBytes
<1> QED
  BY <1>1, <1>2, SeqEqual

(***************************************************************************)
(* std::copy inside the vector changes the bytes it should and no other.   *)
(***************************************************************************)
LEMMA CopyToBytes ==
  ASSUME NEW bytes \in Seq(Bytes), NEW data \in Seq(Bytes), NEW at \in Nat,
         at + Len(data) <= Len(bytes)
  PROVE  /\ CopyTo(bytes, at, data) \in Seq(Bytes)
         /\ Len(CopyTo(bytes, at, data)) = Len(bytes)
         /\ \A i \in 1 .. Len(bytes) :
              CopyTo(bytes, at, data)[i]
                = IF i \in at + 1 .. at + Len(data) THEN data[i - at] ELSE bytes[i]
<1> DEFINE e(i) == IF i \in at + 1 .. at + Len(data) THEN data[i - at] ELSE bytes[i]
<1>1. Len(bytes) \in Nat /\ Len(data) \in Nat
  BY LenProperties
<1>2. \A i \in 1 .. Len(bytes) : e(i) \in Bytes
  <2> TAKE i \in 1 .. Len(bytes)
  <2>1. CASE i \in at + 1 .. at + Len(data)
    <3>1. i - at \in 1 .. Len(data)
      BY <1>1, <2>1
    <3> QED
      BY <2>1, <3>1, ElementOfSeq
  <2>2. CASE i \notin at + 1 .. at + Len(data)
    BY <2>2, ElementOfSeq
  <2> QED
    BY <2>1, <2>2
<1>3. CopyTo(bytes, at, data) = [i \in 1 .. Len(bytes) |-> e(i)]
  BY DEF CopyTo
<1> HIDE DEF e
<1>4. [i \in 1 .. Len(bytes) |-> e(i)] \in Seq(Bytes)
  BY <1>1, <1>2
<1>5. Len([i \in 1 .. Len(bytes) |-> e(i)]) = Len(bytes)
  BY <1>1
<1> QED
  BY <1>3, <1>4, <1>5 DEF e

LEMMA ZerosBytes ==
  ASSUME NEW n \in Nat
  PROVE  Zeros(n) \in Seq(Bytes) /\ Len(Zeros(n)) = n
BY BufferAssumption DEF Zeros

(***************************************************************************)
(* hasWritten puts what was copied behind the content, within the vector.  *)
(***************************************************************************)
LEMMA HasWrittenAppends ==
  ASSUME NEW b, InOrder(b), NEW data \in Seq(Bytes), Len(data) <= writableBytes(b)
  PROVE  /\ InOrder(hasWritten(b, data))
         /\ Content(hasWritten(b, data)) = Content(b) \o data
         /\ Len(hasWritten(b, data).bytes) = Len(b.bytes)
         /\ hasWritten(b, data).writerIndex = b.writerIndex + Len(data)
<1> DEFINE c == hasWritten(b, data)
           copy == CopyTo(b.bytes, b.writerIndex, data)
<1>1. /\ b.bytes \in Seq(Bytes) /\ b.readerIndex \in Nat /\ b.writerIndex \in Nat
      /\ Len(b.bytes) \in Nat /\ Len(data) \in Nat
      /\ b.readerIndex <= b.writerIndex
      /\ b.writerIndex + Len(data) <= Len(b.bytes)
      /\ kCheapPrepend <= Len(b.bytes)
  BY DEF InOrder, Buffers, writableBytes
<1>2. /\ copy \in Seq(Bytes) /\ Len(copy) = Len(b.bytes)
      /\ \A i \in 1 .. Len(b.bytes) :
            copy[i] = IF i \in b.writerIndex + 1 .. b.writerIndex + Len(data)
                        THEN data[i - b.writerIndex] ELSE b.bytes[i]
  BY <1>1, CopyToBytes
<1> HIDE DEF copy
<1>3. /\ c.bytes = copy /\ c.readerIndex = b.readerIndex
      /\ c.writerIndex = b.writerIndex + Len(data)
      /\ c \in Buffers
  <2> DEFINE w == b.writerIndex + Len(data)
  <2>1. w \in Nat /\ b \in Buffers
    BY <1>1 DEF InOrder
  <2>2. c = [b EXCEPT !.bytes = copy, !.writerIndex = w]
    BY Zenon DEF hasWritten, copy
  <2> HIDE DEF c, w
  <2>3. c.bytes = copy /\ c.readerIndex = b.readerIndex /\ c.writerIndex = w
    BY <2>1, <2>2 DEF Buffers
  <2>4. c \in Buffers
    BY <1>2, <2>1, <2>2 DEF Buffers
  <2> QED
    BY <2>3, <2>4 DEF w
<1> HIDE DEF c
<1>4. InOrder(c)
  BY <1>1, <1>2, <1>3 DEF InOrder
<1>5. /\ Content(b) \in Seq(Bytes) /\ Len(Content(b)) = b.writerIndex - b.readerIndex
      /\ \A i \in 1 .. b.writerIndex - b.readerIndex :
            Content(b)[i] = b.bytes[b.readerIndex + i]
  BY ContentBytes DEF readableBytes
<1>6. /\ Content(b) \o data \in Seq(Bytes)
      /\ Len(Content(b) \o data) = readableBytes(c)
  <2>1. /\ Content(b) \o data \in Seq(Bytes)
        /\ Len(Content(b) \o data) = Len(Content(b)) + Len(data)
    BY <1>5, ConcatProperties
  <2> QED
    BY <1>1, <1>3, <1>5, <2>1 DEF readableBytes
<1>7. ASSUME NEW i \in 1 .. Len(Content(b) \o data)
      PROVE  (Content(b) \o data)[i] = c.bytes[c.readerIndex + i]
  <2> DEFINE j == b.readerIndex + i
  <2>1. j \in 1 .. Len(b.bytes) /\ i \in 1 .. Len(Content(b)) + Len(data)
    BY <1>1, <1>3, <1>5, <1>6, SMTT(30) DEF readableBytes
  <2>2. (Content(b) \o data)[i] = IF i <= Len(Content(b))
                                     THEN Content(b)[i] ELSE data[i - Len(Content(b))]
    BY <1>5, <2>1, ConcatProperties
  <2>3. c.bytes[c.readerIndex + i]
           = IF j \in b.writerIndex + 1 .. b.writerIndex + Len(data)
               THEN data[j - b.writerIndex] ELSE b.bytes[j]
    BY <1>2, <1>3, <2>1
  <2>4. CASE i <= Len(Content(b))
    <3>1. j \notin b.writerIndex + 1 .. b.writerIndex + Len(data)
      BY <1>1, <1>5, <2>4
    <3>2. Content(b)[i] = b.bytes[j]
      BY <1>1, <1>5, <2>1, <2>4
    <3> QED
      BY <2>2, <2>3, <2>4, <3>1, <3>2
  <2>5. CASE i > Len(Content(b))
    <3>1. j \in b.writerIndex + 1 .. b.writerIndex + Len(data)
      BY <1>1, <1>5, <2>1, <2>5, SMTT(30)
    <3>2. j - b.writerIndex = i - Len(Content(b))
      BY <1>1, <1>5, <2>1
    <3>3. (Content(b) \o data)[i] = data[i - Len(Content(b))]
      BY <1>5, <2>1, <2>2, <2>5
    <3> QED
      BY <2>3, <3>1, <3>2, <3>3
  <2> QED
    BY <1>5, <2>1, <2>4, <2>5
<1>8. Content(c) = Content(b) \o data
  BY <1>4, <1>6, <1>7, ContentIs
<1> QED
  BY <1>2, <1>3, <1>4, <1>8 DEF c

(***************************************************************************)
(* makeSpace makes room for len more bytes and keeps the content, whether  *)
(* it resizes the vector or moves the content to the front.                *)
(***************************************************************************)
LEMMA MakeSpaceKeepsContent ==
  ASSUME NEW b, InOrder(b), NEW len \in Nat, writableBytes(b) < len
  PROVE  /\ InOrder(makeSpace(b, len))
         /\ Content(makeSpace(b, len)) = Content(b)
         /\ len <= writableBytes(makeSpace(b, len))
<1> DEFINE c == makeSpace(b, len)
           k == kCheapPrepend
<1>1. /\ b.bytes \in Seq(Bytes) /\ b.readerIndex \in Nat /\ b.writerIndex \in Nat
      /\ Len(b.bytes) \in Nat
      /\ b.readerIndex <= b.writerIndex /\ b.writerIndex <= Len(b.bytes)
      /\ k <= Len(b.bytes) /\ k \in Nat
      /\ Len(b.bytes) - b.writerIndex < len
  BY BufferAssumption DEF InOrder, Buffers, writableBytes
<1>2. /\ Content(b) \in Seq(Bytes) /\ Len(Content(b)) = b.writerIndex - b.readerIndex
      /\ \A i \in 1 .. b.writerIndex - b.readerIndex :
            Content(b)[i] = b.bytes[b.readerIndex + i]
  BY ContentBytes DEF readableBytes
<1>3. CASE writableBytes(b) + prependableBytes(b) < len + kCheapPrepend
  <2> DEFINE more == b.writerIndex + len - Len(b.bytes)
             zeros == Zeros(more)
  <2>1. more \in Nat
    BY <1>1
  <2>2. zeros \in Seq(Bytes) /\ Len(zeros) = more
    BY <2>1, ZerosBytes
  <2> HIDE DEF zeros
  <2>3. /\ b.bytes \o zeros \in Seq(Bytes)
        /\ Len(b.bytes \o zeros) = b.writerIndex + len
        /\ \A i \in 1 .. Len(b.bytes) : (b.bytes \o zeros)[i] = b.bytes[i]
    <3>1. /\ b.bytes \o zeros \in Seq(Bytes)
          /\ Len(b.bytes \o zeros) = Len(b.bytes) + Len(zeros)
          /\ \A i \in 1 .. Len(b.bytes) + Len(zeros) :
                (b.bytes \o zeros)[i]
                  = IF i <= Len(b.bytes) THEN b.bytes[i] ELSE zeros[i - Len(b.bytes)]
      BY <1>1, <2>2, ConcatProperties
    <3>2. Len(b.bytes) + Len(zeros) = b.writerIndex + len
      BY <1>1, <2>1, <2>2
    <3>3. \A i \in 1 .. Len(b.bytes) : (b.bytes \o zeros)[i] = b.bytes[i]
      BY <1>1, <2>1, <2>2, <3>1
    <3> QED
      BY <3>1, <3>2, <3>3
  <2>4. /\ c.bytes = b.bytes \o zeros /\ c.readerIndex = b.readerIndex
        /\ c.writerIndex = b.writerIndex /\ c \in Buffers
    BY <1>1, <1>3, <2>3 DEF InOrder, Buffers, makeSpace, zeros
  <2> HIDE DEF c, more
  <2>5. InOrder(c) /\ len <= writableBytes(c)
    BY <1>1, <2>3, <2>4 DEF InOrder, writableBytes
  <2>6. ASSUME NEW i \in 1 .. Len(Content(b))
        PROVE  Content(b)[i] = c.bytes[c.readerIndex + i]
    <3>1. b.readerIndex + i \in 1 .. Len(b.bytes)
      BY <1>1, <1>2
    <3>2. (b.bytes \o zeros)[b.readerIndex + i] = b.bytes[b.readerIndex + i]
      BY <2>3, <3>1
    <3>3. Content(b)[i] = b.bytes[b.readerIndex + i]
      BY <1>2
    <3>4. c.bytes[c.readerIndex + i] = (b.bytes \o zeros)[b.readerIndex + i]
      BY <2>4
    <3> QED
      BY <3>2, <3>3, <3>4
  <2>7. Len(Content(b)) = readableBytes(c)
    BY <1>2, <2>4 DEF readableBytes
  <2>8. Content(c) = Content(b)
    BY <1>2, <2>5, <2>6, <2>7, ContentIs
  <2> QED
    BY <2>5, <2>8 DEF c
<1>4. CASE ~(writableBytes(b) + prependableBytes(b) < len + kCheapPrepend)
  <2> DEFINE moved == CopyTo(b.bytes, k, Content(b))
             n == b.writerIndex - b.readerIndex
  <2>1. n \in Nat /\ k + n + len <= Len(b.bytes)
    BY <1>1, <1>4 DEF writableBytes, prependableBytes
  <2>2. /\ moved \in Seq(Bytes) /\ Len(moved) = Len(b.bytes)
        /\ \A i \in 1 .. Len(b.bytes) :
              moved[i] = IF i \in k + 1 .. k + Len(Content(b))
                           THEN Content(b)[i - k] ELSE b.bytes[i]
    <3>1. k + Len(Content(b)) <= Len(b.bytes)
      BY <1>1, <1>2, <2>1
    <3> QED
      BY <1>1, <1>2, <3>1, CopyToBytes, SMTT(30)
  <2> HIDE DEF moved
  <2>3. /\ c.bytes = moved /\ c.readerIndex = k /\ c.writerIndex = k + n
        /\ c \in Buffers
    BY <1>1, <1>4, <2>1, <2>2 DEF Buffers, makeSpace, moved, readableBytes
  <2> HIDE DEF c
  <2>4. InOrder(c) /\ len <= writableBytes(c)
    BY <1>1, <2>1, <2>2, <2>3 DEF InOrder, writableBytes
  <2>5. ASSUME NEW i \in 1 .. Len(Content(b))
        PROVE  Content(b)[i] = c.bytes[c.readerIndex + i]
    <3>1. k + i \in 1 .. Len(b.bytes) /\ k + i \in k + 1 .. k + Len(Content(b))
      BY <1>1, <1>2, <2>1
    <3>2. (k + i) - k = i
      BY <1>1
    <3> QED
      BY <2>2, <2>3, <3>1, <3>2
  <2>6. Len(Content(b)) = readableBytes(c)
    BY <1>1, <1>2, <2>1, <2>3 DEF readableBytes
  <2>7. Content(c) = Content(b)
    BY <1>2, <2>4, <2>5, <2>6, ContentIs
  <2> QED
    BY <2>4, <2>7 DEF c
<1> QED
  BY <1>3, <1>4

(***************************************************************************)
(* ensureWritableBytes keeps its assertion and the content.                *)
(***************************************************************************)
LEMMA EnsureKeepsContent ==
  ASSUME NEW b, InOrder(b), NEW len \in Nat
  PROVE  /\ InOrder(ensureWritableBytes(b, len))
         /\ Content(ensureWritableBytes(b, len)) = Content(b)
         /\ len <= writableBytes(ensureWritableBytes(b, len))
<1>1. CASE writableBytes(b) < len
  BY <1>1, MakeSpaceKeepsContent DEF ensureWritableBytes
<1>2. CASE ~(writableBytes(b) < len)
  <2>1. len <= writableBytes(b)
    BY <1>2 DEF InOrder, Buffers, writableBytes
  <2> QED
    BY <1>2, <2>1 DEF ensureWritableBytes
<1> QED
  BY <1>1, <1>2

LEMMA AppendAppends ==
  ASSUME NEW b, InOrder(b), NEW data \in Seq(Bytes)
  PROVE  InOrder(append(b, data)) /\ Content(append(b, data)) = Content(b) \o data
<1> DEFINE c == ensureWritableBytes(b, Len(data))
<1>1. InOrder(c) /\ Content(c) = Content(b) /\ Len(data) <= writableBytes(c)
  BY EnsureKeepsContent, LenProperties
<1> HIDE DEF c
<1>2. InOrder(hasWritten(c, data)) /\ Content(hasWritten(c, data)) = Content(b) \o data
  BY <1>1, HasWrittenAppends
<1> QED
  BY <1>2 DEF append, c

(***************************************************************************)
(* readFd appends all that was read, also what went through extrabuf.      *)
(***************************************************************************)
LEMMA ReadFdAppends ==
  ASSUME NEW b, InOrder(b), NEW data \in Seq(Bytes)
  PROVE  InOrder(readFd(b, data)) /\ Content(readFd(b, data)) = Content(b) \o data
<1> DEFINE n == writableBytes(b)
           first == SubSeq(data, 1, n)
           rest == SubSeq(data, n + 1, Len(data))
           c == hasWritten(b, first)
<1>1. n \in Nat /\ Len(data) \in Nat
  BY LenProperties DEF InOrder, Buffers, writableBytes
<1>2. CASE Len(data) <= n
  BY <1>2, HasWrittenAppends DEF readFd
<1>3. CASE ~(Len(data) <= n)
  <2> HIDE DEF n
  <2>1. /\ first \in Seq(Bytes) /\ Len(first) = n
        /\ \A i \in 1 .. n : first[i] = data[i]
    <3>1. \A i \in 1 .. n : data[i] \in Bytes
      BY <1>1, <1>3, ElementOfSeq
    <3>2. /\ first \in Seq(Bytes)
          /\ Len(first) = IF 1 <= n THEN n - 1 + 1 ELSE 0
          /\ \A i \in 1 .. n - 1 + 1 : first[i] = data[1 + i - 1]
      BY <1>1, <3>1, SubSeqProperties
    <3> QED
      BY <1>1, <3>2
  <2>2. /\ rest \in Seq(Bytes) /\ Len(rest) = Len(data) - n
        /\ \A i \in 1 .. Len(data) - n : rest[i] = data[n + i]
    <3>1. \A i \in n + 1 .. Len(data) : data[i] \in Bytes
      BY <1>1, ElementOfSeq
    <3>2. /\ rest \in Seq(Bytes)
          /\ Len(rest) = IF n + 1 <= Len(data) THEN Len(data) - (n + 1) + 1 ELSE 0
          /\ \A i \in 1 .. Len(data) - (n + 1) + 1 : rest[i] = data[n + 1 + i - 1]
      <4> DEFINE m == n + 1
                 l == Len(data)
      <4>1. m \in Int /\ l \in Int /\ \A i \in m .. l : data[i] \in Bytes
        BY <1>1, <3>1
      <4> HIDE DEF m, l
      <4>2. /\ SubSeq(data, m, l) \in Seq(Bytes)
            /\ Len(SubSeq(data, m, l)) = IF m <= l THEN l - m + 1 ELSE 0
            /\ \A i \in 1 .. l - m + 1 : SubSeq(data, m, l)[i] = data[m + i - 1]
        BY <4>1, SubSeqProperties
      <4> QED
        BY <4>2 DEF m, l
    <3>3. \A i \in 1 .. Len(data) - n : n + 1 + i - 1 = n + i
      BY <1>1
    <3> QED
      BY <1>1, <1>3, <3>2, <3>3
  <2> HIDE DEF first, rest
  <2>3. first \o rest = data
    <3>1. /\ first \o rest \in Seq(Bytes)
          /\ Len(first \o rest) = Len(first) + Len(rest)
          /\ \A i \in 1 .. Len(first) + Len(rest) :
                (first \o rest)[i] = IF i <= Len(first) THEN first[i]
                                                        ELSE rest[i - Len(first)]
      BY <2>1, <2>2, ConcatProperties
    <3>2. Len(first \o rest) = Len(data)
      BY <1>1, <2>1, <2>2, <3>1
    <3>3. ASSUME NEW i \in 1 .. Len(first \o rest)
          PROVE  (first \o rest)[i] = data[i]
      <4>1. CASE i <= n
        BY <1>1, <2>1, <3>1, <4>1
      <4>2. CASE ~(i <= n)
        <5>1. i - n \in 1 .. Len(data) - n /\ n + (i - n) = i
          BY <1>1, <3>2, <4>2
        <5>2. rest[i - n] = data[i]
          BY <2>2, <5>1
        <5> QED
          BY <2>1, <3>1, <4>2, <5>2
      <4> QED
        BY <4>1, <4>2
    <3> QED
      BY <3>1, <3>2, <3>3, SeqEqual
  <2>4. InOrder(c) /\ Content(c) = Content(b) \o first
    <3>1. Len(first) <= writableBytes(b)
      BY <1>1, <2>1 DEF n
    <3> QED
      BY <2>1, <3>1, HasWrittenAppends
  <2> HIDE DEF c
  <2>5. InOrder(append(c, rest)) /\ Content(append(c, rest)) = Content(b) \o first \o rest
    BY <2>2, <2>4, AppendAppends
  <2>6. Content(b) \o first \o rest = Content(b) \o data
    <3> DEFINE s == Content(b)
    <3>1. s \in Seq(Bytes) /\ first \in Seq(Bytes) /\ rest \in Seq(Bytes)
      BY <2>1, <2>2, ContentBytes
    <3> HIDE DEF s
    <3>2. (s \o first) \o rest = s \o (first \o rest)
      BY ONLY <3>1, ConcatAssociative
    <3> QED
      BY <2>3, <3>2, Zenon DEF s
  <2>7. readFd(b, data) = append(c, rest)
    BY <1>3, Zenon DEF readFd, n, first, rest, c
  <2> QED
    BY <2>5, <2>6, <2>7
<1> QED
  BY <1>2, <1>3

(***************************************************************************)
(* prepend puts the data before the content, within the vector.            *)
(***************************************************************************)
LEMMA PrependPrepends ==
  ASSUME NEW b, InOrder(b), NEW data \in Seq(Bytes),
         Len(data) <= prependableBytes(b)
  PROVE  InOrder(prepend(b, data)) /\ Content(prepend(b, data)) = data \o Content(b)
<1> DEFINE c == prepend(b, data)
           r == b.readerIndex - Len(data)
           copy == CopyTo(b.bytes, r, data)
<1>1. /\ b.bytes \in Seq(Bytes) /\ b.readerIndex \in Nat /\ b.writerIndex \in Nat
      /\ Len(b.bytes) \in Nat /\ Len(data) \in Nat
      /\ b.readerIndex <= b.writerIndex /\ b.writerIndex <= Len(b.bytes)
      /\ kCheapPrepend <= Len(b.bytes)
      /\ r \in Nat /\ r + Len(data) = b.readerIndex
  BY DEF InOrder, Buffers, prependableBytes
<1> HIDE DEF r
<1>2. /\ copy \in Seq(Bytes) /\ Len(copy) = Len(b.bytes)
      /\ \A i \in 1 .. Len(b.bytes) :
            copy[i] = IF i \in r + 1 .. r + Len(data) THEN data[i - r] ELSE b.bytes[i]
  BY <1>1, CopyToBytes
<1> HIDE DEF copy
<1>3. /\ c.bytes = copy /\ c.readerIndex = r /\ c.writerIndex = b.writerIndex
      /\ c \in Buffers
  <2>1. c = [b EXCEPT !.bytes = copy, !.readerIndex = r]
    BY Zenon DEF prepend, copy, r
  <2> HIDE DEF c
  <2>2. b \in Buffers
    BY DEF InOrder
  <2>3. c.bytes = copy /\ c.readerIndex = r /\ c.writerIndex = b.writerIndex
    BY <2>1, <2>2 DEF Buffers
  <2>4. c \in Buffers
    BY <1>1, <1>2, <2>1, <2>2 DEF Buffers
  <2> QED
    BY <2>3, <2>4
<1> HIDE DEF c
<1>4. InOrder(c)
  BY <1>1, <1>2, <1>3 DEF InOrder
<1>5. /\ Content(b) \in Seq(Bytes) /\ Len(Content(b)) = b.writerIndex - b.readerIndex
      /\ \A i \in 1 .. b.writerIndex - b.readerIndex :
            Content(b)[i] = b.bytes[b.readerIndex + i]
  BY ContentBytes DEF readableBytes
<1>6. /\ data \o Content(b) \in Seq(Bytes)
      /\ Len(data \o Content(b)) = Len(data) + Len(Content(b))
      /\ \A i \in 1 .. Len(data) + Len(Content(b)) :
            (data \o Content(b))[i] = IF i <= Len(data) THEN data[i]
                                                        ELSE Content(b)[i - Len(data)]
  BY <1>5, ConcatProperties
<1>7. Len(data \o Content(b)) = readableBytes(c)
  BY <1>1, <1>3, <1>5, <1>6 DEF readableBytes
<1>8. ASSUME NEW i \in 1 .. Len(data \o Content(b))
      PROVE  (data \o Content(b))[i] = c.bytes[c.readerIndex + i]
  <2> DEFINE j == r + i
  <2>1. j \in 1 .. Len(b.bytes)
    BY <1>1, <1>5, <1>6
  <2>2. c.bytes[c.readerIndex + i]
           = IF j \in r + 1 .. r + Len(data) THEN data[j - r] ELSE b.bytes[j]
    BY <1>2, <1>3, <2>1
  <2>3. CASE i <= Len(data)
    <3>1. j \in r + 1 .. r + Len(data) /\ j - r = i
      BY <1>1, <1>6, <2>3
    <3> QED
      BY <1>6, <2>2, <2>3, <3>1
  <2>4. CASE ~(i <= Len(data))
    <3>1. /\ j \notin r + 1 .. r + Len(data)
          /\ i - Len(data) \in 1 .. b.writerIndex - b.readerIndex
          /\ b.readerIndex + (i - Len(data)) = j
      BY <1>1, <1>5, <1>6, <2>4, SMTT(30)
    <3>2. Content(b)[i - Len(data)] = b.bytes[j]
      BY <1>5, <3>1
    <3> QED
      BY <1>6, <2>2, <2>4, <3>1, <3>2
  <2> QED
    BY <2>3, <2>4
<1>9. Content(c) = data \o Content(b)
  BY <1>4, <1>6, <1>7, <1>8, ContentIs
<1> QED
  BY <1>4, <1>9 DEF c

(***************************************************************************)
(* The sub-sequence of a sequence of bytes, byte by byte.                  *)
(***************************************************************************)
LEMMA SubSeqBytes ==
  ASSUME NEW s \in Seq(Bytes), NEW m \in Nat \ {0}, NEW n \in Nat,
         m <= n + 1, n <= Len(s)
  PROVE  /\ SubSeq(s, m, n) \in Seq(Bytes)
         /\ Len(SubSeq(s, m, n)) = n + 1 - m
         /\ \A i \in 1 .. n + 1 - m : SubSeq(s, m, n)[i] = s[m + i - 1]
<1>1. Len(s) \in Nat
  BY LenProperties
<1>2. \A i \in m .. n : s[i] \in Bytes
  BY <1>1, ElementOfSeq
<1>3. /\ SubSeq(s, m, n) \in Seq(Bytes)
      /\ Len(SubSeq(s, m, n)) = IF m <= n THEN n - m + 1 ELSE 0
      /\ \A i \in 1 .. n - m + 1 : SubSeq(s, m, n)[i] = s[m + i - 1]
  BY <1>2, SubSeqProperties
<1> QED
  BY <1>3

(***************************************************************************)
(* retrieve drops the first len bytes; taking everything starts over at    *)
(* the cheap prepend.                                                      *)
(***************************************************************************)
LEMMA RetrieveTakesFirst ==
  ASSUME NEW b, InOrder(b), NEW len \in 0 .. readableBytes(b)
  PROVE  /\ InOrder(retrieve(b, len))
         /\ Content(retrieve(b, len)) = SubSeq(Content(b), len + 1, Len(Content(b)))
<1> DEFINE c == retrieve(b, len)
           l == Len(Content(b))
           s == SubSeq(Content(b), len + 1, l)
<1>1. /\ b.bytes \in Seq(Bytes) /\ b.readerIndex \in Nat /\ b.writerIndex \in Nat
      /\ Len(b.bytes) \in Nat /\ b.readerIndex <= b.writerIndex
      /\ b.writerIndex <= Len(b.bytes)
      /\ kCheapPrepend \in Nat /\ kCheapPrepend <= Len(b.bytes)
  BY BufferAssumption DEF InOrder, Buffers
<1>2. /\ Content(b) \in Seq(Bytes) /\ l = b.writerIndex - b.readerIndex
      /\ \A i \in 1 .. b.writerIndex - b.readerIndex :
            Content(b)[i] = b.bytes[b.readerIndex + i]
  BY ContentBytes DEF readableBytes
<1>3. len \in Nat /\ l \in Nat /\ len <= l
  BY <1>1, <1>2 DEF readableBytes
<1>4. /\ s \in Seq(Bytes) /\ Len(s) = l - len
      /\ \A i \in 1 .. l - len : s[i] = Content(b)[len + i]
  <2> HIDE DEF l
  <2>1. /\ len + 1 \in Nat \ {0} /\ l + 1 - (len + 1) = l - len
        /\ \A i \in 1 .. l - len : len + 1 + i - 1 = len + i
    BY <1>3
  <2>2. len + 1 <= l + 1 /\ l <= Len(Content(b))
    BY <1>3 DEF l
  <2>3. /\ s \in Seq(Bytes) /\ Len(s) = l + 1 - (len + 1)
        /\ \A i \in 1 .. l + 1 - (len + 1) : s[i] = Content(b)[len + 1 + i - 1]
    BY <1>2, <1>3, <2>1, <2>2, SubSeqBytes
  <2> QED
    BY <2>1, <2>3
<1> HIDE DEF s, l
<1>5. CASE len < readableBytes(b)
  <2>1. /\ c.bytes = b.bytes /\ c.readerIndex = b.readerIndex + len
        /\ c.writerIndex = b.writerIndex /\ c \in Buffers
    BY <1>1, <1>3, <1>5 DEF InOrder, Buffers, retrieve
  <2> HIDE DEF c
  <2>2. InOrder(c)
    BY <1>1, <1>2, <1>3, <2>1 DEF InOrder
  <2>3. Len(s) = readableBytes(c)
    BY <1>1, <1>2, <1>3, <1>4, <2>1 DEF readableBytes
  <2>4. ASSUME NEW i \in 1 .. Len(s)
        PROVE  s[i] = c.bytes[c.readerIndex + i]
    <3>1. /\ i \in 1 .. l - len /\ len + i \in 1 .. b.writerIndex - b.readerIndex
          /\ b.readerIndex + (len + i) = b.readerIndex + len + i
      BY <1>1, <1>2, <1>3, <1>4
    <3> QED
      BY <1>2, <1>4, <2>1, <3>1
  <2>5. Content(c) = s
    BY <1>4, <2>2, <2>3, <2>4, ContentIs
  <2> QED
    BY <2>2, <2>5 DEF c, s, l
<1>6. CASE ~(len < readableBytes(b))
  <2>1. /\ c.bytes = b.bytes /\ c.readerIndex = kCheapPrepend
        /\ c.writerIndex = kCheapPrepend /\ c \in Buffers
    BY <1>1, <1>6 DEF InOrder, Buffers, retrieve, retrieveAll
  <2> HIDE DEF c
  <2>2. InOrder(c)
    BY <1>1, <2>1 DEF InOrder
  <2>3. Len(s) = 0 /\ readableBytes(c) = 0
    BY <1>1, <1>2, <1>3, <1>4, <1>6, <2>1 DEF readableBytes
  <2>4. \A i \in 1 .. Len(s) : s[i] = c.bytes[c.readerIndex + i]
    BY <2>3
  <2>5. Content(c) = s
    BY <1>4, <2>2, <2>3, <2>4, ContentIs
  <2> QED
    BY <2>2, <2>5 DEF c, s, l
<1> QED
  BY <1>5, <1>6

(***************************************************************************)
(* unwrite drops the last len bytes.                                       *)
(***************************************************************************)
LEMMA UnwriteTakesLast ==
  ASSUME NEW b, InOrder(b), NEW len \in 0 .. readableBytes(b)
  PROVE  /\ InOrder(unwrite(b, len))
         /\ Content(unwrite(b, len)) = SubSeq(Content(b), 1, Len(Content(b)) - len)
<1> DEFINE c == unwrite(b, len)
           n == Len(Content(b)) - len
           s == SubSeq(Content(b), 1, n)
<1>1. /\ b.bytes \in Seq(Bytes) /\ b.readerIndex \in Nat /\ b.writerIndex \in Nat
      /\ Len(b.bytes) \in Nat /\ b.readerIndex <= b.writerIndex
      /\ b.writerIndex <= Len(b.bytes) /\ kCheapPrepend <= Len(b.bytes)
  BY DEF InOrder, Buffers
<1>2. /\ Content(b) \in Seq(Bytes) /\ Len(Content(b)) = b.writerIndex - b.readerIndex
      /\ \A i \in 1 .. b.writerIndex - b.readerIndex :
            Content(b)[i] = b.bytes[b.readerIndex + i]
  BY ContentBytes DEF readableBytes
<1>3. /\ len \in Nat /\ n \in Nat /\ n <= Len(Content(b))
      /\ b.writerIndex - len = b.readerIndex + n
  BY <1>1, <1>2 DEF readableBytes
<1> HIDE DEF n
<1>4. s \in Seq(Bytes) /\ Len(s) = n /\ \A i \in 1 .. n : s[i] = Content(b)[i]
  <2>1. 1 <= n + 1 /\ n + 1 - 1 = n /\ \A i \in 1 .. n : 1 + i - 1 = i
    BY <1>3
  <2>2. /\ s \in Seq(Bytes) /\ Len(s) = n + 1 - 1
        /\ \A i \in 1 .. n + 1 - 1 : s[i] = Content(b)[1 + i - 1]
    BY <1>2, <1>3, <2>1, SubSeqBytes
  <2> QED
    BY <2>1, <2>2
<1> HIDE DEF s
<1>5. /\ c.bytes = b.bytes /\ c.readerIndex = b.readerIndex
      /\ c.writerIndex = b.readerIndex + n /\ c \in Buffers
  BY <1>1, <1>3 DEF InOrder, Buffers, unwrite
<1> HIDE DEF c
<1>6. InOrder(c)
  BY <1>1, <1>2, <1>3, <1>5 DEF InOrder
<1>7. Len(s) = readableBytes(c)
  BY <1>1, <1>3, <1>4, <1>5 DEF readableBytes
<1>8. \A i \in 1 .. Len(s) : s[i] = c.bytes[c.readerIndex + i]
  BY <1>1, <1>2, <1>3, <1>4, <1>5
<1>9. Content(c) = s
  BY <1>4, <1>6, <1>7, <1>8, ContentIs
<1> QED
  BY <1>6, <1>9 DEF c, s, n

(***************************************************************************)
(* The bytes at peek() are the first of the content: they are what is left *)
(* when everything behind them is unwritten.                               *)
(***************************************************************************)
LEMMA PeekIsTheFront ==
  ASSUME NEW b, InOrder(b), NEW len \in 0 .. readableBytes(b)
  PROVE  peek(b, len) = SubSeq(Content(b), 1, len)
<1> DEFINE rest == readableBytes(b) - len
<1>1. b.readerIndex \in Nat /\ b.writerIndex \in Nat /\ b.readerIndex <= b.writerIndex
  BY DEF InOrder, Buffers
<1>2. /\ rest \in 0 .. readableBytes(b)
      /\ readableBytes(b) - rest = len
      /\ b.writerIndex - rest = b.readerIndex + len
  BY <1>1 DEF readableBytes
<1> HIDE DEF rest
<1>3. Len(Content(b)) = readableBytes(b)
  BY ContentBytes
<1>4. Content(unwrite(b, rest)) = SubSeq(Content(b), 1, len)
  BY <1>2, <1>3, UnwriteTakesLast
<1>5. /\ unwrite(b, rest).bytes = b.bytes
      /\ unwrite(b, rest).readerIndex = b.readerIndex
      /\ unwrite(b, rest).writerIndex = b.writerIndex - rest
  BY DEF InOrder, Buffers, unwrite
<1> QED
  BY <1>2, <1>4, <1>5 DEF Content, peek

(***************************************************************************)
(* The constructor leaves the indices in order and no content.             *)
(***************************************************************************)
LEMMA InitialBuffer == BufferInit => InOrder(buffer) /\ Content(buffer) = <<>>
<1> SUFFICES ASSUME BufferInit
             PROVE  InOrder(buffer) /\ Content(buffer) = <<>>
  OBVIOUS
<1> DEFINE size == kCheapPrepend + kInitialSize
           zeros == Zeros(size)
<1>1. size \in Nat /\ kCheapPrepend \in Nat /\ kCheapPrepend <= size
  BY BufferAssumption
<1>2. zeros \in Seq(Bytes) /\ Len(zeros) = size
  BY <1>1, ZerosBytes
<1> HIDE DEF zeros, size
<1>3. buffer = [bytes |-> zeros, readerIndex |-> kCheapPrepend,
                writerIndex |-> kCheapPrepend]
  BY Zenon DEF BufferInit, zeros, size
<1>4. InOrder(buffer) /\ readableBytes(buffer) = 0
  BY <1>1, <1>2, <1>3 DEF InOrder, Buffers, readableBytes
<1>5. Content(buffer) \in Seq(Bytes) /\ Len(Content(buffer)) = 0
  BY <1>4, ContentBytes
<1>6. Content(buffer) = <<>>
  BY <1>5, EmptySeq
<1> QED
  BY <1>4, <1>6

(***************************************************************************)
(* Every call keeps the indices in order and is a step of the byte queue.  *)
(***************************************************************************)
LEMMA CallsRefine ==
  ASSUME InOrder(buffer), BufferNext
  PROVE  InOrder(buffer') /\ Queue!Next
<1> DEFINE s == Content(buffer)
           n == readableBytes(buffer)
<1>1. n = Len(s)
  BY ContentBytes
<1>2. ASSUME NEW data \in Data,
             AppendData(data) \/ HasWritten(data) \/ ReadFd(data) \/ Prepend(data)
      PROVE  InOrder(buffer') /\ (Queue!PutLast(data) \/ Queue!PutFirst(data))
  <2>1. data \in Seq(Bytes)
    BY BufferAssumption
  <2>2. CASE AppendData(data)
    <3>1. InOrder(buffer') /\ Content(buffer)' = Content(buffer) \o data
      BY <2>1, <2>2, AppendAppends DEF AppendData
    <3> QED
      BY <2>2, <3>1 DEF AppendData, Queue!PutLast
  <2>3. CASE HasWritten(data)
    <3>1. InOrder(buffer') /\ Content(buffer)' = Content(buffer) \o data
      BY <2>1, <2>3, HasWrittenAppends DEF HasWritten
    <3> QED
      BY <2>3, <3>1 DEF HasWritten, Queue!PutLast
  <2>4. CASE ReadFd(data)
    <3>1. InOrder(buffer') /\ Content(buffer)' = Content(buffer) \o data
      BY <2>1, <2>4, ReadFdAppends DEF ReadFd
    <3> QED
      BY <2>4, <3>1 DEF ReadFd, Queue!PutLast
  <2>5. CASE Prepend(data)
    <3>1. InOrder(buffer') /\ Content(buffer)' = data \o Content(buffer)
      BY <2>1, <2>5, PrependPrepends DEF Prepend
    <3> QED
      BY <2>5, <3>1 DEF Prepend, Queue!PutFirst
  <2> QED
    BY <1>2, <2>2, <2>3, <2>4, <2>5
<1>3. ASSUME NEW len \in 0 .. MaxSize, EnsureWritableBytes(len)
      PROVE  InOrder(buffer') /\ Queue!Reserve
  <2>1. InOrder(buffer') /\ Content(buffer)' = Content(buffer)
    BY <1>3, EnsureKeepsContent DEF EnsureWritableBytes
  <2> QED
    BY <1>3, <2>1 DEF EnsureWritableBytes, Queue!Reserve
<1>4. ASSUME NEW len \in 0 .. n, Retrieve(len)
      PROVE  InOrder(buffer') /\ Queue!TakeFirst(len)
  <2>1. /\ InOrder(buffer')
        /\ Content(buffer)' = SubSeq(Content(buffer), len + 1, Len(Content(buffer)))
    BY <1>4, RetrieveTakesFirst DEF Retrieve
  <2> QED
    BY <1>4, <2>1 DEF Retrieve, Queue!TakeFirst
<1>5. ASSUME NEW len \in 0 .. n, Unwrite(len)
      PROVE  InOrder(buffer') /\ Queue!TakeLast(len)
  <2>1. /\ InOrder(buffer')
        /\ Content(buffer)' = SubSeq(Content(buffer), 1, Len(Content(buffer)) - len)
    BY <1>5, UnwriteTakesLast DEF Unwrite
  <2> QED
    BY <1>5, <2>1 DEF Unwrite, Queue!TakeLast
<1>6. ASSUME NEW len \in 0 .. n, ReadFront(len)
      PROVE  InOrder(buffer') /\ Queue!ReadFirst(len)
  <2>1. /\ InOrder(buffer')
        /\ Content(buffer)' = SubSeq(Content(buffer), len + 1, Len(Content(buffer)))
    BY <1>6, RetrieveTakesFirst DEF ReadFront
  <2>2. peek(buffer, len) = SubSeq(Content(buffer), 1, len)
    BY PeekIsTheFront
  <2> QED
    BY <1>6, <2>1, <2>2 DEF ReadFront, Queue!ReadFirst
<1>7. CASE \E data \in Data :
              AppendData(data) \/ HasWritten(data) \/ ReadFd(data) \/ Prepend(data)
  BY <1>2, <1>7, Zenon DEF Queue!Next
<1>8. CASE \E len \in 0 .. MaxSize : EnsureWritableBytes(len)
  BY <1>3, <1>8, Zenon DEF Queue!Next
<1>9. CASE \E len \in 0 .. n : Retrieve(len) \/ ReadFront(len) \/ Unwrite(len)
  BY <1>1, <1>4, <1>5, <1>9, <1>6, Zenon DEF Queue!Next
<1> QED
  BY <1>7, <1>8, <1>9, Zenon DEF BufferNext

(***************************************************************************)
(* The order of the indices in the diagram of Buffer.h, after any calls.   *)
(***************************************************************************)
THEOREM IndicesStayInOrder == BufferSpec => []IndicesInOrder
<1>1. BufferInit => IndicesInOrder
  BY InitialBuffer DEF IndicesInOrder
<1>2. IndicesInOrder /\ [BufferNext]_bufferVars => IndicesInOrder'
  BY CallsRefine DEF IndicesInOrder, bufferVars
<1> QED
  BY <1>1, <1>2, PTL DEF BufferSpec

(***************************************************************************)
(* The buffer is a queue of bytes: no call loses, adds or changes a byte   *)
(* that the byte queue would not.                                          *)
(***************************************************************************)
THEOREM BufferImplementsByteQueue == BufferSpec => ImplementsByteQueue
<1>1. BufferInit => Queue!Init
  BY InitialBuffer DEF BufferInit, Queue!Init
<1>2. IndicesInOrder /\ [BufferNext]_bufferVars => [Queue!Next]_(Queue!vars)
  <2>1. ASSUME IndicesInOrder, BufferNext PROVE Queue!Next
    BY <2>1, CallsRefine DEF IndicesInOrder
  <2>2. ASSUME UNCHANGED bufferVars PROVE UNCHANGED Queue!vars
    BY <2>2 DEF Content, bufferVars, Queue!vars
  <2> QED
    BY <2>1, <2>2
<1> QED
  BY <1>1, <1>2, IndicesStayInOrder, PTL DEF BufferSpec, ImplementsByteQueue, Queue!Spec

-----------------------------------------------------------------------------
(***************************************************************************)
(* When the vector becomes longer, by an append and by what is behind it.  *)
(***************************************************************************)
LEMMA GrowsForRoom ==
  ASSUME NEW b, InOrder(b), NEW len \in Nat
  PROVE  LET c == ensureWritableBytes(b, len)
         IN  /\ readableBytes(c) = readableBytes(b)
             /\ Len(c.bytes) > Len(b.bytes) =>
                   kCheapPrepend + readableBytes(b) + len > Len(b.bytes)
<1> DEFINE c == ensureWritableBytes(b, len)
<1>1. InOrder(c) /\ Content(c) = Content(b)
  BY EnsureKeepsContent
<1>2. readableBytes(c) = readableBytes(b)
  BY <1>1, ContentBytes
<1>3. /\ b.bytes \in Seq(Bytes) /\ b.readerIndex \in Nat /\ b.writerIndex \in Nat
      /\ Len(b.bytes) \in Nat /\ b.readerIndex <= b.writerIndex
      /\ b.writerIndex <= Len(b.bytes) /\ kCheapPrepend <= Len(b.bytes) /\ kCheapPrepend \in Nat
  BY BufferAssumption DEF InOrder, Buffers
<1>4. CASE ~(writableBytes(b) < len)
  <2>1. c = b
    BY <1>4 DEF ensureWritableBytes
  <2> QED
    BY <1>2, <1>3, <2>1
<1>5. CASE /\ writableBytes(b) < len
           /\ ~(writableBytes(b) + prependableBytes(b) < len + kCheapPrepend)
  <2>1. c.bytes = CopyTo(b.bytes, kCheapPrepend, Content(b))
    BY <1>5 DEF ensureWritableBytes, makeSpace
  <2>2. /\ Content(b) \in Seq(Bytes)
        /\ kCheapPrepend + Len(Content(b)) <= Len(b.bytes)
    <3>1. Content(b) \in Seq(Bytes) /\ Len(Content(b)) = b.writerIndex - b.readerIndex
      BY ContentBytes DEF readableBytes
    <3> QED
      BY <1>3, <1>5, <3>1 DEF writableBytes, prependableBytes
  <2>3. Len(c.bytes) = Len(b.bytes)
    BY <1>3, <2>1, <2>2, CopyToBytes
  <2> HIDE DEF c
  <2> QED
    BY <1>2, <1>3, <2>3 DEF c
<1>6. CASE writableBytes(b) + prependableBytes(b) < len + kCheapPrepend
  <2>1. kCheapPrepend + readableBytes(b) + len > Len(b.bytes)
    BY <1>3, <1>6 DEF writableBytes, prependableBytes, readableBytes
  <2> QED
    BY <1>2, <2>1
<1> QED
  BY <1>4, <1>5, <1>6

LEMMA HasWrittenReadable ==
  ASSUME NEW b, InOrder(b), NEW data \in Seq(Bytes), Len(data) <= writableBytes(b)
  PROVE  /\ InOrder(hasWritten(b, data))
         /\ Len(hasWritten(b, data).bytes) = Len(b.bytes)
         /\ readableBytes(hasWritten(b, data)) = readableBytes(b) + Len(data)
<1> DEFINE c == hasWritten(b, data)
<1>1. /\ InOrder(c) /\ Len(c.bytes) = Len(b.bytes)
      /\ c.writerIndex = b.writerIndex + Len(data)
  BY HasWrittenAppends
<1>2. c.readerIndex = b.readerIndex
  BY DEF hasWritten, InOrder, Buffers
<1>3. b.readerIndex \in Nat /\ b.writerIndex \in Nat /\ Len(data) \in Nat
  BY DEF InOrder, Buffers
<1> HIDE DEF c
<1> QED
  BY <1>1, <1>2, <1>3 DEF readableBytes, c

LEMMA AppendGrows ==
  ASSUME NEW b, InOrder(b), NEW data \in Seq(Bytes)
  PROVE  /\ InOrder(append(b, data))
         /\ readableBytes(append(b, data)) = readableBytes(b) + Len(data)
         /\ Len(append(b, data).bytes) > Len(b.bytes) =>
               kCheapPrepend + readableBytes(b) + Len(data) > Len(b.bytes)
<1> DEFINE c == ensureWritableBytes(b, Len(data))
<1>1. Len(data) \in Nat
  OBVIOUS
<1>2. InOrder(c) /\ Len(data) <= writableBytes(c)
  BY <1>1, EnsureKeepsContent
<1>3. /\ readableBytes(c) = readableBytes(b)
      /\ Len(c.bytes) > Len(b.bytes) => kCheapPrepend + readableBytes(b) + Len(data) > Len(b.bytes)
  BY <1>1, GrowsForRoom
<1> HIDE DEF c
<1>4. /\ InOrder(hasWritten(c, data))
      /\ Len(hasWritten(c, data).bytes) = Len(c.bytes)
      /\ readableBytes(hasWritten(c, data)) = readableBytes(c) + Len(data)
  BY <1>2, HasWrittenReadable
<1>5. append(b, data) = hasWritten(c, data)
  BY Zenon DEF append, c
<1> QED
  BY <1>3, <1>4, <1>5

LEMMA ReadFdGrows ==
  ASSUME NEW b, InOrder(b), NEW data \in Seq(Bytes)
  PROVE  /\ readableBytes(readFd(b, data)) = readableBytes(b) + Len(data)
         /\ Len(readFd(b, data).bytes) > Len(b.bytes) =>
               kCheapPrepend + readableBytes(b) + Len(data) > Len(b.bytes)
<1> DEFINE n == writableBytes(b)
           first == SubSeq(data, 1, n)
           rest == SubSeq(data, n + 1, Len(data))
           c == hasWritten(b, first)
<1>1. /\ n \in Nat /\ Len(data) \in Nat /\ Len(b.bytes) \in Nat
      /\ readableBytes(b) \in Nat /\ kCheapPrepend \in Nat
  BY BufferAssumption, LenProperties DEF InOrder, Buffers, writableBytes, readableBytes
<1>2. CASE Len(data) <= n
  <2>1. readFd(b, data) = hasWritten(b, data)
    BY <1>2 DEF readFd
  <2>2. /\ Len(hasWritten(b, data).bytes) = Len(b.bytes)
        /\ readableBytes(hasWritten(b, data)) = readableBytes(b) + Len(data)
    BY <1>2, HasWrittenReadable
  <2> QED
    BY <1>1, <2>1, <2>2
<1>3. CASE ~(Len(data) <= n)
  <2>1. n <= writableBytes(b)
    BY <1>1
  <2>2. readFd(b, data) = append(c, rest)
    BY <1>3, Zenon DEF readFd
  <2> HIDE DEF n
  <2>3. first \in Seq(Bytes) /\ Len(first) = n
    BY <1>1, <1>3, SubSeqBytes
  <2>4. rest \in Seq(Bytes) /\ Len(rest) = Len(data) - n
    BY <1>1, <1>3, SubSeqBytes
  <2> HIDE DEF first, rest
  <2>5. /\ InOrder(c) /\ Len(c.bytes) = Len(b.bytes)
        /\ readableBytes(c) = readableBytes(b) + n
    BY <2>1, <2>3, HasWrittenReadable
  <2> HIDE DEF c
  <2>6. /\ readableBytes(append(c, rest)) = readableBytes(c) + Len(rest)
        /\ Len(append(c, rest).bytes) > Len(c.bytes) =>
              kCheapPrepend + readableBytes(c) + Len(rest) > Len(c.bytes)
    BY <2>4, <2>5, AppendGrows
  <2>7. readableBytes(c) + Len(rest) = readableBytes(b) + Len(data)
    BY <1>1, <2>4, <2>5
  <2>8. kCheapPrepend + readableBytes(c) + Len(rest) = kCheapPrepend + readableBytes(b) + Len(data)
    BY <1>1, <2>4, <2>5
  <2> QED
    BY <2>2, <2>5, <2>6, <2>7, <2>8
<1> QED
  BY <1>2, <1>3

(***************************************************************************)
(* For every size and every prepend, append and readFd make the vector     *)
(* longer only when the content does not fit into it, moved to the front   *)
(* (makeSpace, Buffer.h).                                                  *)
(***************************************************************************)
THEOREM BufferGrowsOnlyWhenFull == BufferSpec => GrowsOnlyWhenFull
<1>1. ASSUME IndicesInOrder, [BufferNext]_bufferVars,
             call'.op \in {"append", "readFd"}, Len(buffer'.bytes) > Len(buffer.bytes)
      PROVE  kCheapPrepend + readableBytes(buffer') > Len(buffer.bytes)
  <2> PICK b : b = buffer
    OBVIOUS
  <2>1. InOrder(b)
    BY <1>1 DEF IndicesInOrder
  <2>2. Len(b.bytes) \in Nat
    BY <2>1 DEF InOrder, Buffers
  <2>3. buffer' # buffer
    BY <1>1, <2>2
  <2>4. BufferNext
    BY <1>1, <2>3 DEF bufferVars
  <2>5. PICK data \in Data : AppendData(data) \/ ReadFd(data)
    BY <1>1, <2>4
    DEF BufferNext, HasWritten, Prepend, EnsureWritableBytes, Retrieve, ReadFront, Unwrite
  <2>6. data \in Seq(Bytes)
    BY BufferAssumption
  <2>7. buffer' = append(b, data) \/ buffer' = readFd(b, data)
    BY <2>5 DEF AppendData, ReadFd
  <2>8. /\ readableBytes(buffer') = readableBytes(b) + Len(data)
        /\ Len(buffer'.bytes) > Len(b.bytes) =>
              kCheapPrepend + readableBytes(b) + Len(data) > Len(b.bytes)
    BY <2>1, <2>6, <2>7, AppendGrows, ReadFdGrows
  <2>9. kCheapPrepend + readableBytes(buffer') = kCheapPrepend + readableBytes(b) + Len(data)
    <3>1. kCheapPrepend \in Nat /\ Len(data) \in Nat /\ readableBytes(b) \in Nat
      BY <2>1, <2>6, BufferAssumption DEF InOrder, Buffers, readableBytes
    <3> QED
      BY <2>8, <3>1
  <2> QED
    BY <1>1, <2>8, <2>9
<1>2. IndicesInOrder /\ [BufferNext]_bufferVars
        => [call'.op \in {"append", "readFd"} /\ Len(buffer'.bytes) > Len(buffer.bytes)
              => kCheapPrepend + readableBytes(buffer') > Len(buffer.bytes)]_bufferVars
  BY <1>1
<1> QED
  BY <1>2, IndicesStayInOrder, PTL DEF BufferSpec, GrowsOnlyWhenFull
=============================================================================

--------------------------- MODULE Buffer_proofs ---------------------------
(***************************************************************************)
(* For any sizes: a Buffer keeps its indices in order, its length, its     *)
(* bytes as long as reads fit, and does not grow beyond what it holds.     *)
(***************************************************************************)
EXTENDS Buffer, TLAPS

(* A buffer put together from well-formed members.                         *)
LEMMA MembersMake ==
  ASSUME NEW s, NEW f, NEW r, NEW w
  PROVE  LET c == Members(s, f, r, w) IN
           /\ c.size = s /\ c.bytes = f /\ c.readerIndex = r /\ c.writeIndex = w
           /\ (/\ s \in Nat /\ f \in Bytes(s) /\ r \in Nat /\ w \in Nat
               /\ kCheapPrepend <= r /\ r <= w /\ w <= s) => BufferOK(c)
<1> DEFINE c == Members(s, f, r, w)
<1>1. c.size = s /\ c.bytes = f /\ c.readerIndex = r /\ c.writeIndex = w
  BY DEF Members
<1>2. f \in Bytes(s) /\ s \in Nat /\ r \in Nat /\ w \in Nat =>
        c \in [size : Nat, bytes : Bytes(s), readerIndex : Nat, writeIndex : Nat]
  BY DEF Members
<1> HIDE DEF c
<1>3. QED
  BY <1>1, <1>2 DEF BufferOK, c

(* What being well-formed says of the members.                             *)
LEMMA MembersOf ==
  ASSUME NEW b, BufferOK(b)
  PROVE  /\ b.size \in Nat /\ b.readerIndex \in Nat /\ b.writeIndex \in Nat
         /\ b.bytes \in Bytes(b.size)
         /\ kCheapPrepend <= b.readerIndex
         /\ b.readerIndex <= b.writeIndex
         /\ b.writeIndex <= b.size
  BY DEF BufferOK

(* The constructor's buffer is well-formed and empty.                      *)
LEMMA NewIsOK ==
  BufferOK(New) /\ ReadableBytes(New) = 0 /\ New.size = kCheapPrepend + kInitialSize
  BY SizeAssumption, MembersMake DEF New, ReadableBytes, Bytes

(* A copy into the vector: the bytes it covers and the others.             *)
LEMMA CopiedBytes ==
  ASSUME NEW b, BufferOK(b), NEW at \in Nat, NEW len \in Nat, at + len <= b.size,
         NEW data \in Bytes(len)
  PROVE  /\ Copied(b, at, len, data) \in Bytes(b.size)
         /\ \A i \in 0..(b.size - 1) :
              i < at \/ at + len <= i => Copied(b, at, len, data)[i] = b.bytes[i]
         /\ \A i \in 0..(len - 1) : Copied(b, at, len, data)[at + i] = data[i]
<1>1. b.size \in Nat /\ b.bytes \in Bytes(b.size)
  BY MembersOf
<1>2. ASSUME NEW i \in 0..(len - 1)
      PROVE  Copied(b, at, len, data)[at + i] = data[i]
  <2>1. /\ at + i \in 0..(b.size - 1)
        /\ at <= at + i /\ at + i < at + len
        /\ (at + i) - at = i
    BY <1>1
  <2>2. QED
    BY <2>1 DEF Copied
<1>3. Copied(b, at, len, data) \in Bytes(b.size)
  <2>1. ASSUME NEW i \in 0..(b.size - 1), at <= i, i < at + len
        PROVE  data[i - at] \in Nat
    <3>1. i - at \in 0..(len - 1)
      BY <1>1, <2>1
    <3>2. QED
      BY <3>1 DEF Bytes
  <2>2. QED
    BY <1>1, <2>1 DEF Copied, Bytes
<1>4. ASSUME NEW i \in 0..(b.size - 1), i < at \/ at + len <= i
      PROVE  Copied(b, at, len, data)[i] = b.bytes[i]
  BY <1>1, <1>4 DEF Copied
<1>5. QED
  BY <1>2, <1>3, <1>4

(* resize keeps the bytes that are there.                                  *)
LEMMA LengthenKeeps ==
  ASSUME NEW b, BufferOK(b), NEW n \in Nat, b.size <= n
  PROVE  LET c == Lengthen(b, n) IN
           /\ BufferOK(c)
           /\ c.size = n /\ c.readerIndex = b.readerIndex /\ c.writeIndex = b.writeIndex
           /\ \A i \in 0..(b.size - 1) : c.bytes[i] = b.bytes[i]
<1>1. /\ Resized(b, n) \in Bytes(n)
      /\ \A i \in 0..(b.size - 1) : Resized(b, n)[i] = b.bytes[i]
  <2>1. b.size \in Nat /\ b.bytes \in Bytes(b.size)
    BY MembersOf
  <2>2. QED
    BY <2>1 DEF Resized, Bytes
<1>2. QED
  BY <1>1, MembersOf, MembersMake DEF Lengthen

(* The slide moves the readable bytes down and keeps them.                 *)
LEMMA SlideKeeps ==
  ASSUME NEW b, BufferOK(b)
  PROVE  LET c == Slide(b) IN
           /\ BufferOK(c)
           /\ c.size = b.size /\ c.readerIndex = kCheapPrepend
           /\ c.writeIndex = kCheapPrepend + ReadableBytes(b)
           /\ \A i \in 0..(ReadableBytes(b) - 1) :
                c.bytes[kCheapPrepend + i] = b.bytes[b.readerIndex + i]
<1>0. /\ b.size \in Nat /\ b.readerIndex \in Nat /\ b.writeIndex \in Nat
      /\ b.bytes \in Bytes(b.size)
      /\ kCheapPrepend <= b.readerIndex
      /\ b.readerIndex <= b.writeIndex
      /\ b.writeIndex <= b.size
  BY MembersOf
<1> DEFINE f == Copied(b, kCheapPrepend, ReadableBytes(b), Unread(b))
<1>1. ReadableBytes(b) \in Nat /\ kCheapPrepend + ReadableBytes(b) <= b.size
  BY SizeAssumption, <1>0 DEF ReadableBytes
<1>2. /\ Unread(b) \in Bytes(ReadableBytes(b))
      /\ \A i \in 0..(ReadableBytes(b) - 1) : Unread(b)[i] = b.bytes[b.readerIndex + i]
  <2>1. \A i \in 0..(ReadableBytes(b) - 1) : b.readerIndex + i \in 0..(b.size - 1)
    BY <1>0 DEF ReadableBytes
  <2>2. QED
    BY <1>0, <2>1 DEF Unread, Bytes
<1>3. /\ f \in Bytes(b.size)
      /\ \A i \in 0..(ReadableBytes(b) - 1) : f[kCheapPrepend + i] = Unread(b)[i]
  BY <1>1, <1>2, CopiedBytes, SizeAssumption
<1> HIDE DEF f
<1>4. ASSUME NEW i \in 0..(ReadableBytes(b) - 1)
      PROVE  f[kCheapPrepend + i] = b.bytes[b.readerIndex + i]
  BY <1>2, <1>3
<1>5. Slide(b) = Members(b.size, f, kCheapPrepend, kCheapPrepend + ReadableBytes(b))
  BY DEF Slide, f
<1>6. QED
  BY <1>1, <1>3, <1>4, <1>5, MembersMake, <1>0, SizeAssumption

(* Making room moves the readable bytes at most, makes the room, and grows *)
(* the vector only when the bytes held and wanted fill half of it.         *)
LEMMA EnsureMakesRoom ==
  ASSUME NEW b, BufferOK(b), NEW len \in Nat
  PROVE  LET c == EnsureWritableBytes(b, len) IN
           /\ BufferOK(c)
           /\ len <= WriteableBytes(c)
           /\ ReadableBytes(c) = ReadableBytes(b)
           /\ \A i \in 0..(ReadableBytes(b) - 1) :
                c.bytes[c.readerIndex + i] = b.bytes[b.readerIndex + i]
           /\ c.size <= b.size \/ c.size <= kCheapPrepend + 2 * (ReadableBytes(b) + len)
<1>0. /\ b.size \in Nat /\ b.readerIndex \in Nat /\ b.writeIndex \in Nat
      /\ b.bytes \in Bytes(b.size)
      /\ kCheapPrepend <= b.readerIndex
      /\ b.readerIndex <= b.writeIndex
      /\ b.writeIndex <= b.size
  BY MembersOf
<1> DEFINE c == EnsureWritableBytes(b, len)
<1> USE <1>0, SizeAssumption DEF ReadableBytes, WriteableBytes
<1>1. CASE WriteableBytes(b) >= len
  <2>1. c = b
    BY <1>1 DEF EnsureWritableBytes
  <2>2. QED
    BY <1>1, <2>1
<1>2. CASE WriteableBytes(b) < len /\ WriteableBytes(b) + b.readerIndex < len + kCheapPrepend
  <2>1. c = Lengthen(b, b.writeIndex + len)
    BY <1>2 DEF EnsureWritableBytes, MakeSpace
  <2>2. b.writeIndex + len \in Nat /\ b.size <= b.writeIndex + len
    BY <1>2
  <2> HIDE DEF c
  <2>3. /\ BufferOK(c)
        /\ c.size = b.writeIndex + len
        /\ c.readerIndex = b.readerIndex
        /\ c.writeIndex = b.writeIndex
        /\ \A i \in 0..(b.size - 1) : c.bytes[i] = b.bytes[i]
    BY <2>1, <2>2, LengthenKeeps
  <2>4. \A i \in 0..(ReadableBytes(b) - 1) : b.readerIndex + i \in 0..(b.size - 1)
    OBVIOUS
  <2>5. ASSUME NEW i \in 0..(ReadableBytes(b) - 1)
        PROVE  c.bytes[c.readerIndex + i] = b.bytes[b.readerIndex + i]
    <3>1. c.bytes[b.readerIndex + i] = b.bytes[b.readerIndex + i]
      BY <2>3, <2>4
    <3>2. QED
      BY <3>1, <2>3
  <2>6. len <= WriteableBytes(c) /\ ReadableBytes(c) = ReadableBytes(b)
    BY <2>3
  <2>7. c.size <= kCheapPrepend + 2 * (ReadableBytes(b) + len)
    BY <1>2, <2>3
  <2>8. QED
    BY <2>3, <2>5, <2>6, <2>7 DEF c
<1>3. CASE WriteableBytes(b) < len /\ ~(WriteableBytes(b) + b.readerIndex < len + kCheapPrepend)
  <2>1. c = Slide(b)
    BY <1>3 DEF EnsureWritableBytes, MakeSpace
  <2> HIDE DEF c
  <2>2. /\ BufferOK(c)
        /\ c.size = b.size
        /\ c.readerIndex = kCheapPrepend
        /\ c.writeIndex = kCheapPrepend + ReadableBytes(b)
        /\ \A i \in 0..(ReadableBytes(b) - 1) :
             c.bytes[kCheapPrepend + i] = b.bytes[b.readerIndex + i]
    BY <2>1, SlideKeeps
  <2>3. ASSUME NEW i \in 0..(ReadableBytes(b) - 1)
        PROVE  c.bytes[c.readerIndex + i] = b.bytes[b.readerIndex + i]
    BY <2>2
  <2>4. len <= WriteableBytes(c) /\ ReadableBytes(c) = ReadableBytes(b)
    BY <1>3, <2>2
  <2>5. c.size <= b.size
    BY <2>2
  <2>6. QED
    BY <2>2, <2>3, <2>4, <2>5 DEF c
<1>4. QED
  BY <1>1, <1>2, <1>3

(* Bytes that fit are put behind the readable ones.                        *)
LEMMA FillAppends ==
  ASSUME NEW b, BufferOK(b), NEW len \in Nat, len <= WriteableBytes(b),
         NEW data \in Bytes(len)
  PROVE  LET c == Fill(b, len, data) IN
           /\ BufferOK(c)
           /\ c.size = b.size
           /\ ReadableBytes(c) = ReadableBytes(b) + len
           /\ \A i \in 0..(ReadableBytes(b) - 1) :
                c.bytes[c.readerIndex + i] = b.bytes[b.readerIndex + i]
           /\ \A i \in 0..(len - 1) :
                c.bytes[c.readerIndex + ReadableBytes(b) + i] = data[i]
<1>0. /\ b.size \in Nat /\ b.readerIndex \in Nat /\ b.writeIndex \in Nat
      /\ b.bytes \in Bytes(b.size)
      /\ kCheapPrepend <= b.readerIndex
      /\ b.readerIndex <= b.writeIndex
      /\ b.writeIndex <= b.size
  BY MembersOf
<1> DEFINE f == Copied(b, b.writeIndex, len, data)
           c == Fill(b, len, data)
<1>1. b.writeIndex \in Nat /\ b.writeIndex + len <= b.size
  BY <1>0 DEF WriteableBytes
<1>2. /\ f \in Bytes(b.size)
      /\ \A i \in 0..(b.size - 1) :
           i < b.writeIndex \/ b.writeIndex + len <= i => f[i] = b.bytes[i]
      /\ \A i \in 0..(len - 1) : f[b.writeIndex + i] = data[i]
  BY <1>1, CopiedBytes
<1>3. c = Members(b.size, f, b.readerIndex, b.writeIndex + len)
  BY DEF Fill
<1> HIDE DEF f, c
<1>4. /\ BufferOK(c)
      /\ c.size = b.size /\ c.bytes = f
      /\ c.readerIndex = b.readerIndex /\ c.writeIndex = b.writeIndex + len
  BY <1>1, <1>2, <1>3, MembersMake, <1>0
<1>5. ASSUME NEW i \in 0..(ReadableBytes(b) - 1)
      PROVE  c.bytes[c.readerIndex + i] = b.bytes[b.readerIndex + i]
  <2>1. b.readerIndex + i \in 0..(b.size - 1) /\ b.readerIndex + i < b.writeIndex
    BY <1>0 DEF ReadableBytes
  <2>2. f[b.readerIndex + i] = b.bytes[b.readerIndex + i]
    BY <1>0, <1>1, <1>2, <2>1
  <2>3. QED
    BY <1>4, <2>2
<1>6. ASSUME NEW i \in 0..(len - 1)
      PROVE  c.bytes[c.readerIndex + ReadableBytes(b) + i] = data[i]
  <2>1. b.readerIndex + ReadableBytes(b) + i = b.writeIndex + i
    BY <1>0 DEF ReadableBytes
  <2>2. QED
    BY <1>2, <1>4, <2>1
<1>7. QED
  BY <1>4, <1>5, <1>6, <1>0 DEF ReadableBytes, c

(* append: room is made, then the bytes are put behind.                    *)
LEMMA AppendAppends ==
  ASSUME NEW b, BufferOK(b), NEW len \in Nat, NEW data \in Bytes(len)
  PROVE  LET c == Append(b, len, data) IN
           /\ BufferOK(c)
           /\ ReadableBytes(c) = ReadableBytes(b) + len
           /\ \A i \in 0..(ReadableBytes(b) - 1) :
                c.bytes[c.readerIndex + i] = b.bytes[b.readerIndex + i]
           /\ \A i \in 0..(len - 1) :
                c.bytes[c.readerIndex + ReadableBytes(b) + i] = data[i]
           /\ c.size <= b.size \/ c.size <= kCheapPrepend + 2 * ReadableBytes(c)
<1> DEFINE d == EnsureWritableBytes(b, len)
           c == Append(b, len, data)
<1>1. /\ BufferOK(d)
      /\ len <= WriteableBytes(d)
      /\ ReadableBytes(d) = ReadableBytes(b)
      /\ \A i \in 0..(ReadableBytes(b) - 1) :
           d.bytes[d.readerIndex + i] = b.bytes[b.readerIndex + i]
      /\ d.size <= b.size \/ d.size <= kCheapPrepend + 2 * (ReadableBytes(b) + len)
  BY EnsureMakesRoom
<1>2. c = Fill(d, len, data)
  BY DEF Append
<1> HIDE DEF c, d
<1>3. /\ BufferOK(c)
      /\ c.size = d.size
      /\ ReadableBytes(c) = ReadableBytes(d) + len
      /\ \A i \in 0..(ReadableBytes(d) - 1) :
           c.bytes[c.readerIndex + i] = d.bytes[d.readerIndex + i]
      /\ \A i \in 0..(len - 1) :
           c.bytes[c.readerIndex + ReadableBytes(d) + i] = data[i]
  BY <1>1, <1>2, FillAppends
<1>4. QED
  BY <1>1, <1>3 DEF c

(* The next bytes of a stream, put behind those held, continue it.         *)
LEMMA HoldsGrows ==
  ASSUME NEW b, BufferOK(b), NEW c, BufferOK(c), NEW first \in Nat, NEW len \in Nat,
         Holds(b, first),
         ReadableBytes(c) = ReadableBytes(b) + len,
         \A i \in 0..(ReadableBytes(b) - 1) :
           c.bytes[c.readerIndex + i] = b.bytes[b.readerIndex + i],
         \A i \in 0..(len - 1) :
           c.bytes[c.readerIndex + ReadableBytes(b) + i] = first + ReadableBytes(b) + i + 1
  PROVE  Holds(c, first)
<1> DEFINE n == ReadableBytes(b)
<1>1. n \in Nat /\ ReadableBytes(c) = n + len /\ c.readerIndex \in Nat
  BY MembersOf DEF ReadableBytes
<1> HIDE DEF n
<1> SUFFICES ASSUME NEW i \in 0..(n + len - 1)
             PROVE  c.bytes[c.readerIndex + i] = first + i + 1
  BY <1>1 DEF Holds
<1>2. CASE i < n
  <2>1. i \in 0..(n - 1)
    BY <1>1, <1>2
  <2>2. c.bytes[c.readerIndex + i] = b.bytes[b.readerIndex + i]
    BY <2>1 DEF n
  <2>3. b.bytes[b.readerIndex + i] = first + i + 1
    BY <2>1 DEF Holds, n
  <2>4. QED
    BY <2>2, <2>3
<1>3. CASE n <= i
  <2> DEFINE j == i - n
  <2>1. j \in 0..(len - 1) /\ i = n + j
    BY <1>1, <1>3
  <2> HIDE DEF j
  <2>2. c.bytes[c.readerIndex + n + j] = first + n + j + 1
    BY <2>1 DEF n
  <2>3. c.readerIndex + n + j = c.readerIndex + i
    BY <2>1, <1>1
  <2>4. QED
    BY <2>1, <2>2, <2>3, <1>1
<1>4. QED
  BY <1>1, <1>2, <1>3

(* retrieve: what is left is what was behind the bytes taken.              *)
LEMMA RetrieveTakes ==
  ASSUME NEW b, BufferOK(b), NEW len \in 0..ReadableBytes(b)
  PROVE  LET c == Retrieve(b, len) IN
           /\ BufferOK(c)
           /\ c.size = b.size
           /\ ReadableBytes(c) = ReadableBytes(b) - len
           /\ \A i \in 0..(ReadableBytes(c) - 1) :
                c.bytes[c.readerIndex + i] = b.bytes[b.readerIndex + len + i]
<1>0. /\ b.size \in Nat /\ b.readerIndex \in Nat /\ b.writeIndex \in Nat
      /\ b.bytes \in Bytes(b.size)
      /\ kCheapPrepend <= b.readerIndex
      /\ b.readerIndex <= b.writeIndex
      /\ b.writeIndex <= b.size
  BY MembersOf
<1> DEFINE c == Retrieve(b, len)
<1>1. CASE len < ReadableBytes(b)
  <2>1. c = Members(b.size, b.bytes, b.readerIndex + len, b.writeIndex)
    BY <1>1 DEF Retrieve
  <2>2. b.readerIndex + len \in Nat /\ b.readerIndex + len <= b.writeIndex
    BY <1>0 DEF ReadableBytes
  <2> HIDE DEF c
  <2>3. /\ BufferOK(c)
        /\ c.size = b.size /\ c.bytes = b.bytes
        /\ c.readerIndex = b.readerIndex + len /\ c.writeIndex = b.writeIndex
    BY <1>0, <2>1, <2>2, MembersMake, SizeAssumption
  <2>4. ReadableBytes(c) = ReadableBytes(b) - len
    BY <1>0, <2>3 DEF ReadableBytes
  <2>5. QED
    BY <2>3, <2>4 DEF c
<1>2. CASE len = ReadableBytes(b)
  <2>1. c = Members(b.size, b.bytes, kCheapPrepend, kCheapPrepend)
    BY <1>0, <1>2 DEF Retrieve, RetrieveAll, ReadableBytes
  <2> HIDE DEF c
  <2>2. /\ BufferOK(c)
        /\ c.size = b.size
        /\ c.readerIndex = kCheapPrepend /\ c.writeIndex = kCheapPrepend
    BY <1>0, <2>1, MembersMake, SizeAssumption
  <2>3. ReadableBytes(c) = 0 /\ ReadableBytes(b) - len = 0
    BY <1>0, <1>2, <2>2, SizeAssumption DEF ReadableBytes
  <2>4. QED
    BY <2>2, <2>3 DEF c
<1>3. QED
  BY <1>0, <1>1, <1>2 DEF ReadableBytes

(* readFd with more bytes than fit: their number is right, whatever they   *)
(* are.                                                                    *)
LEMMA ReadFdOverrun ==
  ASSUME NEW b, BufferOK(b), NEW n \in Nat, WriteableBytes(b) < n,
         NEW data \in Bytes(n)
  PROVE  LET c == ReadFd(b, n, data) IN
           /\ BufferOK(c)
           /\ ReadableBytes(c) = ReadableBytes(b) + n
           /\ c.size <= b.size \/ c.size <= kCheapPrepend + 2 * ReadableBytes(c)
<1> DEFINE w == WriteableBytes(b)
           full == Fill(b, w, data)
           zeros == [i \in 0..(n - w - 1) |-> 0]
           c == ReadFd(b, n, data)
<1>1. w \in Nat /\ n - w \in Nat /\ zeros \in Bytes(n - w)
  BY MembersOf DEF WriteableBytes, Bytes
<1>2. c = Append(full, n - w, zeros)
  BY <1>1 DEF ReadFd
<1> HIDE DEF w, zeros
<1>3. full = Fill(b, w, [i \in 0..(w - 1) |-> data[i]])
  <2>1. \A i \in 0..(b.size - 1) :
          b.writeIndex <= i /\ i < b.writeIndex + w => i - b.writeIndex \in 0..(w - 1)
    <3>1. b.size \in Nat /\ b.writeIndex \in Nat
      BY MembersOf
    <3>2. QED
      BY <1>1, <3>1
  <2>2. Copied(b, b.writeIndex, w, data)
          = Copied(b, b.writeIndex, w, [i \in 0..(w - 1) |-> data[i]])
    BY <2>1 DEF Copied
  <2>3. QED
    BY <2>2 DEF Fill
<1>4. [i \in 0..(w - 1) |-> data[i]] \in Bytes(w)
  BY <1>1 DEF Bytes
<1> HIDE DEF full, c
<1>5. w <= WriteableBytes(b)
  BY <1>1 DEF w
<1>6. BufferOK(full) /\ full.size = b.size /\ ReadableBytes(full) = ReadableBytes(b) + w
  BY <1>1, <1>3, <1>4, <1>5, FillAppends
<1>7. /\ BufferOK(c)
      /\ ReadableBytes(c) = ReadableBytes(full) + (n - w)
      /\ c.size <= full.size \/ c.size <= kCheapPrepend + 2 * ReadableBytes(c)
  BY <1>1, <1>2, <1>6, AppendAppends
<1>8. ReadableBytes(b) \in Int
  BY MembersOf DEF ReadableBytes
<1>9. QED
  BY <1>1, <1>6, <1>7, <1>8 DEF c

----------------------------------------------------------------------------
(* The initial state satisfies the inductive invariant.                    *)
LEMMA InitInvariant == Init => IInv
<1> SUFFICES ASSUME Init PROVE IInv
  OBVIOUS
<1>1. buf = New /\ put = 0 /\ taken = 0 /\ peak = 0 /\ overrun = FALSE
  BY DEF Init
<1>2. BufferOK(buf) /\ ReadableBytes(buf) = 0 /\ buf.size = kCheapPrepend + kInitialSize
  BY <1>1, NewIsOK
<1>3. Holds(buf, taken)
  BY <1>1, <1>2 DEF Holds
<1>4. TypeOK
  BY <1>1, <1>2 DEF TypeOK
<1>5. LengthKept /\ PeakIsReached
  BY <1>1, <1>2 DEF LengthKept, PeakIsReached
<1>6. GrowthBounded
  BY <1>2, SizeAssumption DEF GrowthBounded
<1>7. QED
  BY <1>3, <1>4, <1>5, <1>6 DEF IInv, Fifo

(* A step that puts n bytes in keeps the invariant, when the buffer grew   *)
(* by n bytes, no further than it had to, and continues the stream if      *)
(* every read fitted.                                                      *)
LEMMA PutKeeps ==
  ASSUME IInv, NEW n \in Nat, Put(n), BufferOK(buf'), overrun' \in BOOLEAN,
         ReadableBytes(buf') = ReadableBytes(buf) + n,
         ~overrun' => Holds(buf', taken),
         buf'.size <= buf.size \/ buf'.size <= kCheapPrepend + 2 * ReadableBytes(buf')
  PROVE  IInv'
<1>1. /\ put \in Nat /\ taken \in Nat /\ peak \in Nat
      /\ put' = put + n /\ taken' = taken
      /\ peak' = IF ReadableBytes(buf') > peak THEN ReadableBytes(buf') ELSE peak
  BY DEF IInv, TypeOK, Put
<1>2. ReadableBytes(buf) \in Nat /\ ReadableBytes(buf') \in Nat
      /\ buf.size \in Nat /\ buf'.size \in Nat
  <2>1. BufferOK(buf)
    BY DEF IInv, TypeOK
  <2>2. ReadableBytes(buf) \in Nat /\ buf.size \in Nat
    BY <2>1, MembersOf DEF ReadableBytes
  <2>3. buf'.size \in Nat
    BY MembersOf
  <2>4. QED
    BY <2>2, <2>3
<1>3. peak' \in Nat /\ peak <= peak' /\ ReadableBytes(buf') <= peak'
  BY <1>1, <1>2
<1>4. TypeOK'
  BY <1>1, <1>3 DEF TypeOK
<1>5. LengthKept'
  BY <1>1 DEF LengthKept, IInv
<1>6. Fifo'
  BY <1>1 DEF Fifo, Holds
<1>7. GrowthBounded'
  <2>1. \/ buf.size <= kCheapPrepend + kInitialSize
        \/ buf.size <= kCheapPrepend + 2 * peak
    BY DEF IInv, GrowthBounded
  <2>2. CASE buf'.size <= buf.size
    BY <1>1, <1>2, <1>3, <2>1, <2>2, SizeAssumption DEF GrowthBounded
  <2>3. CASE buf'.size <= kCheapPrepend + 2 * ReadableBytes(buf')
    BY <1>2, <1>3, <2>3, SizeAssumption DEF GrowthBounded
  <2>4. QED
    BY <2>2, <2>3
<1>8. PeakIsReached'
  BY <1>3 DEF PeakIsReached
<1>9. QED
  BY <1>4, <1>5, <1>6, <1>7, <1>8 DEF IInv

(* The stream's next n bytes, which a put or a read is given.              *)
LEMMA StreamTyped ==
  ASSUME put \in Nat, NEW n \in Nat
  PROVE  /\ Stream(n) \in Bytes(n)
         /\ \A i \in 0..(n - 1) : Stream(n)[i] = put + i + 1
  BY DEF Stream, Bytes

(* Every operation keeps the inductive invariant.                          *)
LEMMA Inductive == IInv /\ [Next]_vars => IInv'
<1> SUFFICES ASSUME IInv, [Next]_vars PROVE IInv'
  OBVIOUS
<1>0. /\ BufferOK(buf) /\ put \in Nat /\ taken \in Nat /\ peak \in Nat
      /\ overrun \in BOOLEAN
      /\ ReadableBytes(buf) = put - taken
      /\ ReadableBytes(buf) \in Nat
  <2>1. BufferOK(buf) /\ put \in Nat /\ taken \in Nat /\ peak \in Nat /\ overrun \in BOOLEAN
    BY DEF IInv, TypeOK
  <2>2. ReadableBytes(buf) \in Nat
    BY <2>1, MembersOf DEF ReadableBytes
  <2>3. QED
    BY <2>1, <2>2 DEF IInv, LengthKept
<1>1. ASSUME NEW len \in 0..MaxLen, AppendBytes(len)
      PROVE  IInv'
  <2>1. /\ len \in Nat
        /\ buf' = Append(buf, len, Stream(len))
        /\ Put(len)
        /\ overrun' = overrun
    BY <1>1, BoundAssumption DEF AppendBytes
  <2>2. /\ Stream(len) \in Bytes(len)
        /\ \A i \in 0..(len - 1) : Stream(len)[i] = put + i + 1
    BY <1>0, <2>1, StreamTyped
  <2>3. /\ BufferOK(buf')
        /\ ReadableBytes(buf') = ReadableBytes(buf) + len
        /\ \A i \in 0..(ReadableBytes(buf) - 1) :
             buf'.bytes[buf'.readerIndex + i] = buf.bytes[buf.readerIndex + i]
        /\ \A i \in 0..(len - 1) :
             buf'.bytes[buf'.readerIndex + ReadableBytes(buf) + i] = Stream(len)[i]
        /\ buf'.size <= buf.size \/ buf'.size <= kCheapPrepend + 2 * ReadableBytes(buf')
    <3>1. BufferOK(buf) /\ len \in Nat /\ Stream(len) \in Bytes(len)
      BY <1>0, <2>1, <2>2
    <3>2. buf' = Append(buf, len, Stream(len))
      BY <2>1
    <3>3. QED
      BY <3>1, <3>2, AppendAppends
  <2>4. \A i \in 0..(len - 1) :
          buf'.bytes[buf'.readerIndex + ReadableBytes(buf) + i]
            = taken + ReadableBytes(buf) + i + 1
    BY <1>0, <2>1, <2>2, <2>3
  <2>5. Holds(buf, taken) => Holds(buf', taken)
    BY <1>0, <2>1, <2>3, <2>4, HoldsGrows
  <2>6. ~overrun' => Holds(buf', taken)
    BY <2>1, <2>5 DEF IInv, Fifo
  <2>7. QED
    BY <1>0, <2>1, <2>3, <2>6, PutKeeps
<1>2. ASSUME NEW n \in 0..MaxLen, ReadBytes(n), n <= WriteableBytes(buf)
      PROVE  IInv'
  <2>1. /\ n \in Nat
        /\ buf' = Fill(buf, n, Stream(n))
        /\ Put(n)
        /\ overrun' = overrun
    <3>1. n \in Nat /\ WriteableBytes(buf) \in Int
      BY <1>0, BoundAssumption, MembersOf DEF WriteableBytes
    <3>2. QED
      BY <1>0, <1>2, <3>1 DEF ReadBytes, ReadFd
  <2>2. /\ Stream(n) \in Bytes(n)
        /\ \A i \in 0..(n - 1) : Stream(n)[i] = put + i + 1
    BY <1>0, <2>1, StreamTyped
  <2>3. /\ BufferOK(buf')
        /\ buf'.size = buf.size
        /\ ReadableBytes(buf') = ReadableBytes(buf) + n
        /\ \A i \in 0..(ReadableBytes(buf) - 1) :
             buf'.bytes[buf'.readerIndex + i] = buf.bytes[buf.readerIndex + i]
        /\ \A i \in 0..(n - 1) :
             buf'.bytes[buf'.readerIndex + ReadableBytes(buf) + i] = Stream(n)[i]
    <3>1. /\ BufferOK(buf) /\ n \in Nat /\ n <= WriteableBytes(buf)
          /\ Stream(n) \in Bytes(n)
      BY <1>0, <1>2, <2>1, <2>2
    <3>2. buf' = Fill(buf, n, Stream(n))
      BY <2>1
    <3>3. QED
      BY <3>1, <3>2, FillAppends
  <2>4. \A i \in 0..(n - 1) :
          buf'.bytes[buf'.readerIndex + ReadableBytes(buf) + i]
            = taken + ReadableBytes(buf) + i + 1
    BY <1>0, <2>1, <2>2, <2>3
  <2>5. Holds(buf, taken) => Holds(buf', taken)
    BY <1>0, <2>1, <2>3, <2>4, HoldsGrows
  <2>6. ~overrun' => Holds(buf', taken)
    BY <2>1, <2>5 DEF IInv, Fifo
  <2>7. buf'.size <= buf.size
    BY <1>0, <2>3, MembersOf
  <2>8. QED
    BY <1>0, <2>1, <2>3, <2>6, <2>7, PutKeeps
<1>3. ASSUME NEW n \in 0..MaxLen, ReadBytes(n), WriteableBytes(buf) < n
      PROVE  IInv'
  <2>1. /\ n \in Nat
        /\ buf' = ReadFd(buf, n, Stream(n))
        /\ Put(n)
        /\ overrun' = TRUE
    <3>1. n \in Nat /\ WriteableBytes(buf) \in Int
      BY <1>0, BoundAssumption, MembersOf DEF WriteableBytes
    <3>2. n > WriteableBytes(buf)
      BY <1>3, <3>1
    <3>3. QED
      BY <1>3, <3>1, <3>2 DEF ReadBytes
  <2>2. Stream(n) \in Bytes(n)
    BY <1>0, <2>1, StreamTyped
  <2>3. /\ BufferOK(buf')
        /\ ReadableBytes(buf') = ReadableBytes(buf) + n
        /\ buf'.size <= buf.size \/ buf'.size <= kCheapPrepend + 2 * ReadableBytes(buf')
    BY <1>0, <1>3, <2>1, <2>2, ReadFdOverrun
  <2>4. QED
    BY <2>1, <2>3, PutKeeps
<1>4. ASSUME NEW len \in 0..ReadableBytes(buf), Take(len)
      PROVE  IInv'
  <2>1. /\ buf' = Retrieve(buf, len)
        /\ taken' = taken + len
        /\ UNCHANGED <<put, peak, overrun>>
    BY <1>4 DEF Take
  <2>2. /\ BufferOK(buf')
        /\ buf'.size = buf.size
        /\ ReadableBytes(buf') = ReadableBytes(buf) - len
        /\ \A i \in 0..(ReadableBytes(buf') - 1) :
             buf'.bytes[buf'.readerIndex + i] = buf.bytes[buf.readerIndex + len + i]
    BY <1>0, <2>1, RetrieveTakes
  <2>3. TypeOK'
    BY <1>0, <2>1, <2>2 DEF TypeOK
  <2>4. LengthKept' /\ PeakIsReached'
    BY <1>0, <2>1, <2>2 DEF LengthKept, PeakIsReached, IInv
  <2>5. Holds(buf, taken) => Holds(buf', taken')
    <3> SUFFICES ASSUME Holds(buf, taken), NEW i \in 0..(ReadableBytes(buf') - 1)
                 PROVE  buf'.bytes[buf'.readerIndex + i] = taken' + i + 1
      BY DEF Holds
    <3>1. len + i \in 0..(ReadableBytes(buf) - 1)
      BY <1>0, <2>2
    <3>2. buf.bytes[buf.readerIndex + (len + i)] = taken + (len + i) + 1
      BY <3>1 DEF Holds
    <3>3. buf.readerIndex + len + i = buf.readerIndex + (len + i)
      BY <1>0, MembersOf
    <3>4. QED
      BY <1>0, <2>1, <2>2, <3>2, <3>3
  <2>6. Fifo'
    BY <2>1, <2>5 DEF Fifo, IInv
  <2>7. GrowthBounded'
    BY <2>1, <2>2 DEF GrowthBounded, IInv
  <2>8. QED
    BY <2>3, <2>4, <2>6, <2>7 DEF IInv
<1>5. CASE UNCHANGED vars
  BY <1>5 DEF vars, IInv, TypeOK, BufferOK, LengthKept, Fifo, Holds, GrowthBounded,
              PeakIsReached, ReadableBytes
<1>6. \A n \in 0..MaxLen : n <= WriteableBytes(buf) \/ WriteableBytes(buf) < n
  BY <1>0, BoundAssumption, MembersOf DEF WriteableBytes
<1>7. QED
  BY <1>1, <1>2, <1>3, <1>4, <1>5, <1>6 DEF Next

(* The inductive invariant holds in every reachable state.                 *)
LEMMA Invariant == Spec => []IInv
  BY InitInvariant, Inductive, PTL DEF Spec

(* The indices stay in order and inside the vector (the picture at         *)
(* Buffer.h:17-23), whatever is appended, read and retrieved.              *)
THEOREM TypeCorrect == Spec => []TypeOK
<1>1. IInv => TypeOK
  BY DEF IInv
<1>2. QED
  BY <1>1, Invariant, PTL

(* As many bytes are readable as were put in and not taken.                *)
THEOREM LengthIsKept == Spec => []LengthKept
<1>1. IInv => LengthKept
  BY DEF IInv
<1>2. QED
  BY <1>1, Invariant, PTL

(* As long as reads fit, makeSpace, append, readFd and retrieve lose,      *)
(* repeat and reorder nothing (Buffer.h:44-139, Buffer.cc:37-40).          *)
THEOREM BytesAreKept == Spec => []Fifo
<1>1. IInv => Fifo
  BY DEF IInv
<1>2. QED
  BY <1>1, Invariant, PTL

(* The vector grows with what is held, not with what passed through it     *)
(* (the choice makeSpace makes at Buffer.h:126).                           *)
THEOREM GrowthIsBounded == Spec => []GrowthBounded
<1>1. IInv => GrowthBounded
  BY DEF IInv
<1>2. QED
  BY <1>1, Invariant, PTL
=============================================================================

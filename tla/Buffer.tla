------------------------------- MODULE Buffer -------------------------------
(***************************************************************************)
(* net/Buffer.{h,cc}: the bytes a connection has received and its user has *)
(* not taken yet, or those it still has to send.  A vector and two indices *)
(*                                                                         *)
(*   0 <= kCheapPrepend <= readerIndex_ <= writeIndex_ <= size             *)
(*                                                                         *)
(* The operators are the functions of the class, from one value of its     *)
(* members to the next.  The state machine runs them in any order on one   *)
(* stream, whose bytes are 1, 2, 3, ...: byte n is the n-th that was put   *)
(* in.  0 is any byte that is not one of the stream at that place.  The    *)
(* bounds are MaxLen bytes at a time, MaxBytes in all.                     *)
(***************************************************************************)
EXTENDS Integers

CONSTANTS
  kCheapPrepend,
  kInitialSize,
  MaxLen,        \* bound: the longest append or read
  MaxBytes       \* bound: the length of the stream

ASSUME SizeAssumption == kCheapPrepend \in Nat /\ kInitialSize \in Nat
ASSUME BoundAssumption == MaxLen \in Nat /\ MaxBytes \in Nat

----------------------------------------------------------------------------
(* The class: the members buffer_ (its size and bytes), readerIndex_ and   *)
(* writeIndex_.                                                            *)

Members(size, bytes, readerIndex, writeIndex) ==
  [size |-> size, bytes |-> bytes, readerIndex |-> readerIndex, writeIndex |-> writeIndex]

New == Members(kCheapPrepend + kInitialSize,
               [i \in 0..(kCheapPrepend + kInitialSize - 1) |-> 0],
               kCheapPrepend, kCheapPrepend)

ReadableBytes(b) == b.writeIndex - b.readerIndex
WriteableBytes(b) == b.size - b.writeIndex

RetrieveAll(b) == Members(b.size, b.bytes, kCheapPrepend, kCheapPrepend)

Retrieve(b, len) ==
  IF len < ReadableBytes(b)
  THEN Members(b.size, b.bytes, b.readerIndex + len, b.writeIndex)
  ELSE RetrieveAll(b)

(* The bytes after std::copy of len bytes to index at, and after resize.   *)
Copied(b, at, len, data) ==
  [i \in 0..(b.size - 1) |-> IF at <= i /\ i < at + len THEN data[i - at] ELSE b.bytes[i]]
Resized(b, n) == [i \in 0..(n - 1) |-> IF i < b.size THEN b.bytes[i] ELSE 0]

(* makeSpace either lengthens the vector or lets the readable bytes slide  *)
(* down to kCheapPrepend.                                                  *)
Lengthen(b, n) == Members(n, Resized(b, n), b.readerIndex, b.writeIndex)

Unread(b) == [j \in 0..(ReadableBytes(b) - 1) |-> b.bytes[b.readerIndex + j]]

(* Mutant: the indices move and the bytes do not.                          *)
SlideUncopied(b) ==
  Members(b.size, b.bytes, kCheapPrepend, kCheapPrepend + ReadableBytes(b))

Slide(b) == Members(b.size, Copied(b, kCheapPrepend, ReadableBytes(b), Unread(b)),
                    kCheapPrepend, kCheapPrepend + ReadableBytes(b))

(* Mutants: one byte too few; the space in front is never used again.      *)
MakeSpaceShort(b, len) ==
  IF WriteableBytes(b) + b.readerIndex < len + kCheapPrepend
  THEN Lengthen(b, b.writeIndex + len - 1) ELSE Slide(b)
MakeSpaceLengthening(b, len) == Lengthen(b, b.writeIndex + len)

MakeSpace(b, len) ==
  IF WriteableBytes(b) + b.readerIndex < len + kCheapPrepend
  THEN Lengthen(b, b.writeIndex + len) ELSE Slide(b)

EnsureWritableBytes(b, len) == IF WriteableBytes(b) < len THEN MakeSpace(b, len) ELSE b

(* Bytes that fit are written behind writeIndex_.                          *)
Fill(b, len, data) ==
  Members(b.size, Copied(b, b.writeIndex, len, data), b.readerIndex, b.writeIndex + len)

Append(b, len, data) == Fill(EnsureWritableBytes(b, len), len, data)

(* Mutant: what did not fit is forgotten.                                  *)
ReadFdDropping(b, n, data) ==
  IF n <= WriteableBytes(b) THEN Fill(b, n, data) ELSE Fill(b, WriteableBytes(b), data)

(* readv returned n > 0 bytes.  It was told that 64 KB may go behind       *)
(* writeIndex_, and nothing sets the length of extrabuf's part (:29 sets   *)
(* vec[0].iov_len twice).  So what does not fit is written past the end of *)
(* the vector, and bytes of extrabuf that were never received, or that     *)
(* belong further back, are appended in its place.                         *)
ReadFd(b, n, data) ==
  LET writable == WriteableBytes(b) IN
  IF n <= writable THEN Fill(b, n, data)
  ELSE Append(Fill(b, writable, data), n - writable, [i \in 0..(n - writable - 1) |-> 0])

----------------------------------------------------------------------------
VARIABLES
  buf,     \* the Buffer
  put,     \* history: bytes put in and taken out,
  taken,
  peak,    \*   the most bytes it ever held,
  overrun  \*   and whether a read brought more than would fit

vars == <<buf, put, taken, peak, overrun>>

Init == /\ buf = New
        /\ put = 0
        /\ taken = 0
        /\ peak = 0
        /\ overrun = FALSE

Stream(n) == [i \in 0..(n - 1) |-> put + i + 1]

Put(n) == /\ put' = put + n
          /\ peak' = IF ReadableBytes(buf') > peak THEN ReadableBytes(buf') ELSE peak
          /\ UNCHANGED taken

(* sendInLoop keeps what write() did not take.                             *)
AppendBytes(len) == /\ put + len <= MaxBytes
                    /\ buf' = Append(buf, len, Stream(len))
                    /\ Put(len)
                    /\ UNCHANGED overrun

(* The socket is readable.  (A failed read changes nothing.)               *)
ReadBytes(n) == /\ n > 0
                /\ put + n <= MaxBytes
                /\ buf' = ReadFd(buf, n, Stream(n))
                /\ Put(n)
                /\ overrun' = (overrun \/ n > WriteableBytes(buf))

(* retrieveAsString, retrieveAllAsString, and the retrieve that follows a  *)
(* writeFd: len is at most what is readable.                               *)
Take(len) == /\ buf' = Retrieve(buf, len)
             /\ taken' = taken + len
             /\ UNCHANGED <<put, peak, overrun>>

Next == \/ \E len \in 0..MaxLen : AppendBytes(len) \/ ReadBytes(len)
        \/ \E len \in 0..ReadableBytes(buf) : Take(len)

Spec == Init /\ [][Next]_vars

----------------------------------------------------------------------------
Bytes(n) == [0..(n - 1) -> Nat]

(* The vector and its indices keep the order the class comment draws       *)
(* (Buffer.h:17-23): nothing is read or written outside it by index.       *)
BufferOK(b) ==
  /\ b \in [size : Nat, bytes : Bytes(b.size), readerIndex : Nat, writeIndex : Nat]
  /\ kCheapPrepend <= b.readerIndex
  /\ b.readerIndex <= b.writeIndex
  /\ b.writeIndex <= b.size

TypeOK == /\ BufferOK(buf)
          /\ put \in Nat
          /\ taken \in Nat
          /\ peak \in Nat
          /\ overrun \in BOOLEAN

(* As many bytes are readable as were put in and not taken, whatever path  *)
(* they took (append, readFd, makeSpace).                                  *)
LengthKept == ReadableBytes(buf) = put - taken

Holds(b, first) == \A i \in 0..(ReadableBytes(b) - 1) :
                     b.bytes[b.readerIndex + i] = first + i + 1

(* They are those bytes, in order: no sequence of growing, sliding and     *)
(* partial retrieves (Buffer.h:44-139) loses, repeats or reorders any - as *)
(* long as every read fitted into the vector.                              *)
Fifo == ~overrun => Holds(buf, taken)

(* The vector grows with what is held, not with what has passed through:   *)
(* it is never larger than twice the most it held, or than at first, plus  *)
(* the space in front (makeSpace's choice, Buffer.h:126).                  *)
GrowthBounded == \/ buf.size <= kCheapPrepend + kInitialSize
                 \/ buf.size <= kCheapPrepend + 2 * peak

(* What the comment of readFd says (Buffer.cc:27): what the first part     *)
(* cannot take goes into the second, and so every byte read is kept.       *)
ReadKeepsAll == Holds(buf, taken)

(* Fifo needs LengthKept, GrowthBounded that peak was not exceeded.        *)
PeakIsReached == ReadableBytes(buf) <= peak

IInv == TypeOK /\ LengthKept /\ Fifo /\ GrowthBounded /\ PeakIsReached
=============================================================================

------------------------------- MODULE IOBuffer -------------------------------
(***************************************************************************)
(* net/base/io_buffer.{h,cc}: net::IOBuffer, the growable byte buffer each *)
(* connection reads into and writes from.  buffer_, reader_index_ and      *)
(* writer_index_ are modelled as they are, cell by cell.                   *)
(*                                                                         *)
(*     0  <=  reader_index  <=  writer_index  <=  size                     *)
(*        prependable      readable        writable                        *)
(*                                                                         *)
(* The definitions named Faulty... are plausible mistakes in the code;     *)
(* each stands before the definition it would replace.                     *)
(***************************************************************************)
EXTENDS Integers, Sequences

CONSTANTS
  Byte,
  Blank,          (* what a cell nobody wrote holds                         *)
  kCheapPrepend,  (* room kept in front of the content                      *)
  InitialSize,    (* the constructor's argument                             *)
  ShrinkSize,     (* kInitialSize, the size Shrink starts from              *)
  ExtraSize,      (* sizeof extrabuf in ReadFd                              *)
  MaxLen,         (* bound on the bytes of one call                         *)
  MaxReadable,    (* bound on the bytes kept unread                         *)
  MaxReserve      (* bound on Shrink's argument                             *)

ASSUME IOBufferAssumption ==
  /\ Blank \notin Byte
  /\ kCheapPrepend \in Nat /\ InitialSize \in Nat /\ ShrinkSize \in Nat
  /\ ExtraSize \in Nat
  /\ MaxLen \in Nat /\ MaxReadable \in Nat /\ MaxReserve \in Nat

VARIABLES
  size,           (* buffer_.size()                                         *)
  cell,           (* the bytes of buffer_, numbered from 0                  *)
  reader_index,
  writer_index,
  call            (* history: the last operation and its argument           *)

vars == <<size, cell, reader_index, writer_index, call>>

Called(op, arg) == call' = <<op, arg>>

ReadableBytes    == writer_index - reader_index
WritableBytes    == size - writer_index
PrependableBytes == reader_index

Cells(n) == [0 .. n - 1 -> Byte \cup {Blank}]

(* IOBuffer(initial_size).                                                 *)
Init ==
  /\ size = kCheapPrepend + InitialSize
  /\ cell = [i \in 0 .. kCheapPrepend + InitialSize - 1 |-> Blank]
  /\ reader_index = kCheapPrepend
  /\ writer_index = kCheapPrepend
  /\ call = <<"none", 0>>

-----------------------------------------------------------------------------
(* A state of the buffer as a record, so that MakeSpace and Write can be   *)
(* applied one after the other within one call.                            *)

Buf == [n |-> size, c |-> cell, r |-> reader_index, w |-> writer_index]

Becomes(b) ==
  /\ size' = b.n
  /\ cell' = b.c
  /\ reader_index' = b.r
  /\ writer_index' = b.w

(* MakeSpace: grow at the end, or move the readable bytes to the front.    *)
Resized(b, n) ==
  [n |-> n, r |-> b.r, w |-> b.w,
   c |-> [i \in 0 .. n - 1 |-> IF i < b.n THEN b.c[i] ELSE Blank]]

FaultyMovedOneLess(b) ==
  [n |-> b.n, r |-> kCheapPrepend, w |-> kCheapPrepend + (b.w - b.r),
   c |-> [i \in 0 .. b.n - 1 |->
            IF kCheapPrepend <= i /\ i < kCheapPrepend + (b.w - b.r) - 1
            THEN b.c[i - kCheapPrepend + b.r] ELSE b.c[i]]]

Moved(b) ==
  [n |-> b.n, r |-> kCheapPrepend, w |-> kCheapPrepend + (b.w - b.r),
   c |-> [i \in 0 .. b.n - 1 |->
            IF kCheapPrepend <= i /\ i < kCheapPrepend + (b.w - b.r)
            THEN b.c[i - kCheapPrepend + b.r] ELSE b.c[i]]]

FaultyMakeSpaceAlwaysGrows(b, len) == Resized(b, b.w + len)

MakeSpace(b, len) ==
  IF (b.n - b.w) + b.r < len + kCheapPrepend
  THEN Resized(b, b.w + len)
  ELSE Moved(b)

EnsureWritableBytes(b, len) == IF b.n - b.w < len THEN MakeSpace(b, len) ELSE b

(* Copy data to BeginWrite() and HasWritten.                               *)
Put(b, data) ==
  [n |-> b.n, r |-> b.r, w |-> b.w + Len(data),
   c |-> [i \in 0 .. b.n - 1 |->
            IF b.w <= i /\ i < b.w + Len(data)
            THEN data[i - b.w + 1] ELSE b.c[i]]]

Written(b, data) == Put(EnsureWritableBytes(b, Len(data)), data)

-----------------------------------------------------------------------------
Write(data) ==
  /\ ReadableBytes + Len(data) <= MaxReadable
  /\ Becomes(Written(Buf, data))
  /\ Called("Write", data)

(* ReadFd: readv fills the writable bytes first and the rest goes to       *)
(* extrabuf, from where it is written.  A result that is not positive      *)
(* changes nothing.                                                        *)
ReadFd(data) ==
  LET head == SubSeq(data, 1, WritableBytes)
      tail == SubSeq(data, WritableBytes + 1, Len(data))
  IN /\ ReadableBytes + Len(data) <= MaxReadable
     /\ Len(data) <= WritableBytes + (IF WritableBytes < ExtraSize THEN ExtraSize ELSE 0)
     /\ IF Len(data) <= WritableBytes
        THEN Becomes(Put(Buf, data))
        ELSE Becomes(Written(Put(Buf, head), tail))
     /\ Called("ReadFd", data)

(* Retrieve, and RetrieveAll when everything is taken; it requires that    *)
(* len bytes are readable.                                                 *)
RetrieveAll == reader_index' = kCheapPrepend /\ writer_index' = kCheapPrepend

Retrieved(n) ==
  /\ n <= ReadableBytes
  /\ IF n < ReadableBytes
     THEN reader_index' = reader_index + n /\ UNCHANGED writer_index
     ELSE RetrieveAll
  /\ UNCHANGED <<size, cell>>

Retrieve(n) == Retrieved(n) /\ Called("Retrieve", n)

(* ReadLittleEndianInt16: reads through ReadLittleEndianUint16, which      *)
(* already retrieves its two bytes, and retrieves two more, whatever the   *)
(* name says: the two calls need, and take, four readable bytes.           *)
ReadLittleEndianInt16 == Retrieved(4) /\ Called("ReadLittleEndianInt16", 0)

Unwrite(n) ==
  /\ n <= ReadableBytes
  /\ writer_index' = writer_index - n
  /\ UNCHANGED <<size, cell, reader_index>>
  /\ Called("Unwrite", n)

(* Prepend requires len <= PrependableBytes().                             *)
Prepend(data) ==
  /\ Len(data) <= PrependableBytes
  /\ ReadableBytes + Len(data) <= MaxReadable
  /\ reader_index' = reader_index - Len(data)
  /\ cell' = [i \in 0 .. size - 1 |->
                IF reader_index - Len(data) <= i /\ i < reader_index
                THEN data[i - (reader_index - Len(data)) + 1] ELSE cell[i]]
  /\ UNCHANGED <<size, writer_index>>
  /\ Called("Prepend", data)

(* Shrink: a new IOBuffer of kInitialSize gets the content and is swapped  *)
(* in.                                                                     *)
Content ==
  [i \in 1 .. ReadableBytes |-> cell[reader_index + i - 1]]

Fresh ==
  [n |-> kCheapPrepend + ShrinkSize,
   c |-> [i \in 0 .. kCheapPrepend + ShrinkSize - 1 |-> Blank],
   r |-> kCheapPrepend, w |-> kCheapPrepend]

Shrink(reserve) ==
  /\ Becomes(Written(EnsureWritableBytes(Fresh, ReadableBytes + reserve), Content))
  /\ Called("Shrink", reserve)

Inputs == UNION {[1 .. n -> Byte] : n \in 0 .. MaxLen}

Next ==
  \/ \E data \in Inputs : Write(data) \/ ReadFd(data) \/ Prepend(data)
  \/ \E n \in 0 .. MaxReadable : Retrieve(n) \/ Unwrite(n)
  \/ \E reserve \in 0 .. MaxReserve : Shrink(reserve)
  \/ ReadLittleEndianInt16

Spec == Init /\ [][Next]_vars

-----------------------------------------------------------------------------
(* Every variable of the buffer stays in its range; the indices are those  *)
(* of the diagram in io_buffer.h: 0 <= readerIndex <= writerIndex <= size. *)
TypeOK ==
  /\ size \in Nat
  /\ cell \in Cells(size)
  /\ reader_index \in 0 .. writer_index
  /\ writer_index \in 0 .. size

(* No byte that was never written is ever readable.                        *)
OnlyWrittenReadable ==
  \A i \in reader_index .. writer_index - 1 : cell[i] \in Byte

(* Moving instead of growing keeps the memory of a connection bounded: the *)
(* vector never gets larger than a bound that depends only on the largest  *)
(* number of unread bytes and the largest single call, however long the    *)
(* connection lives.                                                       *)
Larger(a, b) == IF a < b THEN b ELSE a

LargestCall == Larger(MaxLen, MaxReserve)

CapacityBounded ==
  size <= Larger(kCheapPrepend + Larger(InitialSize, ShrinkSize),
                 kCheapPrepend + MaxReadable + LargestCall)

(* To its users the buffer is a double-ended byte sequence: whatever moves *)
(* and resizes happen inside, each call does to the readable bytes what    *)
(* ByteDeque says that operation does with that argument.  What it says of *)
(* ReadLittleEndianInt16 is what the code does, against its name.          *)
Deque == INSTANCE ByteDeque
           WITH Strings <- Inputs, Reserves <- 0 .. MaxReserve, content <- Content

ImplementsDeque == Deque!Spec
=============================================================================

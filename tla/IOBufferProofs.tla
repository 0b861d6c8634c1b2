---------------------------- MODULE IOBufferProofs ----------------------------
(***************************************************************************)
(* Proofs about net::IOBuffer, for every prepend room, every initial size  *)
(* and every bound on the sizes of calls.  The lemmas say what the parts   *)
(* of a Write do to a buffer; the theorems follow operation by operation.  *)
(***************************************************************************)
EXTENDS IOBuffer, SequenceTheorems, TLAPS

(* A buffer whose indices are in order and whose readable cells are bytes. *)
WellFormed(b) ==
  /\ b.n \in Nat /\ b.r \in Nat /\ b.w \in Nat
  /\ b.r <= b.w
  /\ b.w <= b.n
  /\ b.c \in Cells(b.n)
  /\ \A i \in b.r .. b.w - 1 : b.c[i] \in Byte

(* The readable bytes of a buffer.                                         *)
View(b) == [i \in 1 .. b.w - b.r |-> b.c[b.r + i - 1]]

(* The readable bytes are a byte sequence as long as the indices say.      *)
LEMMA ViewIsSeq ==
  ASSUME NEW b, WellFormed(b)
  PROVE  /\ View(b) \in Seq(Byte)
         /\ Len(View(b)) = b.w - b.r
         /\ \A i \in 1 .. b.w - b.r : View(b)[i] = b.c[b.r + i - 1]
<1>1. b.w - b.r \in Nat
  BY DEF WellFormed
<1>2. \A i \in 1 .. b.w - b.r : b.c[b.r + i - 1] \in Byte
  BY DEF WellFormed
<1>3. View(b) \in [1 .. b.w - b.r -> Byte]
  BY <1>2 DEF View
<1>4. View(b) \in Seq(Byte)
  BY <1>1, <1>3, SeqDef
<1>5. Len(View(b)) = b.w - b.r
  BY <1>1, <1>3, <1>4, LenProperties
<1> QED BY <1>4, <1>5 DEF View

(* A buffer whose content is, cell by cell, the sequence s.                *)
LEMMA ViewEquals ==
  ASSUME NEW b, WellFormed(b), NEW s \in Seq(Byte), Len(s) = b.w - b.r,
         \A i \in 1 .. b.w - b.r : b.c[b.r + i - 1] = s[i]
  PROVE  View(b) = s
BY ViewIsSeq, SeqEqual

(* The fields of a buffer after the vector is resized.                     *)
LEMMA ResizedFields ==
  ASSUME NEW b, NEW k
  PROVE  /\ Resized(b, k).n = k
         /\ Resized(b, k).r = b.r
         /\ Resized(b, k).w = b.w
         /\ Resized(b, k).c =
              [i \in 0 .. k - 1 |-> IF i < b.n THEN b.c[i] ELSE Blank]
BY DEF Resized

(* The fields of a buffer after MakeSpace's move to the front.             *)
LEMMA MovedFields ==
  ASSUME NEW b
  PROVE  /\ Moved(b).n = b.n
         /\ Moved(b).r = kCheapPrepend
         /\ Moved(b).w = kCheapPrepend + (b.w - b.r)
         /\ Moved(b).c = [i \in 0 .. b.n - 1 |->
              IF kCheapPrepend <= i /\ i < kCheapPrepend + (b.w - b.r)
              THEN b.c[i - kCheapPrepend + b.r] ELSE b.c[i]]
BY DEF Moved

(* The fields of a buffer after bytes were copied behind the content.      *)
LEMMA PutFields ==
  ASSUME NEW b, NEW data
  PROVE  /\ Put(b, data).n = b.n
         /\ Put(b, data).r = b.r
         /\ Put(b, data).w = b.w + Len(data)
         /\ Put(b, data).c = [i \in 0 .. b.n - 1 |->
              IF b.w <= i /\ i < b.w + Len(data) THEN data[i - b.w + 1] ELSE b.c[i]]
BY DEF Put

(* What making room must do: keep the content, and leave len free cells.   *)
RoomFor(b, m, len) ==
  /\ WellFormed(m)
  /\ m.n - m.w >= len
  /\ m.w - m.r = b.w - b.r
  /\ View(m) = View(b)

(* Growing to k cells, len of them behind the content, makes room.         *)
LEMMA ResizedLemma ==
  ASSUME NEW b, WellFormed(b), NEW len \in Nat,
         NEW k \in Nat, b.n <= k, len <= k - b.w
  PROVE  RoomFor(b, Resized(b, k), len)
<1> DEFINE m == Resized(b, k)
<1>1. /\ m.n = k /\ m.r = b.r /\ m.w = b.w
      /\ m.c = [i \in 0 .. k - 1 |-> IF i < b.n THEN b.c[i] ELSE Blank]
  BY ResizedFields
<1> HIDE DEF m
<1>2. /\ b.n \in Nat /\ b.w \in Nat /\ b.r \in Nat /\ b.r <= b.w /\ b.w <= b.n
      /\ k - b.w >= len
  BY DEF WellFormed
<1>3. \A i \in 0 .. k - 1 : i < b.n => b.c[i] \in Byte \cup {Blank}
  <2>1. b.c \in [0 .. b.n - 1 -> Byte \cup {Blank}]
    BY DEF WellFormed, Cells
  <2> QED BY <1>2, <2>1
<1>4. m.c \in Cells(m.n)
  BY <1>1, <1>2, <1>3 DEF Cells
<1>5. \A i \in b.r .. b.w - 1 : m.c[i] = b.c[i]
  BY <1>1, <1>2 DEF WellFormed
<1>6. WellFormed(m)
  BY <1>1, <1>2, <1>4, <1>5 DEF WellFormed
<1>7. ASSUME NEW i \in 1 .. b.w - b.r
      PROVE  m.c[m.r + i - 1] = View(b)[i]
  <2>1. b.r + i - 1 \in b.r .. b.w - 1 /\ m.r + i - 1 = b.r + i - 1
    BY <1>1, <1>2
  <2>2. m.c[b.r + i - 1] = b.c[b.r + i - 1]
    BY <2>1, <1>5
  <2> QED BY <2>1, <2>2, ViewIsSeq
<1>8. View(m) = View(b)
  BY <1>1, <1>6, <1>7, ViewEquals, ViewIsSeq
<1>9. m.n - m.w >= len /\ m.w - m.r = b.w - b.r
  BY <1>1, <1>2
<1>10. RoomFor(b, m, len)
  BY <1>6, <1>8, <1>9 DEF RoomFor
<1> QED BY <1>10 DEF m

(* Moving to the front makes room when the room in front and behind is     *)
(* enough together; the content then moves towards the front, which is the *)
(* DCHECK of MakeSpace.                                                    *)
LEMMA MovedLemma ==
  ASSUME NEW b, WellFormed(b), NEW len \in Nat, b.n - b.w < len,
         (b.n - b.w) + b.r >= len + kCheapPrepend
  PROVE  RoomFor(b, Moved(b), len)
<1> DEFINE m == Moved(b)
<1>1. /\ m.n = b.n /\ m.r = kCheapPrepend /\ m.w = kCheapPrepend + (b.w - b.r)
      /\ m.c = [i \in 0 .. b.n - 1 |->
                  IF kCheapPrepend <= i /\ i < kCheapPrepend + (b.w - b.r)
                  THEN b.c[i - kCheapPrepend + b.r] ELSE b.c[i]]
  BY MovedFields
<1> HIDE DEF m
<1>2. /\ b.n \in Nat /\ b.w \in Nat /\ b.r \in Nat /\ b.w <= b.n /\ b.r <= b.w
      /\ kCheapPrepend \in Nat /\ kCheapPrepend < b.r
      /\ kCheapPrepend + (b.w - b.r) + len <= b.n
  BY IOBufferAssumption DEF WellFormed
<1>3. \A i \in 0 .. b.n - 1 :
        /\ b.c[i] \in Byte \cup {Blank}
        /\ kCheapPrepend <= i /\ i < kCheapPrepend + (b.w - b.r)
             => b.c[i - kCheapPrepend + b.r] \in Byte
  <2>1. b.c \in [0 .. b.n - 1 -> Byte \cup {Blank}]
    BY DEF WellFormed, Cells
  <2>2. \A j \in b.r .. b.w - 1 : b.c[j] \in Byte
    BY DEF WellFormed
  <2>3. ASSUME NEW i \in 0 .. b.n - 1, kCheapPrepend <= i,
               i < kCheapPrepend + (b.w - b.r)
        PROVE  b.c[i - kCheapPrepend + b.r] \in Byte
    <3>1. i - kCheapPrepend + b.r \in b.r .. b.w - 1
      BY <1>2, <2>3
    <3> QED BY <3>1, <2>2
  <2> QED BY <2>1, <2>3
<1>4. m.c \in Cells(m.n)
  BY <1>1, <1>2, <1>3 DEF Cells
<1>5. \A i \in kCheapPrepend .. kCheapPrepend + (b.w - b.r) - 1 :
        m.c[i] = b.c[i - kCheapPrepend + b.r] /\ m.c[i] \in Byte
  BY <1>1, <1>2, <1>3
<1>6. WellFormed(m)
  <2>1. \A i \in m.r .. m.w - 1 : m.c[i] \in Byte
    <3>1. m.r .. m.w - 1 = kCheapPrepend .. kCheapPrepend + (b.w - b.r) - 1
      BY <1>1, <1>2
    <3> QED BY <3>1, <1>5, Zenon
  <2>2. m.n \in Nat /\ m.r \in Nat /\ m.w \in Nat /\ m.r <= m.w /\ m.w <= m.n
    BY <1>1, <1>2
  <2> QED BY <1>4, <2>1, <2>2 DEF WellFormed
<1>7. ASSUME NEW i \in 1 .. b.w - b.r
      PROVE  m.c[m.r + i - 1] = View(b)[i]
  <2>1. m.r + i - 1 \in kCheapPrepend .. kCheapPrepend + (b.w - b.r) - 1
    BY <1>1, <1>2
  <2>2. m.c[m.r + i - 1] = b.c[(m.r + i - 1) - kCheapPrepend + b.r]
    BY <2>1, <1>5
  <2>3. (m.r + i - 1) - kCheapPrepend + b.r = b.r + i - 1
    BY <1>1, <1>2
  <2> QED BY <2>2, <2>3, ViewIsSeq
<1>8. View(m) = View(b)
  <2>1. m.w - m.r = b.w - b.r
    BY <1>1, <1>2
  <2> QED BY <2>1, <1>6, <1>7, ViewEquals, ViewIsSeq
<1>9. m.n - m.w >= len /\ m.w - m.r = b.w - b.r
  BY <1>1, <1>2
<1> QED BY <1>6, <1>8, <1>9 DEF RoomFor, m

(* EnsureWritableBytes keeps the content and makes the room asked for (its *)
(* DCHECK); the vector grows to less than twice the call plus the content  *)
(* and the prepend room, or not at all.                                    *)
LEMMA EnsureLemma ==
  ASSUME NEW b, WellFormed(b), NEW len \in Nat
  PROVE  /\ RoomFor(b, EnsureWritableBytes(b, len), len)
         /\ b.n <= EnsureWritableBytes(b, len).n
         /\ EnsureWritableBytes(b, len).n
              <= Larger(b.n, 2 * len + kCheapPrepend + (b.w - b.r))
<1>0. b.n \in Nat /\ b.w \in Nat /\ b.r \in Nat /\ b.w <= b.n /\ b.r <= b.w /\ kCheapPrepend \in Nat
  BY IOBufferAssumption DEF WellFormed
<1>1. CASE b.n - b.w >= len
  <2>1. EnsureWritableBytes(b, len) = b
    BY <1>0, <1>1 DEF EnsureWritableBytes
  <2> QED BY <1>0, <1>1, <2>1 DEF RoomFor, Larger
<1>2. CASE b.n - b.w < len /\ (b.n - b.w) + b.r < len + kCheapPrepend
  <2> DEFINE k == b.w + len
  <2>1. EnsureWritableBytes(b, len) = Resized(b, k)
    BY <1>0, <1>2 DEF EnsureWritableBytes, MakeSpace
  <2>2. k <= Larger(b.n, 2 * len + kCheapPrepend + (b.w - b.r)) /\ k \in Nat
                      /\ b.n <= k /\ len <= k - b.w
    BY <1>0, <1>2 DEF Larger
  <2> HIDE DEF k
  <2>3. Resized(b, k).n = k
    BY ResizedFields
  <2>4. RoomFor(b, Resized(b, k), len)
    BY <1>2, <2>2, ResizedLemma
  <2> QED BY <2>1, <2>2, <2>3, <2>4
<1>3. CASE b.n - b.w < len /\ ~ ((b.n - b.w) + b.r < len + kCheapPrepend)
  <2>1. EnsureWritableBytes(b, len) = Moved(b)
    BY <1>0, <1>3 DEF EnsureWritableBytes, MakeSpace
  <2>2. b.n <= Larger(b.n, 2 * len + kCheapPrepend + (b.w - b.r))
    BY <1>0 DEF Larger
  <2>3. (b.n - b.w) + b.r >= len + kCheapPrepend
    BY <1>0, <1>3
  <2>4. RoomFor(b, Moved(b), len) /\ Moved(b).n = b.n
    BY <1>3, <2>3, MovedFields, MovedLemma
  <2> QED BY <1>0, <2>1, <2>2, <2>4
<1> QED BY <1>0, <1>1, <1>2, <1>3

(* Putting data where there is room appends it to the content.             *)
LEMMA PutLemma ==
  ASSUME NEW b, WellFormed(b), NEW data \in Seq(Byte), b.n - b.w >= Len(data)
  PROVE  /\ WellFormed(Put(b, data))
         /\ Put(b, data).n = b.n
         /\ Put(b, data).w - Put(b, data).r = (b.w - b.r) + Len(data)
         /\ View(Put(b, data)) = View(b) \o data
<1> DEFINE p == Put(b, data)
<1>1. /\ p.n = b.n /\ p.r = b.r /\ p.w = b.w + Len(data)
      /\ p.c = [i \in 0 .. b.n - 1 |-> IF b.w <= i /\ i < b.w + Len(data)
                                       THEN data[i - b.w + 1] ELSE b.c[i]]
  BY PutFields
<1> HIDE DEF p
<1>2. Len(data) \in Nat /\ \A i \in 1 .. Len(data) : data[i] \in Byte
  BY LenProperties, ElementOfSeq
<1>3. /\ b.n \in Nat /\ b.w \in Nat /\ b.r \in Nat /\ b.r <= b.w
      /\ b.w + Len(data) <= b.n
  BY <1>2 DEF WellFormed
<1>4. \A i \in 0 .. b.n - 1 :
        /\ b.c[i] \in Byte \cup {Blank}
        /\ b.w <= i /\ i < b.w + Len(data) => data[i - b.w + 1] \in Byte
  BY <1>2, <1>3 DEF WellFormed, Cells
<1>5. p.c \in Cells(p.n)
  BY <1>1, <1>3, <1>4 DEF Cells
<1>6. /\ \A i \in b.r .. b.w - 1 : p.c[i] = b.c[i] /\ b.c[i] \in Byte
      /\ \A i \in b.w .. b.w + Len(data) - 1 :
           p.c[i] = data[i - b.w + 1] /\ data[i - b.w + 1] \in Byte
  BY <1>1, <1>2, <1>3, <1>4 DEF WellFormed
<1>7. ASSUME NEW i \in p.r .. p.w - 1
      PROVE  p.c[i] \in Byte
  <2>1. i \in b.r .. b.w - 1 \/ i \in b.w .. b.w + Len(data) - 1
    BY <1>1, <1>2, <1>3
  <2> QED BY <2>1, <1>6
<1>8. WellFormed(p)
  BY <1>1, <1>2, <1>3, <1>5, <1>7 DEF WellFormed
<1>9. /\ View(b) \o data \in Seq(Byte)
      /\ Len(View(b) \o data) = (b.w - b.r) + Len(data)
      /\ \A i \in 1 .. (b.w - b.r) + Len(data) :
           (View(b) \o data)[i] = IF i <= b.w - b.r THEN View(b)[i]
                                  ELSE data[i - (b.w - b.r)]
  <2>1. View(b) \in Seq(Byte) /\ Len(View(b)) = b.w - b.r
    BY ViewIsSeq
  <2>2. /\ View(b) \o data \in Seq(Byte)
        /\ Len(View(b) \o data) = Len(View(b)) + Len(data)
        /\ \A i \in 1 .. Len(View(b)) + Len(data) :
             (View(b) \o data)[i] = IF i <= Len(View(b)) THEN View(b)[i]
                                    ELSE data[i - Len(View(b))]
    BY <2>1, ConcatProperties
  <2> QED BY <2>1, <2>2
<1>10. ASSUME NEW i \in 1 .. (b.w - b.r) + Len(data)
       PROVE  p.c[p.r + i - 1] = (View(b) \o data)[i]
  <2>1. CASE i <= b.w - b.r
    <3>1. b.r + i - 1 \in b.r .. b.w - 1 /\ i \in 1 .. b.w - b.r
      BY <1>2, <1>3, <2>1
    <3>2. p.c[b.r + i - 1] = View(b)[i]
      BY <3>1, <1>6, ViewIsSeq
    <3> QED BY <3>2, <2>1, <1>1, <1>9
  <2>2. CASE ~ (i <= b.w - b.r)
    <3>1. b.r + i - 1 \in b.w .. b.w + Len(data) - 1
      BY <1>2, <1>3, <2>2
    <3>2. (b.r + i - 1) - b.w + 1 = i - (b.w - b.r)
      BY <1>3
    <3>3. p.c[b.r + i - 1] = data[i - (b.w - b.r)]
      BY <3>1, <3>2, <1>6
    <3> QED BY <3>3, <2>2, <1>1, <1>9
  <2> QED BY <2>1, <2>2
<1>11. p.w - p.r = (b.w - b.r) + Len(data)
  BY <1>1, <1>2, <1>3
<1>12. View(p) = View(b) \o data
  BY <1>8, <1>9, <1>10, <1>11, ViewEquals
<1> QED BY <1>1, <1>8, <1>11, <1>12 DEF p

(* Write(data) appends data to the content, and the vector stays below the *)
(* bound of EnsureLemma.                                                   *)
LEMMA WrittenLemma ==
  ASSUME NEW b, WellFormed(b), NEW data \in Seq(Byte)
  PROVE  /\ WellFormed(Written(b, data))
         /\ Written(b, data).w - Written(b, data).r = (b.w - b.r) + Len(data)
         /\ View(Written(b, data)) = View(b) \o data
         /\ b.n <= Written(b, data).n
         /\ Written(b, data).n
              <= Larger(b.n, 2 * Len(data) + kCheapPrepend + (b.w - b.r))
         /\ b.n - b.w >= Len(data) => Written(b, data).n = b.n
<1>1. Len(data) \in Nat
  BY LenProperties
<1> DEFINE m == EnsureWritableBytes(b, Len(data))
<1>2. /\ RoomFor(b, m, Len(data))
      /\ b.n <= m.n
      /\ m.n <= Larger(b.n, 2 * Len(data) + kCheapPrepend + (b.w - b.r))
  BY <1>1, EnsureLemma
<1>3. Written(b, data) = Put(m, data)
  BY DEF Written
<1> HIDE DEF m
<1>4. WellFormed(m) /\ m.n - m.w >= Len(data) /\ m.w - m.r = b.w - b.r /\ View(m) = View(b)
  BY <1>2 DEF RoomFor
<1>5. /\ WellFormed(Put(m, data)) /\ Put(m, data).n = m.n
      /\ Put(m, data).w - Put(m, data).r = (m.w - m.r) + Len(data)
      /\ View(Put(m, data)) = View(m) \o data
  BY <1>4, PutLemma
<1>6. ASSUME b.n - b.w >= Len(data) PROVE m = b
  BY <1>1, <1>6 DEF m, EnsureWritableBytes, WellFormed
<1> QED BY <1>2, <1>3, <1>4, <1>5, <1>6

-----------------------------------------------------------------------------
(* The inductive invariant: the buffer is well formed, has at least the    *)
(* prepend room the indices are reset to, the bound on unread bytes holds, *)
(* and with it the bound on the vector.                                    *)
IInv ==
  /\ WellFormed(Buf)
  /\ kCheapPrepend <= size
  /\ ReadableBytes <= MaxReadable
  /\ CapacityBounded

Bound == Larger(kCheapPrepend + Larger(InitialSize, ShrinkSize),
                kCheapPrepend + MaxReadable + LargestCall)

(* The bound of the vector is a natural number.                            *)
LEMMA BoundNat ==
  /\ Bound \in Nat
  /\ kCheapPrepend + InitialSize <= Bound
  /\ kCheapPrepend + ShrinkSize <= Bound
  /\ LargestCall \in Nat
  /\ MaxLen <= LargestCall
  /\ MaxReserve <= LargestCall
  /\ kCheapPrepend + MaxReadable + LargestCall <= Bound
  /\ CapacityBounded <=> size <= Bound
BY IOBufferAssumption DEF Bound, LargestCall, Larger, CapacityBounded

(* The fields of the record that stands for the state.                     *)
LEMMA BufFields ==
  Buf.n = size /\ Buf.c = cell /\ Buf.r = reader_index /\ Buf.w = writer_index
BY DEF Buf

(* The content of the state is the view of its buffer.                     *)
LEMMA ContentIsView == Content = View(Buf)
BY BufFields DEF Content, View, ReadableBytes

(* A step that makes the buffer b leaves b's fields in the variables.      *)
LEMMA BecomesLemma ==
  ASSUME NEW b, Becomes(b), WellFormed(b)
  PROVE  /\ WellFormed(Buf)'
         /\ size' = b.n
         /\ ReadableBytes' = b.w - b.r
         /\ Content' = View(b)
<1>1. size' = b.n /\ cell' = b.c /\ reader_index' = b.r /\ writer_index' = b.w
  BY DEF Becomes
<1>2. /\ (Buf.n)' = b.n /\ (Buf.c)' = b.c /\ (Buf.r)' = b.r /\ (Buf.w)' = b.w
  BY <1>1 DEF Buf
<1>3. WellFormed(Buf)'
  BY <1>2 DEF WellFormed
<1>4. ReadableBytes' = b.w - b.r
  BY <1>1 DEF ReadableBytes
<1>5. Content' = View(b)
  BY <1>1, <1>4 DEF Content, View
<1> QED BY <1>1, <1>3, <1>4, <1>5

(* The bytes of a call are a sequence no longer than MaxLen.               *)
LEMMA InputsAreSeqs ==
  ASSUME NEW data \in Inputs
  PROVE  data \in Seq(Byte) /\ Len(data) \in 0 .. MaxLen
<1>1. PICK n \in 0 .. MaxLen : data \in [1 .. n -> Byte]
  BY DEF Inputs
<1>2. n \in Nat
  BY <1>1, IOBufferAssumption
<1>3. data \in Seq(Byte)
  BY <1>1, <1>2, SeqDef
<1>4. Len(data) = n
  BY <1>1, <1>2, <1>3, LenProperties
<1> QED BY <1>1, <1>3, <1>4

(* The parts of the inductive invariant the steps use.                     *)
LEMMA IInvFacts ==
  ASSUME IInv
  PROVE  /\ size \in Nat /\ reader_index \in Nat /\ writer_index \in Nat
         /\ reader_index <= writer_index /\ writer_index <= size
         /\ cell \in [0 .. size - 1 -> Byte \cup {Blank}]
         /\ \A i \in reader_index .. writer_index - 1 : cell[i] \in Byte
         /\ ReadableBytes = writer_index - reader_index
         /\ ReadableBytes \in Nat /\ ReadableBytes <= MaxReadable
         /\ size <= Bound
         /\ kCheapPrepend \in Nat /\ kCheapPrepend <= size
<1>1. /\ size \in Nat /\ reader_index \in Nat /\ writer_index \in Nat
      /\ reader_index <= writer_index /\ writer_index <= size
      /\ cell \in Cells(size)
      /\ \A i \in reader_index .. writer_index - 1 : cell[i] \in Byte
  BY BufFields DEF IInv, WellFormed
<1>2. ReadableBytes = writer_index - reader_index /\ ReadableBytes \in Nat
  BY <1>1 DEF ReadableBytes
<1> QED BY <1>1, <1>2, BoundNat, IOBufferAssumption DEF IInv, Cells

(* The constructor establishes the inductive invariant.                    *)
LEMMA InitIInv == Init => IInv
<1> SUFFICES ASSUME Init PROVE IInv
  OBVIOUS
<1>1. /\ size \in Nat /\ reader_index \in Nat /\ reader_index = writer_index
      /\ writer_index <= size
  BY IOBufferAssumption DEF Init
<1>2. cell \in Cells(size)
  <2>1. cell \in [0 .. kCheapPrepend + InitialSize - 1 -> Byte \cup {Blank}]
    BY DEF Init
  <2>2. size = kCheapPrepend + InitialSize
    BY DEF Init
  <2>3. 0 .. kCheapPrepend + InitialSize - 1 = 0 .. size - 1
    BY <2>2, IOBufferAssumption
  <2> QED BY <2>1, <2>3, Zenon DEF Cells
<1>3. \A i \in reader_index .. writer_index - 1 : cell[i] \in Byte
  BY <1>1
<1>4. WellFormed(Buf)
  BY <1>1, <1>2, <1>3, BufFields DEF WellFormed
<1>5. ReadableBytes <= MaxReadable
  BY <1>1, IOBufferAssumption DEF ReadableBytes
<1>6. CapacityBounded
  BY BoundNat DEF Init
<1>8. kCheapPrepend <= size
  BY IOBufferAssumption DEF Init
<1> QED BY <1>4, <1>5, <1>6, <1>8 DEF IInv

(* Write(data) in a state: the invariant is kept and data is appended.     *)
LEMMA WriteStep ==
  ASSUME IInv, NEW data \in Inputs, Write(data)
  PROVE  IInv' /\ Content' = Content \o data
<1>1. data \in Seq(Byte) /\ Len(data) \in 0 .. MaxLen
  BY InputsAreSeqs
<1> DEFINE p == Written(Buf, data)
<1>2. /\ WellFormed(p) /\ p.w - p.r = (Buf.w - Buf.r) + Len(data)
      /\ View(p) = View(Buf) \o data
      /\ Buf.n <= p.n
      /\ p.n <= Larger(Buf.n, 2 * Len(data) + kCheapPrepend + (Buf.w - Buf.r))
  BY <1>1, WrittenLemma DEF IInv
<1>3. Becomes(p) /\ ReadableBytes + Len(data) <= MaxReadable
  BY DEF Write
<1> HIDE DEF p
<1>4. /\ WellFormed(Buf)' /\ size' = p.n /\ ReadableBytes' = p.w - p.r
      /\ Content' = View(p)
  BY <1>2, <1>3, BecomesLemma
<1>5. /\ p.w - p.r = ReadableBytes + Len(data)
      /\ p.n <= Larger(size, 2 * Len(data) + kCheapPrepend + ReadableBytes)
      /\ p.n \in Nat /\ size <= p.n
  <2>1. Buf.w - Buf.r = ReadableBytes /\ Buf.n = size
    BY BufFields DEF ReadableBytes
  <2>2. p.n \in Nat
    BY <1>2 DEF WellFormed
  <2> QED BY <1>2, <2>1, <2>2
<1>6. size \in Nat /\ ReadableBytes \in Nat /\ size <= Bound /\ ReadableBytes <= MaxReadable
  BY IInvFacts
<1>7. size' <= Bound
  BY <1>1, <1>3, <1>4, <1>5, <1>6, BoundNat, IOBufferAssumption DEF Larger
<1>8. CapacityBounded'
  BY <1>7 DEF CapacityBounded, Bound, LargestCall
<1>9. ReadableBytes' <= MaxReadable
  BY <1>3, <1>4, <1>5
<1>10. Content' = Content \o data
  BY <1>2, <1>4, ContentIsView
<1>11. kCheapPrepend <= size'
  BY <1>4, <1>5, <1>6, IInvFacts
<1> QED BY <1>3, <1>4, <1>8, <1>9, <1>10, <1>11 DEF IInv

(* ReadFd: what readv put in the vector, then what was in extrabuf.        *)
LEMMA ReadFdStep ==
  ASSUME IInv, NEW data \in Inputs, ReadFd(data)
  PROVE  IInv' /\ Content' = Content \o data
<1> DEFINE head == SubSeq(data, 1, WritableBytes)
           tail == SubSeq(data, WritableBytes + 1, Len(data))
           h == Put(Buf, head)
           p == Written(h, tail)
<1>1. data \in Seq(Byte) /\ Len(data) \in 0 .. MaxLen /\ Len(data) \in Nat
  BY InputsAreSeqs
<1>2. /\ WellFormed(Buf) /\ Buf.w - Buf.r = ReadableBytes /\ Buf.n = size
      /\ Buf.n - Buf.w = WritableBytes
  BY BufFields DEF IInv, ReadableBytes, WritableBytes
<1>3. /\ size \in Nat /\ ReadableBytes \in Nat /\ size <= Bound
      /\ ReadableBytes <= MaxReadable /\ WritableBytes \in Nat
  BY IInvFacts DEF WritableBytes
<1>4. ReadableBytes + Len(data) <= MaxReadable
  BY DEF ReadFd
<1>5. CASE Len(data) <= WritableBytes
  <2>1. /\ WellFormed(Put(Buf, data)) /\ Put(Buf, data).n = Buf.n
        /\ Put(Buf, data).w - Put(Buf, data).r = (Buf.w - Buf.r) + Len(data)
        /\ View(Put(Buf, data)) = View(Buf) \o data
    BY <1>1, <1>2, <1>3, <1>5, PutLemma
  <2>2. Becomes(Put(Buf, data))
    BY <1>5 DEF ReadFd
  <2>3. /\ WellFormed(Buf)' /\ size' = size
        /\ ReadableBytes' = ReadableBytes + Len(data)
        /\ Content' = View(Buf) \o data
    BY <1>2, <2>1, <2>2, BecomesLemma
  <2>4. CapacityBounded'
    BY <2>3 DEF IInv, CapacityBounded
  <2> QED BY <1>4, <2>3, <2>4, ContentIsView DEF IInv
<1>6. CASE ~ (Len(data) <= WritableBytes)
  <2>1. /\ head \in Seq(Byte) /\ Len(head) = WritableBytes
        /\ tail \in Seq(Byte) /\ Len(tail) = Len(data) - WritableBytes
        /\ head \o tail = data
    <3>1. \A i \in 1 .. Len(data) : data[i] \in Byte
      BY <1>1, ElementOfSeq
    <3>2. head \in Seq(Byte) /\ Len(head) = WritableBytes
      BY <1>1, <1>3, <1>6, <3>1, SubSeqProperties
    <3>3. tail \in Seq(Byte) /\ Len(tail) = Len(data) - WritableBytes
      BY <1>1, <1>3, <1>6, <3>1, SubSeqProperties
    <3>4. head \o tail = SubSeq(data, 1, Len(data))
      <4>1. /\ 1 \in 1 .. Len(data) + 1 /\ WritableBytes \in 1 - 1 .. Len(data)
            /\ Len(data) \in WritableBytes .. Len(data)
        BY <1>1, <1>3, <1>6
      <4> QED BY <4>1, <1>1, ConcatAdjacentSubSeq, Zenon
    <3>5. SubSeq(data, 1, Len(data)) = data
      BY <1>1, SubSeqFull
    <3> QED BY <3>2, <3>3, <3>4, <3>5
  <2>2. Becomes(p)
    BY <1>6 DEF ReadFd
  <2> HIDE DEF head, tail
  <2>3. /\ WellFormed(h) /\ h.n = size
        /\ h.w - h.r = ReadableBytes + WritableBytes
        /\ View(h) = View(Buf) \o head
    BY <1>2, <1>3, <2>1, PutLemma
  <2> HIDE DEF h
  <2>4. /\ WellFormed(p) /\ p.w - p.r = (h.w - h.r) + Len(tail)
        /\ View(p) = View(h) \o tail
        /\ h.n <= p.n
        /\ p.n <= Larger(h.n, 2 * Len(tail) + kCheapPrepend + (h.w - h.r))
    BY <2>1, <2>3, WrittenLemma
  <2> HIDE DEF p
  <2>5. /\ WellFormed(Buf)' /\ size' = p.n /\ ReadableBytes' = p.w - p.r
        /\ Content' = View(p)
    BY <2>2, <2>4, BecomesLemma
  <2>6. ReadableBytes' = ReadableBytes + Len(data)
    BY <1>1, <1>3, <2>1, <2>3, <2>4, <2>5
  <2>7. Content' = Content \o data
    <3>1. View(p) = (View(Buf) \o head) \o tail
      BY <2>3, <2>4
    <3>2. (View(Buf) \o head) \o tail = View(Buf) \o (head \o tail)
      <4>1. View(Buf) \in Seq(Byte)
        BY <1>2, ViewIsSeq
      <4>2. head \in Seq(Byte) /\ tail \in Seq(Byte)
        BY <2>1
      <4> QED BY <4>1, <4>2, ConcatAssociative
    <3> QED BY <2>1, <2>5, <3>1, <3>2, ContentIsView
  <2>8. size' <= Bound
    <3>1. p.n \in Nat
      BY <2>4 DEF WellFormed
    <3>2. p.n <= Larger(size, 2 * (Len(data) - WritableBytes) + kCheapPrepend
                               + (ReadableBytes + WritableBytes))
      BY <2>1, <2>3, <2>4
    <3> QED BY <3>1, <3>2, <2>5, <1>1, <1>3, <1>4, BoundNat, IOBufferAssumption DEF Larger
  <2>9. CapacityBounded'
    BY <2>8 DEF CapacityBounded, Bound, LargestCall
  <2>10. kCheapPrepend <= size'
    <3>1. p.n \in Nat
      BY <2>4 DEF WellFormed
    <3>2. kCheapPrepend \in Nat /\ kCheapPrepend <= size
      BY IInvFacts
    <3>3. size' = p.n /\ size <= p.n
      BY <2>3, <2>4, <2>5
    <3> QED BY <3>1, <3>2, <3>3, <1>3
  <2> QED BY <1>4, <2>5, <2>6, <2>7, <2>9, <2>10 DEF IInv
<1> QED BY <1>5, <1>6

(* Retrieve(n) drops the first n bytes of the content.                     *)
LEMMA RetrieveStep ==
  ASSUME IInv, NEW n \in Nat, n <= ReadableBytes,
         IF n < ReadableBytes
         THEN reader_index' = reader_index + n /\ UNCHANGED writer_index
         ELSE RetrieveAll,
         UNCHANGED <<size, cell>>
  PROVE  IInv' /\ Content' = SubSeq(Content, n + 1, Len(Content))
<1>1. /\ size \in Nat /\ reader_index \in Nat /\ writer_index \in Nat
      /\ reader_index <= writer_index /\ writer_index <= size
      /\ cell \in [0 .. size - 1 -> Byte \cup {Blank}]
      /\ \A i \in reader_index .. writer_index - 1 : cell[i] \in Byte
      /\ ReadableBytes = writer_index - reader_index
      /\ ReadableBytes \in Nat /\ ReadableBytes <= MaxReadable
      /\ kCheapPrepend \in Nat /\ kCheapPrepend <= size
  BY IInvFacts
<1>2. /\ WellFormed(Buf) /\ Content \in Seq(Byte) /\ Len(Content) = ReadableBytes
      /\ \A i \in 1 .. ReadableBytes : Content[i] = cell[reader_index + i - 1]
  BY <1>1, BufFields, ContentIsView, ViewIsSeq DEF IInv
<1>3. CapacityBounded' /\ kCheapPrepend <= size'
  BY <1>1 DEF IInv, CapacityBounded
<1>4. CASE n < ReadableBytes
  <2>1. /\ reader_index' = reader_index + n /\ writer_index' = writer_index
        /\ size' = size /\ cell' = cell
    BY <1>4
  <2>2. ReadableBytes' = ReadableBytes - n /\ ReadableBytes' \in Nat
    BY <1>1, <1>4, <2>1 DEF ReadableBytes
  <2>3. /\ (Buf.n)' = size /\ (Buf.c)' = cell
        /\ (Buf.r)' = reader_index + n /\ (Buf.w)' = writer_index
    BY <2>1 DEF Buf
  <2>4. WellFormed(Buf)'
    BY <1>1, <1>4, <2>3 DEF WellFormed, Cells
  <2>5. Content' = [i \in 1 .. ReadableBytes - n |-> cell[(reader_index + n) + i - 1]]
    BY <2>1, <2>2 DEF Content
  <2>6. SubSeq(Content, n + 1, Len(Content)) =
          [i \in 1 .. ReadableBytes - n |-> cell[(reader_index + n) + i - 1]]
    <3>1. \A i \in 1 .. ReadableBytes - n :
            Content[n + 1 + i - 1] = cell[(reader_index + n) + i - 1]
      BY <1>1, <1>2, <1>4
    <3>2. SubSeq(Content, n + 1, Len(Content)) =
            [i \in 1 .. ReadableBytes - n |-> Content[n + 1 + i - 1]]
      BY <1>1, <1>2, <1>4
    <3> QED BY <3>1, <3>2
  <2>7. ReadableBytes' <= MaxReadable
    BY <1>1, <2>2, IOBufferAssumption
  <2>8. IInv'
    BY <1>3, <2>4, <2>7 DEF IInv
  <2> QED BY <2>5, <2>6, <2>8
<1>5. CASE ~ (n < ReadableBytes)
  <2>1. /\ reader_index' = kCheapPrepend /\ writer_index' = kCheapPrepend
        /\ size' = size /\ cell' = cell
    BY <1>5 DEF RetrieveAll
  <2>2. ReadableBytes' = 0
    BY <1>1, <2>1 DEF ReadableBytes
  <2>3. /\ (Buf.n)' = size /\ (Buf.c)' = cell
        /\ (Buf.r)' = kCheapPrepend /\ (Buf.w)' = kCheapPrepend
    BY <2>1 DEF Buf
  <2>4. WellFormed(Buf)'
    BY <1>1, <2>3 DEF WellFormed, Cells
  <2>5. Content' = <<>>
    <3>1. Content' = [i \in 1 .. 0 |-> cell[kCheapPrepend + i - 1]]
      BY <2>1, <2>2 DEF Content
    <3> QED BY <3>1
  <2>6. SubSeq(Content, n + 1, Len(Content)) = <<>>
    BY <1>1, <1>2, <1>5, SubSeqEmpty
  <2>7. ReadableBytes' <= MaxReadable
    BY <1>1, <2>2, IOBufferAssumption
  <2>8. IInv'
    BY <1>3, <2>4, <2>7 DEF IInv
  <2> QED BY <2>5, <2>6, <2>8
<1> QED BY <1>4, <1>5

(* Unwrite(n) drops the last n bytes of the content.                       *)
LEMMA UnwriteStep ==
  ASSUME IInv, NEW n \in Nat, Unwrite(n)
  PROVE  IInv' /\ Content' = SubSeq(Content, 1, Len(Content) - n)
<1>1. /\ size \in Nat /\ reader_index \in Nat /\ writer_index \in Nat
      /\ reader_index <= writer_index /\ writer_index <= size
      /\ cell \in [0 .. size - 1 -> Byte \cup {Blank}]
      /\ \A i \in reader_index .. writer_index - 1 : cell[i] \in Byte
      /\ ReadableBytes = writer_index - reader_index
      /\ ReadableBytes \in Nat /\ ReadableBytes <= MaxReadable
  BY IInvFacts
<1>2. /\ WellFormed(Buf) /\ Content \in Seq(Byte) /\ Len(Content) = ReadableBytes
      /\ \A i \in 1 .. ReadableBytes : Content[i] = cell[reader_index + i - 1]
  BY <1>1, BufFields, ContentIsView, ViewIsSeq DEF IInv
<1>3. /\ n <= ReadableBytes /\ reader_index' = reader_index
      /\ writer_index' = writer_index - n
      /\ size' = size /\ cell' = cell
  BY DEF Unwrite
<1>4. ReadableBytes' = ReadableBytes - n /\ ReadableBytes' \in Nat
  BY <1>1, <1>3 DEF ReadableBytes
<1>5. /\ (Buf.n)' = size /\ (Buf.c)' = cell
      /\ (Buf.r)' = reader_index /\ (Buf.w)' = writer_index - n
  BY <1>3 DEF Buf
<1>6. WellFormed(Buf)'
  BY <1>1, <1>3, <1>5 DEF WellFormed, Cells
<1>7. Content' = [i \in 1 .. ReadableBytes - n |-> cell[reader_index + i - 1]]
  BY <1>3, <1>4 DEF Content
<1>8. SubSeq(Content, 1, Len(Content) - n) =
        [i \in 1 .. ReadableBytes - n |-> cell[reader_index + i - 1]]
  <2>1. SubSeq(Content, 1, Len(Content) - n) =
          [i \in 1 .. ReadableBytes - n |-> Content[i]]
    BY <1>1, <1>2, <1>3
  <2>2. \A i \in 1 .. ReadableBytes - n : Content[i] = cell[reader_index + i - 1]
    BY <1>1, <1>2
  <2> QED BY <2>1, <2>2
<1>9. ReadableBytes' <= MaxReadable
  BY <1>1, <1>4, IOBufferAssumption
<1>10. IInv'
  BY <1>3, <1>6, <1>9 DEF IInv, CapacityBounded
<1> QED BY <1>7, <1>8, <1>10

(* Prepend(data) puts data in front of the content.                        *)
LEMMA PrependStep ==
  ASSUME IInv, NEW data \in Inputs, Prepend(data)
  PROVE  IInv' /\ Content' = data \o Content
<1>1. data \in Seq(Byte) /\ Len(data) \in Nat
  BY InputsAreSeqs, IOBufferAssumption
<1>2. \A i \in 1 .. Len(data) : data[i] \in Byte
  BY <1>1, ElementOfSeq
<1>3. /\ size \in Nat /\ reader_index \in Nat /\ writer_index \in Nat
      /\ reader_index <= writer_index /\ writer_index <= size
      /\ cell \in [0 .. size - 1 -> Byte \cup {Blank}]
      /\ \A i \in reader_index .. writer_index - 1 : cell[i] \in Byte
      /\ ReadableBytes = writer_index - reader_index
      /\ ReadableBytes \in Nat /\ ReadableBytes <= MaxReadable
  BY IInvFacts
<1>4. /\ WellFormed(Buf) /\ Content \in Seq(Byte) /\ Len(Content) = ReadableBytes
      /\ \A i \in 1 .. ReadableBytes : Content[i] = cell[reader_index + i - 1]
  BY <1>3, BufFields, ContentIsView, ViewIsSeq DEF IInv
<1> DEFINE r == reader_index - Len(data)
<1>5. /\ r \in Nat /\ r + Len(data) = reader_index /\ r <= reader_index
      /\ ReadableBytes + Len(data) <= MaxReadable
  BY <1>1, <1>3 DEF Prepend, PrependableBytes
<1>6. /\ reader_index' = r
      /\ cell' = [i \in 0 .. size - 1 |-> IF r <= i /\ i < reader_index
                                          THEN data[i - r + 1] ELSE cell[i]]
      /\ size' = size /\ writer_index' = writer_index
  BY DEF Prepend
<1> HIDE DEF r
<1>7. ASSUME NEW i \in r .. reader_index - 1
      PROVE  cell'[i] = data[i - r + 1] /\ cell'[i] \in Byte
  <2>1. i \in 0 .. size - 1 /\ r <= i /\ i < reader_index /\ i - r + 1 \in 1 .. Len(data)
    BY <1>1, <1>3, <1>5
  <2> QED BY <2>1, <1>2, <1>6
<1>8. ASSUME NEW i \in reader_index .. writer_index - 1
      PROVE  cell'[i] = cell[i] /\ cell'[i] \in Byte
  <2>1. i \in 0 .. size - 1 /\ ~ (i < reader_index)
    BY <1>3
  <2> QED BY <2>1, <1>3, <1>6
<1>9. cell' \in [0 .. size - 1 -> Byte \cup {Blank}]
  <2>1. ASSUME NEW i \in 0 .. size - 1, r <= i /\ i < reader_index
        PROVE  data[i - r + 1] \in Byte
    <3>1. i - r + 1 \in 1 .. Len(data)
      BY <1>1, <1>3, <1>5, <2>1
    <3> QED BY <3>1, <1>2
  <2> QED BY <2>1, <1>3, <1>6
<1>10. ASSUME NEW i \in r .. writer_index - 1
       PROVE  cell'[i] \in Byte
  <2>1. i \in r .. reader_index - 1 \/ i \in reader_index .. writer_index - 1
    BY <1>3, <1>5
  <2> QED BY <2>1, <1>7, <1>8
<1>11. ReadableBytes' = ReadableBytes + Len(data)
  BY <1>1, <1>3, <1>5, <1>6 DEF ReadableBytes
<1>12. /\ (Buf.n)' = size /\ (Buf.c)' = cell'
       /\ (Buf.r)' = r /\ (Buf.w)' = writer_index
  BY <1>6 DEF Buf
<1>13. WellFormed(Buf)'
  BY <1>3, <1>5, <1>9, <1>10, <1>12 DEF WellFormed, Cells
<1>14. /\ Content' \in Seq(Byte) /\ Len(Content)' = ReadableBytes'
       /\ \A i \in 1 .. ReadableBytes' : Content'[i] = cell'[r + i - 1]
  <2>1. Content' \in [1 .. ReadableBytes + Len(data) -> Byte]
    <3>1. Content' = [i \in 1 .. ReadableBytes + Len(data) |-> cell'[r + i - 1]]
      BY <1>6, <1>11 DEF Content
    <3>2. ASSUME NEW i \in 1 .. ReadableBytes + Len(data)
          PROVE  cell'[r + i - 1] \in Byte
      <4>1. r + i - 1 \in r .. writer_index - 1
        BY <1>1, <1>3, <1>5
      <4> QED BY <4>1, <1>10
    <3> QED BY <3>1, <3>2
  <2>2. ReadableBytes + Len(data) \in Nat
    BY <1>1, <1>3
  <2>3. Content' \in Seq(Byte)
    BY <2>1, <2>2, SeqDef
  <2>4. Len(Content') = ReadableBytes'
    BY <2>1, <2>2, <2>3, <1>11, LenProperties
  <2>5. \A i \in 1 .. ReadableBytes' : Content'[i] = cell'[r + i - 1]
    BY <1>6 DEF Content
  <2> QED BY <2>3, <2>4, <2>5
<1>15. /\ data \o Content \in Seq(Byte)
       /\ Len(data \o Content) = Len(data) + ReadableBytes
       /\ \A i \in 1 .. Len(data) + ReadableBytes :
            (data \o Content)[i] = IF i <= Len(data) THEN data[i]
                                   ELSE Content[i - Len(data)]
  BY <1>1, <1>4, ConcatProperties
<1>16. ASSUME NEW i \in 1 .. ReadableBytes'
       PROVE  Content'[i] = (data \o Content)[i]
  <2>1. i \in 1 .. Len(data) + ReadableBytes
    BY <1>1, <1>3, <1>11
  <2>2. CASE i <= Len(data)
    <3>1. r + i - 1 \in r .. reader_index - 1 /\ (r + i - 1) - r + 1 = i
      BY <1>1, <1>3, <1>5, <2>1, <2>2
    <3>2. cell'[r + i - 1] = data[i]
      BY <3>1, <1>7
    <3> QED BY <3>2, <2>1, <2>2, <1>14, <1>15
  <2>3. CASE ~ (i <= Len(data))
    <3>1. /\ r + i - 1 \in reader_index .. writer_index - 1
          /\ i - Len(data) \in 1 .. ReadableBytes
          /\ reader_index + (i - Len(data)) - 1 = r + i - 1
      BY <1>1, <1>3, <1>5, <2>1, <2>3
    <3>2. cell'[r + i - 1] = cell[r + i - 1]
      BY <3>1, <1>8
    <3>3. Content[i - Len(data)] = cell[r + i - 1]
      BY <3>1, <1>4
    <3> QED BY <3>2, <3>3, <2>1, <2>3, <1>14, <1>15
  <2> QED BY <2>2, <2>3
<1>17. Content' = data \o Content
  <2>1. Len(Content') = Len(data \o Content)
    BY <1>1, <1>3, <1>11, <1>14, <1>15
  <2> QED BY <2>1, <1>14, <1>15, <1>16, SeqEqual
<1>18. ReadableBytes' <= MaxReadable
  BY <1>5, <1>11
<1>19. IInv'
  BY <1>6, <1>13, <1>18 DEF IInv, CapacityBounded
<1> QED BY <1>17, <1>19

(* Shrink keeps the content.                                               *)
LEMMA ShrinkStep ==
  ASSUME IInv, NEW reserve \in 0 .. MaxReserve, Shrink(reserve)
  PROVE  IInv' /\ Content' = Content
<1> DEFINE len == ReadableBytes + reserve
           m == EnsureWritableBytes(Fresh, len)
           p == Written(m, Content)
<1>1. /\ kCheapPrepend \in Nat /\ ShrinkSize \in Nat /\ MaxReserve \in Nat
      /\ MaxReadable \in Nat /\ reserve \in Nat /\ reserve <= MaxReserve
      /\ ReadableBytes \in Nat /\ ReadableBytes <= MaxReadable
  BY IInvFacts, IOBufferAssumption
<1>2. Content \in Seq(Byte) /\ Len(Content) = ReadableBytes
  BY BufFields, ContentIsView, ViewIsSeq DEF IInv, ReadableBytes
<1>3. /\ Fresh.n = kCheapPrepend + ShrinkSize
      /\ Fresh.r = kCheapPrepend /\ Fresh.w = kCheapPrepend
      /\ Fresh.c = [i \in 0 .. kCheapPrepend + ShrinkSize - 1 |-> Blank]
  BY DEF Fresh
<1>4. WellFormed(Fresh) /\ View(Fresh) = <<>>
  <2>1. Fresh.c \in Cells(Fresh.n)
    <3>1. Fresh.c \in [0 .. kCheapPrepend + ShrinkSize - 1 -> Byte \cup {Blank}]
      BY <1>3
    <3>2. Fresh.n - 1 = kCheapPrepend + ShrinkSize - 1
      BY <1>1, <1>3
    <3> QED BY <3>1, <3>2 DEF Cells
  <2>2. WellFormed(Fresh)
    BY <1>1, <1>3, <2>1 DEF WellFormed
  <2>3. Len(View(Fresh)) = 0 /\ View(Fresh) \in Seq(Byte)
    BY <1>1, <1>3, <2>2, ViewIsSeq
  <2> QED BY <2>2, <2>3, EmptySeq
<1>5. /\ RoomFor(Fresh, m, len) /\ Fresh.n <= m.n
      /\ m.n <= Larger(Fresh.n, 2 * len + kCheapPrepend + (Fresh.w - Fresh.r))
  BY <1>1, <1>4, EnsureLemma
<1>6. Becomes(p)
  BY DEF Shrink
<1> HIDE DEF m
<1>7. WellFormed(m) /\ m.w - m.r = 0 /\ View(m) = <<>> /\ m.n \in Nat
  BY <1>1, <1>3, <1>4, <1>5 DEF RoomFor, WellFormed
<1>8. /\ WellFormed(p) /\ p.w - p.r = (m.w - m.r) + Len(Content)
      /\ View(p) = View(m) \o Content
      /\ m.n <= p.n
      /\ p.n <= Larger(m.n, 2 * Len(Content) + kCheapPrepend + (m.w - m.r))
  BY <1>2, <1>7, WrittenLemma
<1> HIDE DEF p
<1>9. /\ WellFormed(Buf)' /\ size' = p.n /\ ReadableBytes' = p.w - p.r
      /\ Content' = View(p)
  BY <1>6, <1>8, BecomesLemma
<1>10. Content' = Content
  BY <1>2, <1>7, <1>8, <1>9, ConcatEmptySeq
<1>11. ReadableBytes' <= MaxReadable
  BY <1>1, <1>2, <1>7, <1>8, <1>9
<1>12. p.n \in Nat
  BY <1>8 DEF WellFormed
<1>13. kCheapPrepend <= size'
  BY <1>1, <1>3, <1>5, <1>7, <1>8, <1>9, <1>12
<1>14. size' <= Bound
  <2>1. m.n <= Larger(kCheapPrepend + ShrinkSize, kCheapPrepend + len)
    <3>1. CASE ShrinkSize < len
      <4>1. m = Resized(Fresh, kCheapPrepend + len)
        BY <1>1, <1>3, <3>1 DEF m, EnsureWritableBytes, MakeSpace
      <4>2. m.n = kCheapPrepend + len
        BY <4>1, ResizedFields
      <4> QED BY <1>1, <3>1, <4>2 DEF Larger
    <3>2. CASE ~ (ShrinkSize < len)
      <4>1. m = Fresh
        BY <1>1, <1>3, <3>2 DEF m, EnsureWritableBytes
      <4> QED BY <1>1, <1>3, <4>1 DEF Larger
    <3> QED BY <3>1, <3>2
  <2>2. m.n <= Bound
    BY <2>1, <1>1, <1>7, BoundNat DEF Larger
  <2>3. p.n = m.n
    <3>1. m.n - m.w >= len /\ m.w \in Nat
      BY <1>5, <1>7 DEF RoomFor, WellFormed
    <3>2. m.n - m.w >= Len(Content)
      BY <3>1, <1>1, <1>2, <1>7
    <3> QED BY <3>2, <1>2, <1>7, WrittenLemma DEF p
  <2> QED BY <2>2, <2>3, <1>9
<1>15. CapacityBounded'
  BY <1>14 DEF CapacityBounded, Bound, LargestCall
<1> QED BY <1>6, <1>9, <1>10, <1>11, <1>13, <1>15 DEF IInv

-----------------------------------------------------------------------------
(* A step of the buffer keeps the invariant, and is a step (or a stutter)  *)
(* of the byte deque.                                                      *)
DequeStep == Deque!Next \/ UNCHANGED <<Content, call>>

(* Every step keeps the inductive invariant and is a step of ByteDeque.    *)
LEMMA StepIInv ==
  ASSUME IInv, [Next]_vars
  PROVE  IInv' /\ DequeStep
<1>1. Content \in Seq(Byte) /\ Len(Content) = ReadableBytes /\ ReadableBytes \in Nat
  BY BufFields, ContentIsView, ViewIsSeq, IInvFacts DEF IInv, ReadableBytes
<1>2. ASSUME NEW data \in Inputs, Write(data)
      PROVE  IInv' /\ DequeStep
  <2>1. IInv' /\ Content' = Content \o data
    BY <1>2, WriteStep
  <2>2. call' = <<"Write", data>>
    BY <1>2 DEF Write, Called
  <2> QED BY <2>1, <2>2 DEF DequeStep, Deque!Next, Deque!Write, Deque!Called
<1>3. ASSUME NEW data \in Inputs, ReadFd(data)
      PROVE  IInv' /\ DequeStep
  <2>1. IInv' /\ Content' = Content \o data
    BY <1>3, ReadFdStep
  <2>2. call' = <<"ReadFd", data>>
    BY <1>3 DEF ReadFd, Called
  <2> QED BY <2>1, <2>2 DEF DequeStep, Deque!Next, Deque!ReadFd, Deque!Called
<1>4. ASSUME NEW data \in Inputs, Prepend(data)
      PROVE  IInv' /\ DequeStep
  <2>1. IInv' /\ Content' = data \o Content
    BY <1>4, PrependStep
  <2>2. call' = <<"Prepend", data>>
    BY <1>4 DEF Prepend, Called
  <2> QED BY <2>1, <2>2 DEF DequeStep, Deque!Next, Deque!Prepend, Deque!Called
<1>5. ASSUME NEW n \in Nat, Retrieved(n)
      PROVE  IInv' /\ n \in 0 .. Len(Content) /\ Deque!Taken(n)
  <2>1. n <= ReadableBytes
    BY <1>5 DEF Retrieved
  <2>2. IInv' /\ Content' = SubSeq(Content, n + 1, Len(Content))
    BY <1>5, <2>1, RetrieveStep DEF Retrieved
  <2> QED BY <1>1, <2>1, <2>2 DEF Deque!Taken
<1>6. ASSUME NEW n \in 0 .. MaxReadable, Retrieve(n)
      PROVE  IInv' /\ DequeStep
  <2>1. n \in Nat /\ Retrieved(n) /\ call' = <<"Retrieve", n>>
    BY <1>6, IOBufferAssumption DEF Retrieve, Called
  <2> QED BY <2>1, <1>5 DEF DequeStep, Deque!Next, Deque!Retrieve, Deque!Called
<1>7. ASSUME ReadLittleEndianInt16
      PROVE  IInv' /\ DequeStep
  <2>1. Retrieved(4) /\ call' = <<"ReadLittleEndianInt16", 0>>
    BY <1>7 DEF ReadLittleEndianInt16, Called
  <2>2. IInv' /\ Deque!Taken(4)
    BY <2>1, <1>5
  <2> QED BY <2>1, <2>2
        DEF DequeStep, Deque!Next, Deque!ReadLittleEndianInt16, Deque!Called
<1>8. ASSUME NEW n \in 0 .. MaxReadable, Unwrite(n)
      PROVE  IInv' /\ DequeStep
  <2>1. n \in Nat /\ n <= ReadableBytes /\ call' = <<"Unwrite", n>>
    BY <1>8, IOBufferAssumption DEF Unwrite, Called
  <2>2. IInv' /\ Content' = SubSeq(Content, 1, Len(Content) - n)
    BY <1>8, <2>1, UnwriteStep
  <2>3. n \in 0 .. Len(Content) /\ n <= Len(Content)
    BY <1>1, <2>1
  <2> QED BY <2>1, <2>2, <2>3 DEF DequeStep, Deque!Next, Deque!Unwrite, Deque!Called
<1>9. ASSUME NEW reserve \in 0 .. MaxReserve, Shrink(reserve)
      PROVE  IInv' /\ DequeStep
  <2>1. IInv' /\ Content' = Content
    BY <1>9, ShrinkStep
  <2>2. call' = <<"Shrink", reserve>>
    BY <1>9 DEF Shrink, Called
  <2> QED BY <2>1, <2>2 DEF DequeStep, Deque!Next, Deque!Shrink, Deque!Called
<1>10. CASE UNCHANGED vars
  <2>1. /\ size' = size /\ cell' = cell /\ reader_index' = reader_index
        /\ writer_index' = writer_index /\ call' = call
    BY <1>10 DEF vars
  <2>2. Content' = Content
    BY <2>1 DEF Content, ReadableBytes
  <2>3. IInv'
    BY <2>1 DEF IInv, WellFormed, Buf, CapacityBounded, ReadableBytes
  <2> QED BY <2>1, <2>2, <2>3 DEF DequeStep
<1> QED BY <1>2, <1>3, <1>4, <1>6, <1>7, <1>8, <1>9, <1>10 DEF Next

(* The invariant gives the properties the runs check.                      *)
LEMMA IInvImplies ==
  ASSUME IInv
  PROVE  TypeOK /\ OnlyWrittenReadable /\ CapacityBounded
<1>1. TypeOK
  BY IInvFacts DEF TypeOK, Cells, IInv
<1>2. OnlyWrittenReadable
  BY IInvFacts DEF OnlyWrittenReadable
<1> QED BY <1>1, <1>2 DEF IInv

(* For all sizes and bounds: the indices of net::IOBuffer stay in order    *)
(* within the vector, only bytes somebody wrote are ever readable, and the *)
(* vector's size is bounded by the unread bytes and the largest call.      *)
THEOREM BufferInvariant ==
  Spec => [](TypeOK /\ OnlyWrittenReadable /\ CapacityBounded)
<1>1. Init => IInv
  BY InitIInv
<1>2. IInv /\ [Next]_vars => IInv'
  BY StepIInv
<1>3. IInv => TypeOK /\ OnlyWrittenReadable /\ CapacityBounded
  BY IInvImplies
<1> QED BY <1>1, <1>2, <1>3, PTL DEF Spec

(* For all sizes and bounds: growing, moving, shrinking and the extra      *)
(* buffer of ReadFd are invisible; to its users net::IOBuffer is a         *)
(* double-ended byte sequence, on which each call does what ByteDeque says *)
(* of that operation.                                                      *)
THEOREM BufferImplementsDeque == Spec => ImplementsDeque
<1>1. Init => IInv
  BY InitIInv
<1>2. IInv /\ [Next]_vars => IInv' /\ DequeStep
  BY StepIInv
<1>3. Init => Deque!Init
  <2> SUFFICES ASSUME Init PROVE Content = <<>>
    BY DEF Init, Deque!Init
  <2>1. Content \in Seq(Byte) /\ Len(Content) = ReadableBytes
    BY InitIInv, BufFields, ContentIsView, ViewIsSeq DEF IInv, ReadableBytes
  <2>2. ReadableBytes = 0
    BY IOBufferAssumption DEF Init, ReadableBytes
  <2> QED BY <2>1, <2>2, EmptySeq
<1>4. DequeStep => [Deque!Next]_<<Content, call>>
  BY DEF DequeStep
<1> QED BY <1>1, <1>2, <1>3, <1>4, PTL DEF Spec, ImplementsDeque, Deque!Spec
=============================================================================

---------------------------- MODULE IOHandlerProofs ----------------------------
(***************************************************************************)
(* Proofs about IOHandler, for any number of connections, threads and      *)
(* sends, any payloads and any length of the task queue: the order of the  *)
(* delegate's calls, the arming of the write watcher, the bytes of the     *)
(* stream, and the life of the object.                                     *)
(*                                                                         *)
(* The inductive invariant IInv says of each connection (ConnOk) what its  *)
(* reference count, its watchers, its buffer and its history are, and of   *)
(* each posted task (TaskFits) in what state its connection will be found: *)
(* OnCreated finds it untouched, SendInternal2 finds the reference its     *)
(* poster still keeps, unless that thread was careless.  Of a connection   *)
(* whose direct send() failed ("spoilt") it keeps that the bytes from      *)
(* outside the data come after the beginning of the stream.  The proof has *)
(* one lemma per action; below them are lemmas on what SendInternal,       *)
(* HandOut, ReleaseTo and Close do to the connection at hand, and on       *)
(* connections and tasks that a step leaves alone.                         *)
(***************************************************************************)
EXTENDS IOHandler, FiniteSetTheorems, SequenceTheorems, TLAPS

(* What a buffer may hold: bytes that were sent, or the ones read from     *)
(* beyond them after a failed send().                                      *)
Cell == Byte \cup {Garbage}

(* The arithmetic of uint32 in SendInternal.                               *)
LEMMA ModSmall == ASSUME NEW w \in Nat, NEW a \in Nat, a < w PROVE a % w = a
OBVIOUS

LEMMA ModRange == ASSUME NEW w \in Nat \ {0}, NEW a \in Int PROVE a % w \in 0 .. w - 1
OBVIOUS

(* A payload is a sequence of bytes short enough for uint32.               *)
LEMMA PayloadOk ==
  ASSUME NEW d \in Payload
  PROVE  d \in Seq(Byte) /\ d \in Seq(Cell) /\ Len(d) \in Nat /\ Len(d) + 1 < Wrap /\ Wrap \in Nat
<1>1. d \in Seq(Byte) /\ Len(d) + 1 < Wrap /\ Wrap \in Nat BY IOHandlerAssumption
<1>2. d \in Seq(Cell) BY <1>1, SeqMonotonic DEF Cell
<1>3. QED BY <1>1, <1>2, LenProperties

(* What is left of the data when send() returns n: nothing is lost by the  *)
(* modulus unless n is -1.                                                 *)
LEMMA RemainingValue ==
  ASSUME NEW c \in Conn, NEW d \in Payload, NEW n \in SendResults(c, d)
  PROVE  /\ n \in Int
         /\ n >= 0 => n <= Len(d) /\ Remaining(c, d, n) = Len(d) - n
         /\ n < 0 => n = -1 /\ Remaining(c, d, n) = Len(d) + 1 /\ Direct(c)
         /\ n > 0 => Direct(c) /\ c \in open
<1>1. d \in Seq(Byte) /\ Len(d) \in Nat /\ Len(d) + 1 < Wrap /\ Wrap \in Nat BY PayloadOk
<1>2. CASE ~Direct(c) BY <1>1, <1>2 DEF SendResults, Remaining
<1>3. CASE Direct(c)
  <2>1. n \in {-1} \cup 0 .. Len(d) BY <1>1, <1>3 DEF SendResults
  <2>2. CASE n \in 0 .. Len(d)
    <3>1. n % Wrap = n BY <1>1, <2>2, ModSmall
    <3>2. (Len(d) - n) % Wrap = Len(d) - n BY <1>1, <2>2, ModSmall
    <3>3. Remaining(c, d, n) = Len(d) - n BY <1>3, <3>1, <3>2 DEF Remaining
    <3>4. n > 0 => c \in open BY <1>3 DEF SendResults
    <3>5. QED BY <1>1, <1>3, <2>2, <3>3, <3>4
  <2>3. CASE n = -1
    <3>1. (-1) % Wrap = Wrap - 1 BY <1>1
    <3>2. (Len(d) - (Wrap - 1)) % Wrap = Len(d) + 1 BY <1>1
    <3>3. Remaining(c, d, n) = Len(d) + 1 BY <1>3, <2>3, <3>1, <3>2 DEF Remaining
    <3>4. QED BY <1>1, <1>3, <2>3, <3>3
  <2>4. QED BY <2>1, <2>2, <2>3
<1>4. QED BY <1>2, <1>3

(* The write watcher of an open connection is armed while there is         *)
(* something to write.                                                     *)
Watched(c) == c \in open => /\ c \in write_watch <=> write_buf[c] # <<>>
                            /\ c \in write_watch <=> c \in writing

(* Bytes from outside the data come after the beginning of the stream, and *)
(* there are some, so nothing that comes later is taken for the stream.    *)
Fouled(s, a) == Clean(s, a) /\ \E i \in 1 .. Len(s) : s[i] = Garbage

(* What the kernel took, and what is still to be written, are what was     *)
(* accepted; the kernel always has the beginning of it.                    *)
Whole(c) ==
  c \in open => IF c \in spoilt THEN Fouled(wire[c] \o write_buf[c], accepted[c])
               ELSE wire[c] \o write_buf[c] = accepted[c]

Begins(w, a) == Len(w) <= Len(a) /\ w = SubSeq(a, 1, Len(w))

Beginning(c) == IF c \in spoilt THEN Clean(wire[c], accepted[c])
                ELSE Begins(wire[c], accepted[c])

Stream(c) == Whole(c) /\ Beginning(c)

(* The part of TypeOK that sending touches.                                *)
BufferTypes ==
  /\ write_watch \in SUBSET Conn
  /\ writing \in SUBSET Conn
  /\ write_buf \in [Conn -> Seq(Cell)]
  /\ accepted \in [Conn -> Seq(Byte)]
  /\ wire \in [Conn -> Seq(Cell)]
  /\ spoilt \in SUBSET Conn

(* A step leaves the buffers of x alone.                                   *)
SameBuffers(x) ==
  /\ x \in write_watch' <=> x \in write_watch
  /\ x \in writing' <=> x \in writing
  /\ x \in spoilt' <=> x \in spoilt
  /\ UNCHANGED <<write_buf[x], accepted[x], wire[x]>>

(* What every send on c keeps, and what it does to the other connections.  *)
SendKeeps(c) ==
  /\ BufferTypes'
  /\ Watched(c)'
  /\ Stream(c) => Stream(c)'
  /\ c \in write_watch' => c \in write_watch \/ c \in open
  /\ \A x \in Conn \ {c} : SameBuffers(x)

(* Facts about sequences: w begins w \o b; \o is associative; a sequence   *)
(* cut at n and put together is itself.                                    *)
LEMMA ConcatBegins ==
  ASSUME NEW S, NEW w \in Seq(S), NEW b \in Seq(S)
  PROVE  Len(w) <= Len(w \o b) /\ w = SubSeq(w \o b, 1, Len(w))
<1>1. Len(w \o b) = Len(w) + Len(b) /\ Len(w) \in Nat /\ Len(b) \in Nat
  BY ConcatProperties, LenProperties
<1>2. CASE w = <<>>
  <2>1. Len(w) = 0 BY <1>2
  <2>2. SubSeq(w \o b, 1, Len(w)) = <<>> BY <2>1, SubSeqEmpty
  <2>3. QED BY <1>1, <1>2, <2>2
<1>3. CASE w # <<>>
  <2>1. Len(w) \in 1 .. Len(w) /\ 1 \in 1 .. Len(w) BY <1>1, <1>3, EmptySeq
  <2>2. SubSeq(w \o b, 1, Len(w)) = SubSeq(w, 1, Len(w)) 
    BY <2>1, SubSeqOfConcat1, Zenon
  <2>3. SubSeq(w, 1, Len(w)) = w BY SubSeqFull
  <2>4. QED BY <1>1, <2>2, <2>3
<1>4. QED BY <1>2, <1>3

LEMMA Regroup ==
  ASSUME NEW s \in Seq(Cell), NEW t \in Seq(Cell), NEW u \in Seq(Cell)
  PROVE  (s \o t) \o u = s \o (t \o u)
BY ConcatAssociative

LEMMA CutInTwo ==
  ASSUME NEW S, NEW s \in Seq(S), NEW n \in 0 .. Len(s)
  PROVE  SubSeq(s, 1, n) \o SubSeq(s, n + 1, Len(s)) = s
<1>1. Len(s) \in Nat BY LenProperties
<1>2. 1 \in 1 .. Len(s) + 1 /\ n \in 1 - 1 .. Len(s) /\ Len(s) \in n .. Len(s) BY <1>1
<1>3. SubSeq(s, 1, n) \o SubSeq(s, n + 1, Len(s)) = SubSeq(s, 1, Len(s))
  BY <1>2, ConcatAdjacentSubSeq, Zenon
<1>4. QED BY <1>3, SubSeqFull

LEMMA SubSeqType ==
  ASSUME NEW S, NEW s \in Seq(S), NEW m \in 1 .. Len(s) + 1, NEW n \in 0 .. Len(s)
  PROVE  SubSeq(s, m, n) \in Seq(S) /\ Len(SubSeq(s, m, n)) = IF m <= n THEN n - m + 1 ELSE 0
<1>1. Len(s) \in Nat /\ s \in [1 .. Len(s) -> S] BY LenProperties
<1>2. \A i \in m .. n : s[i] \in S BY <1>1
<1>3. QED BY <1>1, <1>2, SubSeqProperties

(* Bytes from outside the data: the first of them, what comes after them,  *)
(* and what the kernel has when they wait in write_buf_.                   *)
LEMMA FirstFoul ==
  ASSUME NEW a \in Seq(Byte), NEW u \in Seq(Cell), NEW d \in Seq(Byte),
         Len(u) > 0, u[1] = Garbage
  PROVE  Fouled(a \o u, a \o d)
<1>0. a \in Seq(Cell) /\ d \in Seq(Cell) BY SeqMonotonic DEF Cell
<1>1. /\ Len(a \o u) = Len(a) + Len(u) /\ Len(a \o d) = Len(a) + Len(d)
      /\ Len(a) \in Nat /\ Len(u) \in Nat /\ Len(d) \in Nat
  BY <1>0, ConcatProperties, LenProperties
<1>2. \A i \in 1 .. Len(a) + Len(u) : (a \o u)[i] = IF i <= Len(a) THEN a[i] ELSE u[i - Len(a)]
  BY <1>0, ConcatProperties
<1>3. \A i \in 1 .. Len(a) + Len(d) : (a \o d)[i] = IF i <= Len(a) THEN a[i] ELSE d[i - Len(a)]
  BY <1>0, ConcatProperties
<1>4. Len(a) + 1 \in 1 .. Len(a) + Len(u) /\ (a \o u)[Len(a) + 1] = Garbage
  BY <1>1, <1>2
<1>5. ASSUME NEW i \in 1 .. Len(a \o u), \A j \in 1 .. i : (a \o u)[j] # Garbage
      PROVE  i <= Len(a \o d) /\ (a \o u)[i] = (a \o d)[i]
  <2>1. i <= Len(a) BY <1>1, <1>4, <1>5
  <2>2. QED BY <1>1, <1>2, <1>3, <2>1
<1>6. QED BY <1>1, <1>4, <1>5 DEF Fouled, Clean

LEMMA FoulStays ==
  ASSUME NEW s \in Seq(Cell), NEW a \in Seq(Byte), NEW e \in Seq(Cell), NEW d \in Seq(Byte),
         Fouled(s, a)
  PROVE  Fouled(s \o e, a \o d)
<1>1. /\ Len(s \o e) = Len(s) + Len(e) /\ Len(a \o d) = Len(a) + Len(d)
      /\ Len(s) \in Nat /\ Len(e) \in Nat /\ Len(a) \in Nat /\ Len(d) \in Nat
  BY ConcatProperties, LenProperties
<1>2. \A i \in 1 .. Len(s) : i \in 1 .. Len(s \o e) /\ (s \o e)[i] = s[i]
  BY <1>1, ConcatProperties
<1>3. \A i \in 1 .. Len(a) : (a \o d)[i] = a[i] BY <1>1, ConcatProperties
<1>4. PICK g \in 1 .. Len(s) : s[g] = Garbage BY DEF Fouled
<1>5. ASSUME NEW i \in 1 .. Len(s \o e), \A j \in 1 .. i : (s \o e)[j] # Garbage
      PROVE  i <= Len(a \o d) /\ (s \o e)[i] = (a \o d)[i]
  <2>1. i < g BY <1>1, <1>2, <1>4, <1>5
  <2>2. i \in 1 .. Len(s) /\ \A j \in 1 .. i : s[j] # Garbage BY <1>1, <1>2, <1>5, <2>1
  <2>3. i <= Len(a) /\ s[i] = a[i] BY <2>2 DEF Fouled, Clean
  <2>4. QED BY <1>1, <1>2, <1>3, <2>2, <2>3
<1>6. QED BY <1>2, <1>4, <1>5 DEF Fouled, Clean

LEMMA CleanBegins ==
  ASSUME NEW w \in Seq(Cell), NEW b \in Seq(Cell), NEW a \in Seq(Byte), Clean(w \o b, a)
  PROVE  Clean(w, a)
<1>1. Len(w \o b) = Len(w) + Len(b) /\ Len(w) \in Nat /\ Len(b) \in Nat
  BY ConcatProperties, LenProperties
<1>2. \A i \in 1 .. Len(w) : i \in 1 .. Len(w \o b) /\ (w \o b)[i] = w[i]
  BY <1>1, ConcatProperties
<1>3. ASSUME NEW i \in 1 .. Len(w), \A j \in 1 .. i : w[j] # Garbage
      PROVE  i <= Len(a) /\ w[i] = a[i]
  <2>1. \A j \in 1 .. i : (w \o b)[j] # Garbage BY <1>1, <1>2, <1>3
  <2>2. QED BY <1>2, <2>1 DEF Clean
<1>4. QED BY <1>3 DEF Clean

(* What the kernel has of a stream that is whole is its beginning.         *)
LEMMA WholeBegins ==
  ASSUME NEW c \in Conn, c \in open', Whole(c)', wire'[c] \in Seq(Cell),
         write_buf'[c] \in Seq(Cell), accepted'[c] \in Seq(Byte)
  PROVE  Beginning(c)'
<1>1. CASE c \in spoilt'
  <2>1. Clean(wire'[c] \o write_buf'[c], accepted'[c]) BY <1>1 DEF Whole, Fouled
  <2>2. Clean(wire'[c], accepted'[c]) BY <2>1, CleanBegins
  <2>3. QED BY <1>1, <2>2 DEF Beginning
<1>2. CASE c \notin spoilt'
  <2>1. accepted'[c] = wire'[c] \o write_buf'[c] BY <1>2 DEF Whole
  <2> DEFINE w == wire'[c]
             b == write_buf'[c]
  <2>2. Len(w) <= Len(w \o b) /\ w = SubSeq(w \o b, 1, Len(w))
    <3> HIDE DEF w, b
    <3>1. w \in Seq(Cell) /\ b \in Seq(Cell) BY DEF w, b
    <3>2. QED BY <3>1, ConcatBegins
  <2>3. Begins(wire'[c], accepted'[c]) BY <2>1, <2>2 DEF Begins
  <2>4. QED BY <1>2, <2>3 DEF Beginning
<1>3. QED BY <1>1, <1>2

(* SendInternal keeps the order of the stream, and arms the watcher when   *)
(* it leaves something in write_buf_.                                      *)
LEMMA SendOk ==
  ASSUME BufferTypes, NEW c \in Conn, NEW d \in Payload, NEW n \in SendResults(c, d),
         SendInternal(c, d, n), open' = open, Watched(c)
  PROVE  SendKeeps(c)
<1> DEFINE R == Remaining(c, d, n)
           U == Unsent(c, d, n)
<1>1. d \in Seq(Byte) /\ d \in Seq(Cell) /\ Len(d) \in Nat BY PayloadOk
<1>2. /\ n \in Int
      /\ n >= 0 => n <= Len(d) /\ R = Len(d) - n
      /\ n < 0 => n = -1 /\ R = Len(d) + 1 /\ Direct(c)
      /\ n > 0 => Direct(c) /\ c \in open
  BY RemainingValue
<1>3. write_buf[c] \in Seq(Cell) /\ wire[c] \in Seq(Cell) /\ accepted[c] \in Seq(Byte)
  BY DEF BufferTypes
<1>4. n >= 0 => U = SubSeq(d, n + 1, Len(d)) BY DEF Unsent
<1>5. U \in Seq(Cell) /\ Len(U) = R
  <2>1. CASE n >= 0
    <3>1. n + 1 \in 1 .. Len(d) + 1 /\ Len(d) \in 0 .. Len(d) BY <1>1, <1>2, <2>1
    <3>2. /\ SubSeq(d, n + 1, Len(d)) \in Seq(Cell)
          /\ Len(SubSeq(d, n + 1, Len(d))) = IF n + 1 <= Len(d) THEN Len(d) - (n + 1) + 1 ELSE 0
      BY <1>1, <3>1, SubSeqType
    <3> HIDE DEF U, R
    <3>3. U = SubSeq(d, n + 1, Len(d)) BY <1>4, <2>1
    <3>4. (IF n + 1 <= Len(d) THEN Len(d) - (n + 1) + 1 ELSE 0) = R BY <1>1, <1>2, <2>1
    <3>5. QED BY <3>2, <3>3, <3>4
  <2>2. CASE n < 0
    <3>1. R \in Nat /\ U = [i \in 1 .. R |-> Garbage] BY <1>1, <1>2, <2>2 DEF Unsent
    <3> HIDE DEF R, U
    <3>2. U \in [1 .. R -> Cell] BY <3>1 DEF Cell
    <3>3. U \in Seq(Cell) BY <3>1, <3>2, SeqDef
    <3>4. QED BY <3>1, <3>2, <3>3, LenProperties
  <2>3. QED BY <1>2, <2>1, <2>2
<1>6. n > 0 => SubSeq(d, 1, n) \in Seq(Cell) BY <1>1, <1>2, SubSeqType
<1>7. /\ accepted' = IF c \in open THEN [accepted EXCEPT ![c] = accepted[c] \o d] ELSE accepted
      /\ wire' = IF n > 0 THEN [wire EXCEPT ![c] = wire[c] \o SubSeq(d, 1, n)] ELSE wire
      /\ R > 0 => /\ write_buf' = [write_buf EXCEPT ![c] = write_buf[c] \o U]
                  /\ writing' = writing \cup {c}
                  /\ write_watch' = IF c \in writing \/ c \notin open THEN write_watch
                                    ELSE write_watch \cup {c}
      /\ spoilt' = IF c \in open /\ R > Len(d) THEN spoilt \cup {c} ELSE spoilt
      /\ ~(R > 0) => UNCHANGED <<write_buf, writing, write_watch>>
  BY DEF SendInternal
<1> HIDE DEF R, U
<1>8. write_buf[c] \o U \in Seq(Cell) /\ Len(write_buf[c] \o U) = Len(write_buf[c]) + Len(U)
  BY <1>3, <1>5, ConcatProperties
<1>9. accepted[c] \o d \in Seq(Byte) BY <1>1, <1>3, ConcatProperties
<1>10. n > 0 => wire[c] \o SubSeq(d, 1, n) \in Seq(Cell) BY <1>3, <1>6, ConcatProperties
<1>11. BufferTypes'
  <2>1. write_watch' \in SUBSET Conn /\ writing' \in SUBSET Conn BY <1>7 DEF BufferTypes
  <2>2. write_buf' \in [Conn -> Seq(Cell)] BY <1>7, <1>8 DEF BufferTypes
  <2>3. accepted' \in [Conn -> Seq(Byte)] BY <1>7, <1>9 DEF BufferTypes
  <2>4. wire' \in [Conn -> Seq(Cell)] BY <1>7, <1>10 DEF BufferTypes
  <2>5. spoilt' \in SUBSET Conn BY <1>7 DEF BufferTypes
  <2>6. QED BY <2>1, <2>2, <2>3, <2>4, <2>5 DEF BufferTypes
<1>12. Watched(c)'
  <2>1. CASE R > 0
    <3>1. write_buf'[c] # <<>>
      <4>1. Len(write_buf[c]) \in Nat /\ Len(U) > 0 BY <1>3, <1>5, <2>1, LenProperties
      <4>2. Len(write_buf[c] \o U) # 0 BY <1>5, <1>8, <4>1
      <4>3. write_buf'[c] = write_buf[c] \o U BY <1>7, <2>1 DEF BufferTypes
      <4>4. QED BY <4>2, <4>3, EmptySeq
    <3>2. c \in writing' /\ (c \in open => c \in write_watch') BY <1>7, <2>1 DEF Watched
    <3>3. QED BY <3>1, <3>2 DEF Watched
  <2>2. CASE ~(R > 0) BY <1>7, <2>2 DEF Watched
  <2>3. QED BY <2>1, <2>2
<1>13. c \in write_watch' => c \in write_watch \/ c \in open BY <1>7
<1>14. \A x \in Conn \ {c} : SameBuffers(x) BY <1>7 DEF SameBuffers, BufferTypes
<1>15. ASSUME Stream(c), c \in open, c \notin spoilt, n >= 0
       PROVE  wire'[c] \o write_buf'[c] = accepted'[c] /\ c \notin spoilt'
  <2>0. c \notin spoilt' BY <1>1, <1>2, <1>7, <1>15
  <2>1. n >= 0 BY <1>15
  <2>2. accepted'[c] = accepted[c] \o d BY <1>7, <1>15 DEF BufferTypes
  <2>3. accepted[c] = wire[c] \o write_buf[c] BY <1>15 DEF Stream, Whole
  <2>4. CASE n > 0
    <3>1. write_buf[c] = <<>> BY <1>2, <2>4 DEF Direct
    <3>2. wire'[c] = wire[c] \o SubSeq(d, 1, n) BY <1>7, <2>4 DEF BufferTypes
    <3>3. write_buf'[c] = U
      <4>1. CASE R > 0
        <5>1. write_buf'[c] = <<>> \o U BY <1>7, <3>1, <4>1 DEF BufferTypes
        <5>2. QED BY <1>5, <5>1, ConcatEmptySeq
      <4>2. CASE ~(R > 0)
        <5>1. Len(U) = 0 BY <1>1, <1>2, <1>5, <2>1, <4>2
        <5>2. U = <<>> BY <1>5, <5>1, EmptySeq
        <5>3. QED BY <1>7, <3>1, <4>2, <5>2
      <4>3. QED BY <4>1, <4>2
    <3>4. accepted[c] = wire[c] BY <1>3, <2>3, <3>1, ConcatEmptySeq
    <3>5. SubSeq(d, 1, n) \o U = d
      <4>1. n \in 0 .. Len(d) BY <1>1, <1>2, <2>1
      <4>2. SubSeq(d, 1, n) \o SubSeq(d, n + 1, Len(d)) = d BY <1>1, <4>1, CutInTwo
      <4>3. QED BY <1>4, <2>1, <4>2
    <3>6. (wire[c] \o SubSeq(d, 1, n)) \o U = wire[c] \o (SubSeq(d, 1, n) \o U)
      BY <1>3, <1>5, <1>6, <2>4, Regroup
    <3>7. QED BY <2>0, <2>2, <3>2, <3>3, <3>4, <3>5, <3>6
  <2>5. CASE n = 0
    <3>1. wire' = wire BY <1>7, <2>5
    <3>2. U = d BY <1>1, <1>4, <2>5, SubSeqFull
    <3>3. write_buf'[c] = write_buf[c] \o d
      <4>1. CASE R > 0 BY <1>7, <3>2, <4>1 DEF BufferTypes
      <4>2. CASE ~(R > 0)
        <5>1. Len(d) = 0 BY <1>1, <1>2, <2>5, <4>2
        <5>2. d = <<>> BY <1>1, <5>1, EmptySeq
        <5>3. QED BY <1>3, <1>7, <4>2, <5>2, ConcatEmptySeq
      <4>3. QED BY <4>1, <4>2
    <3>4. (wire[c] \o write_buf[c]) \o d = wire[c] \o (write_buf[c] \o d)
      BY <1>1, <1>3, Regroup
    <3>5. QED BY <2>0, <2>2, <2>3, <3>1, <3>3, <3>4
  <2>6. n > 0 \/ n = 0 BY <1>2, <2>1
  <2>7. QED BY <2>4, <2>5, <2>6
<1>16. \E e \in Seq(Cell) : wire'[c] \o write_buf'[c] = (wire[c] \o write_buf[c]) \o e
  <2>1. CASE n > 0
    <3>1. write_buf[c] = <<>> BY <1>2, <2>1 DEF Direct
    <3>2. wire'[c] = wire[c] \o SubSeq(d, 1, n) BY <1>7, <2>1 DEF BufferTypes
    <3>3. wire[c] \o write_buf[c] = wire[c] BY <1>3, <3>1, ConcatEmptySeq
    <3>4. write_buf'[c] \in Seq(Cell) BY <1>11 DEF BufferTypes
    <3>5. (wire[c] \o SubSeq(d, 1, n)) \o write_buf'[c] = wire[c] \o (SubSeq(d, 1, n) \o write_buf'[c])
      BY <1>3, <1>6, <2>1, <3>4, Regroup
    <3>6. SubSeq(d, 1, n) \o write_buf'[c] \in Seq(Cell) BY <1>6, <2>1, <3>4, ConcatProperties
    <3>7. QED BY <3>2, <3>3, <3>5, <3>6
  <2>2. CASE ~(n > 0)
    <3>1. wire'[c] = wire[c] BY <1>7, <2>2
    <3>2. CASE R > 0
      <4>1. write_buf'[c] = write_buf[c] \o U BY <1>7, <3>2 DEF BufferTypes
      <4>2. (wire[c] \o write_buf[c]) \o U = wire[c] \o (write_buf[c] \o U)
        BY <1>3, <1>5, Regroup
      <4>3. QED BY <1>5, <3>1, <4>1, <4>2
    <3>3. CASE ~(R > 0)
      <4>1. write_buf'[c] = write_buf[c] BY <1>7, <3>3
      <4>2. wire[c] \o write_buf[c] \in Seq(Cell) BY <1>3, ConcatProperties
      <4>3. (wire[c] \o write_buf[c]) \o <<>> = wire[c] \o write_buf[c] BY <4>2, ConcatEmptySeq
      <4>4. <<>> \in Seq(Cell) OBVIOUS
      <4>5. QED BY <3>1, <4>1, <4>3, <4>4
    <3>4. QED BY <3>2, <3>3
  <2>3. QED BY <2>1, <2>2
<1>17. ASSUME Stream(c), c \in open PROVE Whole(c)'
  <2>1. CASE c \notin spoilt /\ n >= 0 BY <1>15, <1>17, <2>1 DEF Whole
  <2>2. CASE c \notin spoilt /\ n < 0
    <3>1. wire[c] \o write_buf[c] = accepted[c] BY <1>17, <2>2 DEF Stream, Whole
    <3>2. /\ wire'[c] = wire[c] /\ write_buf'[c] = write_buf[c] \o U
          /\ accepted'[c] = accepted[c] \o d /\ c \in spoilt'
      BY <1>1, <1>2, <1>7, <1>17, <2>2 DEF BufferTypes
    <3>3. (wire[c] \o write_buf[c]) \o U = wire[c] \o (write_buf[c] \o U)
      BY <1>3, <1>5, Regroup
    <3>4. Len(U) > 0 /\ U[1] = Garbage
      <4>1. R \in Nat /\ R > 0 /\ U = [i \in 1 .. R |-> Garbage] BY <1>1, <1>2, <2>2 DEF Unsent, U, R
      <4>2. QED BY <1>5, <4>1
    <3>5. Fouled(accepted[c] \o U, accepted[c] \o d) BY <1>1, <1>3, <1>5, <3>4, FirstFoul
    <3>6. QED BY <3>1, <3>2, <3>3, <3>5 DEF Whole
  <2>3. CASE c \in spoilt
    <3>1. Fouled(wire[c] \o write_buf[c], accepted[c]) BY <1>17, <2>3 DEF Stream, Whole
    <3>2. accepted'[c] = accepted[c] \o d /\ c \in spoilt' BY <1>7, <1>17, <2>3 DEF BufferTypes
    <3>3. \E e \in Seq(Cell) : wire'[c] \o write_buf'[c] = (wire[c] \o write_buf[c]) \o e
      BY <1>16
    <3>4. wire[c] \o write_buf[c] \in Seq(Cell) BY <1>3, ConcatProperties
    <3>5. QED BY <1>1, <1>3, <3>1, <3>2, <3>3, <3>4, FoulStays DEF Whole
  <2>4. QED BY <1>2, <2>1, <2>2, <2>3
<1>18. ASSUME Stream(c) PROVE Stream(c)'
  <2>1. CASE c \in open
    <3>1. Whole(c)' BY <1>17, <1>18, <2>1
    <3>2. /\ wire'[c] \in Seq(Cell) /\ write_buf'[c] \in Seq(Cell)
          /\ accepted'[c] \in Seq(Byte)
      BY <1>11 DEF BufferTypes
    <3>3. Beginning(c)' BY <2>1, <3>1, <3>2, WholeBegins
    <3>4. QED BY <3>1, <3>3 DEF Stream
  <2>2. CASE c \notin open
    <3>1. accepted' = accepted /\ wire' = wire /\ spoilt' = spoilt BY <1>2, <1>7, <2>2
    <3>2. QED BY <1>18, <2>2, <3>1 DEF Stream, Whole, Beginning
  <2>3. QED BY <2>1, <2>2
<1>19. QED BY <1>11, <1>12, <1>13, <1>14, <1>18 DEF SendKeeps

-----------------------------------------------------------------------------
(* The inductive invariant.                                                *)

(* The threads that have a reference to c.                                 *)
Holders(c) == {t \in Thread : c \in holds[t]}

One(b) == IF b THEN 1 ELSE 0

(* The count is the number of owners, and the object lives while it is     *)
(* positive.                                                               *)
RefsOk(c) ==
  /\ refs[c] = One(Engaged(c)) + One(c \in local) + Cardinality(Holders(c))
  /\ obj[c] = "live" <=> refs[c] > 0

(* A connection that was never made has an empty history.                  *)
Unborn(c) == obj[c] = "none" =>
  /\ c \notin writing /\ c \notin spoilt
  /\ write_buf[c] = <<>> /\ accepted[c] = <<>> /\ wire[c] = <<>> /\ upcalls[c] = <<>>

(* The delegate's calls came in order, and one that is read was announced  *)
(* and not closed.                                                         *)
UpcallsSoFar(c) ==
  /\ upcalls[c] \in {<<>>, <<"new">>, <<"new", "data">>, <<"new", "closed">>,
                     <<"new", "data", "closed">>}
  /\ c \in read_watch => upcalls[c] \in {<<"new">>, <<"new", "data">>}

(* Only live objects have an open socket, and only open sockets are        *)
(* watched.                                                                *)
OpenOnly(c) == /\ c \in open => obj[c] = "live"
               /\ c \in read_watch => c \in open
               /\ c \in write_watch => c \in open

(* All of it, for one connection.                                          *)
ConnOk(c) == /\ Unborn(c) /\ RefsOk(c) /\ UpcallsSoFar(c) /\ OpenOnly(c) /\ Watched(c)
             /\ Stream(c)

(* A connection whose OnCreated has not run: nobody but the engine and the *)
(* acceptor knows it.                                                      *)
Fresh(c) == c \in open /\ upcalls[c] = <<>> /\ c \notin read_watch /\ Holders(c) = {}

(* How a posted task finds its connection.                                 *)
TaskFits(k) ==
  /\ obj[k.conn] # "none"
  /\ k.op = "OnCreated" => Fresh(k.conn)
  /\ k.op = "SendInternal2" => k.conn \in holds[k.by] \/ <<k.by, k.conn>> \in careless

(* OnCreated is the only task of its connection.                           *)
CreatedOnce ==
  \A i, j \in DOMAIN tasks :
    tasks[i].op = "OnCreated" /\ tasks[j].conn = tasks[i].conn => i = j

QueueOk == /\ \A i \in DOMAIN tasks : TaskFits(tasks[i])
           /\ CreatedOnce

(* The inductive invariant: only tasks of careless threads have met a      *)
(* freed object.                                                           *)
IInv == /\ TypeOK
        /\ \A c \in Conn : ConnOk(c)
        /\ QueueOk
        /\ dangling \subseteq careless

(* Steps that leave the references or the socket of x alone.               *)
SameRefs(x) == /\ UNCHANGED <<obj[x], refs[x]>>
               /\ x \in local' <=> x \in local
               /\ \A t \in Thread : x \in holds'[t] <=> x \in holds[t]

SameSocket(x) == /\ x \in open' <=> x \in open
                 /\ x \in read_watch' <=> x \in read_watch
                 /\ UNCHANGED upcalls[x]

(* What holds of a connection that a step leaves alone still holds.        *)
LEMMA SameHolders ==
  ASSUME NEW x, \A t \in Thread : x \in holds'[t] <=> x \in holds[t]
  PROVE  Holders(x)' = Holders(x)
BY DEF Holders

LEMMA HoldersFinite ==
  ASSUME NEW c PROVE IsFiniteSet(Holders(c)) /\ Cardinality(Holders(c)) \in Nat
BY FS_Subset, FS_CardinalityType, IOHandlerAssumption DEF Holders

LEMMA SameRefsOk ==
  ASSUME NEW x \in Conn, RefsOk(x), SameRefs(x), x \in open' <=> x \in open
  PROVE  RefsOk(x)'
<1>1. Holders(x)' = Holders(x) BY SameHolders DEF SameRefs
<1>2. Engaged(x)' <=> Engaged(x) BY DEF Engaged, SameRefs
<1>3. One(Engaged(x))' = One(Engaged(x)) BY <1>2 DEF One
<1>4. One(x \in local)' = One(x \in local) BY DEF One, SameRefs
<1>5. QED BY <1>1, <1>3, <1>4 DEF RefsOk, SameRefs

LEMMA SameStream ==
  ASSUME NEW x \in Conn, SameBuffers(x), x \in open' => x \in open
  PROVE  Stream(x) => Stream(x)'
BY DEF Stream, Whole, Beginning, SameBuffers

LEMMA SameConn ==
  ASSUME NEW x \in Conn, ConnOk(x), SameRefs(x), SameSocket(x), SameBuffers(x)
  PROVE  ConnOk(x)'
<1>1. RefsOk(x)' BY SameRefsOk DEF ConnOk, SameSocket
<1>2. Unborn(x)' BY DEF ConnOk, Unborn, SameRefs, SameSocket, SameBuffers
<1>3. UpcallsSoFar(x)' BY DEF ConnOk, UpcallsSoFar, SameSocket
<1>4. OpenOnly(x)' BY DEF ConnOk, OpenOnly, SameRefs, SameSocket, SameBuffers
<1>5. Watched(x)' BY DEF ConnOk, Watched, SameSocket, SameBuffers
<1>6. Stream(x) => Stream(x)' BY SameStream DEF SameSocket
<1>7. QED BY <1>1, <1>2, <1>3, <1>4, <1>5, <1>6 DEF ConnOk

LEMMA TypesOfBuffers == TypeOK => BufferTypes
BY DEF TypeOK, BufferTypes, Cell

(* A callback's reply is a send, or nothing.                               *)
LEMMA ReplyOk ==
  ASSUME TypeOK, NEW c \in Conn, Reply(c), open' = open, Watched(c)
  PROVE  SendKeeps(c) /\ budget' \in 0 .. MaxSends
<1>1. BufferTypes BY TypesOfBuffers
<1>2. CASE NoSend /\ UNCHANGED budget
  <2>1. BufferTypes' BY <1>1, <1>2 DEF BufferTypes, NoSend
  <2>2. QED BY <1>2, <2>1 DEF SendKeeps, SameBuffers, NoSend, Watched, Stream, Whole, Beginning,
                              TypeOK
<1>3. ASSUME budget > 0, budget' = budget - 1, NEW d \in Payload, NEW n \in SendResults(c, d),
             SendInternal(c, d, n)
      PROVE  SendKeeps(c) /\ budget' \in 0 .. MaxSends
  <2>1. SendKeeps(c) BY <1>1, <1>3, SendOk
  <2>2. budget' \in 0 .. MaxSends BY <1>3, IOHandlerAssumption DEF TypeOK
  <2>3. QED BY <2>1, <2>2
<1>4. QED BY <1>2, <1>3 DEF Reply

(* Threads that are given a pointer are counted, each once.                *)
LEMMA HandOutOk ==
  ASSUME TypeOK, NEW c \in Conn, NEW to \in SUBSET Thread, HandOut(c, to),
         AddRefs(c, Cardinality(Newcomers(c, to))), RefsOk(c), obj[c] = "live",
         UNCHANGED <<obj, local, open>>
  PROVE  /\ RefsOk(c)'
         /\ refs' \in [Conn -> Nat]
         /\ holds' \in [Thread -> SUBSET Conn]
         /\ \A x \in Conn \ {c} : SameRefs(x)
         /\ \A t \in Thread : holds[t] \subseteq holds'[t]
<1> DEFINE N == Newcomers(c, to)
<1>1. IsFiniteSet(N) /\ Cardinality(N) \in Nat
  BY FS_Subset, FS_CardinalityType, IOHandlerAssumption DEF Newcomers
<1>2. IsFiniteSet(Holders(c)) /\ Cardinality(Holders(c)) \in Nat BY HoldersFinite
<1>3. holds' = [t \in Thread |-> IF t \in to THEN holds[t] \cup {c} ELSE holds[t]] BY DEF HandOut
<1>4. Holders(c)' = Holders(c) \cup N /\ Holders(c) \cap N = {}
  BY <1>3 DEF Holders, Newcomers
<1>5. refs' = [refs EXCEPT ![c] = refs[c] + Cardinality(N)] BY DEF AddRefs
<1> HIDE DEF N
<1>6. Cardinality(Holders(c)') = Cardinality(Holders(c)) + Cardinality(N)
  <2>1. Cardinality(Holders(c) \cup N)
          = Cardinality(Holders(c)) + Cardinality(N) - Cardinality(Holders(c) \cap N)
    BY <1>1, <1>2, FS_Union
  <2>2. Cardinality(Holders(c) \cap N) = 0 BY <1>4, FS_EmptySet
  <2>3. Cardinality(Holders(c)') = Cardinality(Holders(c) \cup N) BY <1>4
  <2>4. QED BY <1>1, <1>2, <2>1, <2>2, <2>3
<1>7. refs[c] \in Nat /\ refs'[c] = refs[c] + Cardinality(N) BY <1>5 DEF TypeOK
<1>8. refs' \in [Conn -> Nat] BY <1>1, <1>5, <1>7 DEF TypeOK
<1>9. RefsOk(c)'
  <2>1. One(Engaged(c))' = One(Engaged(c)) /\ One(c \in local)' = One(c \in local) BY DEF Engaged
  <2>2. One(Engaged(c)) \in Nat /\ One(c \in local) \in Nat BY DEF One
  <2>3. refs[c] = One(Engaged(c)) + One(c \in local) + Cardinality(Holders(c)) /\ refs[c] > 0
    BY DEF RefsOk
  <2> HIDE DEF Engaged
  <2>4. refs'[c] = One(Engaged(c)) + One(c \in local) + Cardinality(Holders(c)') /\ refs'[c] > 0
    BY <1>1, <1>2, <1>6, <1>7, <2>2, <2>3
  <2>5. QED BY <2>1, <2>4 DEF RefsOk
<1>10. holds' \in [Thread -> SUBSET Conn] BY <1>3 DEF TypeOK
<1>11. \A x \in Conn \ {c} : SameRefs(x) BY <1>3, <1>5 DEF SameRefs, TypeOK
<1>12. \A t \in Thread : holds[t] \subseteq holds'[t] BY <1>3
<1>13. QED BY <1>8, <1>9, <1>10, <1>11, <1>12

(* The owners of an object, when its socket is open only while it lives.   *)
Owners(c) == One(c \in open) + One(c \in local) + Cardinality(Holders(c))

LEMMA OwnersNat == ASSUME NEW c PROVE
  /\ Owners(c) \in Nat
  /\ Cardinality(Holders(c)) \in Nat
  /\ One(c \in open) \in {0, 1} /\ One(c \in local) \in {0, 1}
BY HoldersFinite DEF Owners, One

LEMMA RefsAreOwners ==
  ASSUME NEW c, OpenOnly(c), RefsOk(c) PROVE refs[c] = Owners(c)
<1>1. Engaged(c) <=> c \in open BY DEF OpenOnly, Engaged
<1>2. One(Engaged(c)) = One(c \in open) BY <1>1 DEF One
<1>3. QED BY <1>2 DEF RefsOk, Owners

(* Release of one reference: the last one frees the object, and no open    *)
(* socket loses its engine's.                                              *)
LEMMA ReleaseOk ==
  ASSUME TypeOK, NEW c \in Conn, RefsOk(c), OpenOnly(c), ReleaseTo(c, refs[c] - 1),
         refs[c] > 0, Owners(c)' = Owners(c) - 1, Owners(c)' \in Nat, c \in open' => c \in open,
         c \in open' => Owners(c)' > 0
  PROVE  /\ RefsOk(c)'
         /\ refs' \in [Conn -> Nat]
         /\ obj' \in [Conn -> {"none", "live", "freed"}]
         /\ obj'[c] # "none"
         /\ c \in open' => obj'[c] = "live"
         /\ \A x \in Conn \ {c} : UNCHANGED <<obj[x], refs[x]>>
<1>1. refs[c] \in Nat /\ refs[c] = Owners(c) /\ obj[c] = "live"
  BY RefsAreOwners DEF TypeOK, RefsOk
<1>2. refs' = [refs EXCEPT ![c] = refs[c] - 1]
      /\ obj' = [obj EXCEPT ![c] = IF refs[c] - 1 = 0 THEN "freed" ELSE obj[c]]
  BY DEF ReleaseTo
<1>3. refs'[c] = refs[c] - 1 /\ obj'[c] = (IF refs[c] - 1 = 0 THEN "freed" ELSE "live")
  BY <1>1, <1>2 DEF TypeOK
<1>4. refs' \in [Conn -> Nat] BY <1>1, <1>2 DEF TypeOK
<1>5. obj' \in [Conn -> {"none", "live", "freed"}] BY <1>2 DEF TypeOK
<1>6. obj'[c] = "live" <=> refs'[c] > 0 BY <1>1, <1>3
<1>7. c \in open' => obj'[c] = "live" BY <1>1, <1>3
<1>8. RefsOk(c)'
  <2>1. Engaged(c)' <=> c \in open' BY <1>7 DEF Engaged
  <2>2. One(Engaged(c))' = One(c \in open)' BY <2>1 DEF One
  <2>3. refs'[c] = Owners(c)' BY <1>1, <1>3
  <2>4. QED BY <1>6, <2>2, <2>3 DEF RefsOk, Owners
<1>9. \A x \in Conn \ {c} : UNCHANGED <<obj[x], refs[x]>> BY <1>2 DEF TypeOK
<1>10. obj'[c] # "none" BY <1>3
<1>11. QED BY <1>4, <1>5, <1>7, <1>8, <1>9, <1>10

(* Appending to short tuples, and the values the delegate's calls take.    *)
LEMMA AppendToOne == ASSUME NEW a, NEW b PROVE Append(<<a>>, b) = <<a, b>>
<1> DEFINE S == {a, b}
           p == Append(<<a>>, b)
           q == <<a, b>>
<1>1. <<a>> \in Seq(S) /\ b \in S /\ Len(<<a>>) = 1 /\ <<a>>[1] = a OBVIOUS
<1>2. q \in Seq(S) /\ Len(q) = 2 /\ q[1] = a /\ q[2] = b OBVIOUS
<1> HIDE DEF S
<1>3. p \in Seq(S) /\ Len(p) = 2 /\ p[1] = a /\ p[2] = b BY <1>1, AppendProperties
<1> HIDE DEF p, q
<1>4. \A i \in 1 .. 2 : p[i] = q[i] BY <1>2, <1>3
<1>5. p = q BY <1>2, <1>3, <1>4, SeqEqual
<1>6. QED BY <1>5 DEF p, q

LEMMA AppendToTwo == ASSUME NEW a, NEW b, NEW c PROVE Append(<<a, b>>, c) = <<a, b, c>>
<1> DEFINE S == {a, b, c}
           p == Append(<<a, b>>, c)
           q == <<a, b, c>>
<1>1. <<a, b>> \in Seq(S) /\ c \in S /\ Len(<<a, b>>) = 2 /\ <<a, b>>[1] = a /\ <<a, b>>[2] = b
  OBVIOUS
<1>2. q \in Seq(S) /\ Len(q) = 3 /\ q[1] = a /\ q[2] = b /\ q[3] = c OBVIOUS
<1> HIDE DEF S
<1>3. p \in Seq(S) /\ Len(p) = 3 /\ p[1] = a /\ p[2] = b /\ p[3] = c BY <1>1, AppendProperties
<1> HIDE DEF p, q
<1>4. \A i \in 1 .. 3 : p[i] = q[i] BY <1>2, <1>3
<1>5. p = q BY <1>2, <1>3, <1>4, SeqEqual
<1>6. QED BY <1>5 DEF p, q

LEMMA UpcallValues ==
  /\ Append(<<"new">>, "closed") = <<"new", "closed">>
  /\ Append(<<"new", "data">>, "closed") = <<"new", "data", "closed">>
  /\ Upcall(<<>>, "new") = <<"new">>
  /\ Upcall(<<"new">>, "data") = <<"new", "data">>
  /\ Upcall(<<"new", "data">>, "data") = <<"new", "data">>
  /\ \A s \in {<<"new">>, <<"new", "data">>, <<"new", "closed">>, <<"new", "data", "closed">>} :
       s \in Seq({"new", "data", "closed"})
<1>1. Append(<<"new">>, "closed") = <<"new", "closed">> BY AppendToOne
<1>2. Append(<<"new", "data">>, "closed") = <<"new", "data", "closed">> BY AppendToTwo
<1>3. Append(<<>>, "new") = <<"new">> OBVIOUS
<1>4. Append(<<"new">>, "data") = <<"new", "data">> BY AppendToOne
<1>5. Upcall(<<>>, "new") = <<"new">> BY <1>3 DEF Upcall
<1>6. Upcall(<<"new">>, "data") = <<"new", "data">> BY <1>4 DEF Upcall
<1>7. Upcall(<<"new", "data">>, "data") = <<"new", "data">> BY DEF Upcall
<1>8. \A s \in {<<"new">>, <<"new", "data">>, <<"new", "closed">>, <<"new", "data", "closed">>} :
       s \in Seq({"new", "data", "closed"})
  <2>1. <<"new">> \in Seq({"new", "data", "closed"}) OBVIOUS
  <2>2. <<"new", "data">> \in Seq({"new", "data", "closed"}) OBVIOUS
  <2>3. <<"new", "closed">> \in Seq({"new", "data", "closed"}) OBVIOUS
  <2>4. <<"new", "data", "closed">> \in Seq({"new", "data", "closed"}) OBVIOUS
  <2>5. QED BY <2>1, <2>2, <2>3, <2>4, Zenon
<1>9. QED BY <1>1, <1>2, <1>5, <1>6, <1>7, <1>8

(* Close of an open connection that was announced.                         *)
LEMMA CloseOk ==
  ASSUME IInv, NEW c \in Conn, c \in open, NEW seen \in {<<"new">>, <<"new", "data">>},
         Close(c, seen)
  PROVE  /\ obj' \in [Conn -> {"none", "live", "freed"}]
         /\ refs' \in [Conn -> Nat]
         /\ upcalls' \in [Conn -> Seq({"new", "data", "closed"})]
         /\ open' = open \ {c} /\ read_watch' \in SUBSET Conn /\ write_watch' \in SUBSET Conn
         /\ obj'[c] # "none"
         /\ \A x \in Conn : ConnOk(x)'
         /\ \A x \in Conn \ {c} : SameRefs(x) /\ SameSocket(x)
<1> USE DEF Close
<1>1. TypeOK /\ ConnOk(c) BY DEF IInv
<1>2. refs[c] > 0 /\ refs[c] \in Nat BY <1>1 DEF ConnOk, OpenOnly, RefsOk, TypeOK
<1>3. Holders(c)' = Holders(c) BY DEF Holders
<1>4. Owners(c)' = Owners(c) - 1 /\ Owners(c)' \in Nat
  <2>1. One(c \in open) = 1 /\ One(c \in open)' = 0 /\ One(c \in local)' = One(c \in local)
    BY DEF One
  <2>2. Cardinality(Holders(c)) \in Nat /\ One(c \in local) \in {0, 1} BY OwnersNat
  <2>3. Owners(c)' = 0 + One(c \in local) + Cardinality(Holders(c)) BY <1>3, <2>1 DEF Owners
  <2>4. Owners(c) = 1 + One(c \in local) + Cardinality(Holders(c)) BY <2>1 DEF Owners
  <2>5. QED BY <2>2, <2>3, <2>4
<1>5. c \notin open' OBVIOUS
<1>6. /\ RefsOk(c)' /\ refs' \in [Conn -> Nat] /\ obj' \in [Conn -> {"none", "live", "freed"}]
      /\ obj'[c] # "none" /\ \A x \in Conn \ {c} : UNCHANGED <<obj[x], refs[x]>>
  BY <1>1, <1>2, <1>4, <1>5, ReleaseOk DEF ConnOk
<1>7. Append(seen, "closed") \in {<<"new", "closed">>, <<"new", "data", "closed">>} BY UpcallValues
<1>8. upcalls'[c] = Append(seen, "closed") /\ \A x \in Conn \ {c} : upcalls'[x] = upcalls[x]
  BY <1>1 DEF TypeOK
<1>9. upcalls' \in [Conn -> Seq({"new", "data", "closed"})]
  <2>1. Append(seen, "closed") \in Seq({"new", "data", "closed"}) BY UpcallValues
  <2>2. QED BY <1>1, <2>1 DEF TypeOK
<1>10. \A x \in Conn \ {c} : SameRefs(x) /\ SameSocket(x) /\ SameBuffers(x)
  BY <1>6, <1>8 DEF SameRefs, SameSocket, SameBuffers
<1>11. ConnOk(c)'
  <2>1. UpcallsSoFar(c)' BY <1>7, <1>8 DEF UpcallsSoFar
  <2>2. OpenOnly(c)' /\ Watched(c)' BY <1>1 DEF ConnOk, OpenOnly, Watched
  <2>3. Unborn(c)' BY <1>6 DEF Unborn
  <2>4. Stream(c) => Stream(c)' BY DEF Stream, Whole, Beginning
  <2>5. QED BY <1>1, <1>6, <2>1, <2>2, <2>3, <2>4 DEF ConnOk
<1>12. ASSUME NEW x \in Conn PROVE ConnOk(x)'
  BY <1>10, <1>11, SameConn DEF IInv
<1>13. read_watch' \in SUBSET Conn /\ write_watch' \in SUBSET Conn BY <1>1 DEF TypeOK
<1>14. QED BY <1>6, <1>9, <1>10, <1>12, <1>13

(* The task queue: what a step must show of the tasks it leaves, adds or   *)
(* removes.                                                                *)
LEMMA SameTask ==
  ASSUME NEW k \in Task, TaskFits(k), SameRefs(k.conn), SameSocket(k.conn),
         careless \subseteq careless'
  PROVE  TaskFits(k)'
<1>1. Holders(k.conn)' = Holders(k.conn) BY SameHolders DEF SameRefs
<1>2. k.op = "SendInternal2" => k.by \in Thread BY DEF Task
<1>3. QED BY <1>1, <1>2 DEF TaskFits, Fresh, SameRefs, SameSocket

Posted(I) == {tasks[i] : i \in I}

LEMMA QueueKept ==
  ASSUME tasks' = tasks, \A k \in Posted(DOMAIN tasks) : TaskFits(k)', CreatedOnce
  PROVE  QueueOk'
<1>1. ASSUME NEW i \in DOMAIN tasks PROVE TaskFits(tasks[i])'
  <2>1. PICK k : k = tasks[i] OBVIOUS
  <2>2. TaskFits(k)' BY <2>1 DEF Posted
  <2>3. QED BY <2>1, <2>2
<1>2. QED BY <1>1 DEF QueueOk, CreatedOnce

LEMMA QueueTail ==
  ASSUME TypeOK, tasks # <<>>, tasks' = Tail(tasks),
         \A k \in Posted(DOMAIN tasks \ {1}) : TaskFits(k)', CreatedOnce
  PROVE  QueueOk' /\ tasks' \in Seq(Task)
<1>1. tasks \in Seq(Task) BY DEF TypeOK
<1>2. /\ tasks' \in Seq(Task) /\ Len(tasks') = Len(tasks) - 1 /\ Len(tasks) \in Nat
      /\ DOMAIN tasks = 1 .. Len(tasks) /\ DOMAIN tasks' = 1 .. Len(tasks')
      /\ \A i \in 1 .. Len(tasks') : tasks'[i] = tasks[i + 1]
  BY <1>1, HeadTailProperties, LenProperties
<1>3. \A i \in DOMAIN tasks' : i + 1 \in DOMAIN tasks \ {1} /\ tasks'[i] = tasks[i + 1] /\ i \in Int
  BY <1>2
<1>4. ASSUME NEW i \in DOMAIN tasks' PROVE TaskFits(tasks[i])'
  <2>1. PICK k : k = tasks'[i] OBVIOUS
  <2>2. k \in Posted(DOMAIN tasks \ {1}) BY <1>3, <2>1 DEF Posted
  <2>3. QED BY <2>1, <2>2
<1>5. CreatedOnce' BY <1>3 DEF CreatedOnce
<1>6. QED BY <1>2, <1>4, <1>5 DEF QueueOk

LEMMA QueueAppend ==
  ASSUME TypeOK, NEW k \in Task, tasks' = Append(tasks, k), TaskFits(k)',
         \A j \in Posted(DOMAIN tasks) : TaskFits(j)', CreatedOnce,
         \A i \in DOMAIN tasks : ~(tasks[i].op = "OnCreated" /\ tasks[i].conn = k.conn),
         k.op = "OnCreated" => \A i \in DOMAIN tasks : tasks[i].conn # k.conn
  PROVE  QueueOk' /\ tasks' \in Seq(Task)
<1>1. tasks \in Seq(Task) BY DEF TypeOK
<1>2. /\ tasks' \in Seq(Task) /\ Len(tasks') = Len(tasks) + 1 /\ Len(tasks) \in Nat
      /\ DOMAIN tasks = 1 .. Len(tasks) /\ DOMAIN tasks' = 1 .. Len(tasks')
      /\ (\A i \in 1 .. Len(tasks) : tasks'[i] = tasks[i]) /\ tasks'[Len(tasks) + 1] = k
  BY <1>1, AppendProperties, LenProperties
<1>3. \A i \in DOMAIN tasks' :
        \/ i \in DOMAIN tasks /\ tasks'[i] = tasks[i]
        \/ i = Len(tasks) + 1 /\ tasks'[i] = k
  <2>1. TAKE i \in DOMAIN tasks'
  <2>2. i \in 1 .. Len(tasks) \/ i = Len(tasks) + 1 BY <1>2
  <2>3. CASE i = Len(tasks) + 1 BY <1>2, <2>3
  <2>4. CASE i \in 1 .. Len(tasks)
    <3>1. i \in DOMAIN tasks /\ tasks'[i] = tasks[i] BY <1>2, <2>4, Zenon
    <3>2. QED BY <3>1
  <2>5. QED BY <2>2, <2>3, <2>4
<1>4. ASSUME NEW i \in DOMAIN tasks' PROVE TaskFits(tasks[i])'
  <2>1. PICK j : j = tasks'[i] OBVIOUS
  <2>2. j \in Posted(DOMAIN tasks) \/ j = k BY <1>3, <2>1 DEF Posted
  <2>3. TaskFits(j)' BY <2>2
  <2>4. QED BY <2>1, <2>3
<1>5. CreatedOnce' BY <1>3 DEF CreatedOnce
<1>6. QED BY <1>2, <1>4, <1>5 DEF QueueOk

-----------------------------------------------------------------------------
(* One lemma per action.                                                   *)

LEMMA CreateStep == ASSUME IInv, NEW c \in Conn, Create(c) PROVE IInv'
<1> DEFINE k == [op |-> "OnCreated", conn |-> c]
<1>1. TypeOK /\ ConnOk(c) /\ QueueOk BY DEF IInv
<1>2. /\ obj[c] = "none" /\ obj' = [obj EXCEPT ![c] = "live"]
      /\ refs' = [refs EXCEPT ![c] = refs[c] + 2]
      /\ local' = local \cup {c} /\ open' = open \cup {c} /\ tasks' = Append(tasks, k)
      /\ UNCHANGED <<holds, read_watch, write_watch, writing, write_buf, budget, accepted, wire,
                     upcalls, spoilt, careless, dangling>>
  BY DEF Create, AddRefs, history, misuse
<1>3. refs[c] \in Nat /\ ~(refs[c] > 0) /\ refs[c] = Owners(c)
  BY <1>1, <1>2, RefsAreOwners DEF ConnOk, RefsOk, TypeOK
<1>4. One(c \in local) = 0 /\ One(c \in open) = 0 /\ Cardinality(Holders(c)) = 0 /\ refs[c] = 0
  BY <1>3, OwnersNat DEF Owners
<1>5. Holders(c) = {} /\ Holders(c)' = Holders(c)
  BY <1>2, <1>4, HoldersFinite, FS_EmptySet, SameHolders
<1>6. c \notin open BY <1>1, <1>2 DEF ConnOk, OpenOnly
<1>7. ConnOk(c)'
  <2>1. obj'[c] = "live" /\ refs'[c] = 2 /\ c \in open' /\ c \in local'
    BY <1>1, <1>2, <1>4 DEF TypeOK
  <2>2. RefsOk(c)'
    <3>1. One(Engaged(c))' = 1 /\ One(c \in local)' = 1 BY <2>1 DEF One, Engaged
    <3>2. QED BY <1>4, <1>5, <2>1, <3>1 DEF RefsOk
  <2>3. /\ write_buf'[c] = <<>> /\ accepted'[c] = <<>> /\ wire'[c] = <<>> /\ upcalls'[c] = <<>>
        /\ c \notin writing' /\ c \notin write_watch' /\ c \notin read_watch'
        /\ c \notin spoilt'
    BY <1>1, <1>2, <1>6 DEF ConnOk, Unborn, OpenOnly
  <2>4. Unborn(c)' /\ UpcallsSoFar(c)' /\ OpenOnly(c)' /\ Watched(c)'
    BY <2>1, <2>3 DEF Unborn, UpcallsSoFar, OpenOnly, Watched
  <2>5. Stream(c)'
    <3>1. <<>> \o <<>> = <<>> OBVIOUS
    <3>2. SubSeq(<<>>, 1, Len(<<>>)) = <<>> /\ Len(<<>>) = 0 OBVIOUS
    <3>3. QED BY <2>3, <3>1, <3>2 DEF Stream, Whole, Beginning, Begins
  <2>6. QED BY <2>2, <2>4, <2>5 DEF ConnOk
<1>8. ASSUME NEW x \in Conn \ {c} PROVE SameRefs(x) /\ SameSocket(x) /\ SameBuffers(x)
  BY <1>1, <1>2 DEF SameRefs, SameSocket, SameBuffers, TypeOK
<1>9. ASSUME NEW x \in Conn PROVE ConnOk(x)' BY <1>7, <1>8, SameConn DEF IInv
<1>10. QueueOk' /\ tasks' \in Seq(Task)
  <2>1. k \in Task BY DEF Task
  <2>2. \A i \in DOMAIN tasks : tasks[i] \in Task /\ tasks[i].conn \in Conn
    <3>1. \A i \in DOMAIN tasks : tasks[i] \in Task BY <1>1, LenProperties, ElementOfSeq DEF TypeOK
    <3>2. QED BY <3>1 DEF Task
  <2>3. \A i \in DOMAIN tasks : tasks[i].conn # c BY <1>1, <1>2 DEF QueueOk, TaskFits
  <2>4. ASSUME NEW j \in Posted(DOMAIN tasks) PROVE TaskFits(j)'
    <3>1. j \in Task /\ j.conn \in Conn \ {c} /\ TaskFits(j)
      BY <1>1, <2>2, <2>3 DEF Posted, QueueOk
    <3>2. QED BY <1>2, <1>8, <3>1, SameTask
  <2>5. TaskFits(k)'
    <3>1. k.op = "OnCreated" /\ k.conn = c OBVIOUS
    <3>2. c \in open' /\ upcalls'[c] = <<>> /\ c \notin read_watch' /\ obj'[c] # "none"
      BY <1>1, <1>2, <1>6 DEF ConnOk, Unborn, OpenOnly, TypeOK
    <3>3. QED BY <1>5, <3>1, <3>2 DEF TaskFits, Fresh
  <2>6. CreatedOnce BY <1>1 DEF QueueOk
  <2>7. k.conn = c OBVIOUS
  <2>8. tasks' = Append(tasks, k) BY <1>2
  <2> HIDE DEF k
  <2>9. QED BY <1>1, <2>1, <2>3, <2>4, <2>5, <2>6, <2>7, <2>8, QueueAppend
<1>11. TypeOK'
  <2>1. /\ obj' \in [Conn -> {"none", "live", "freed"}] /\ refs' \in [Conn -> Nat]
        /\ local' \in SUBSET Conn /\ open' \in SUBSET Conn
    BY <1>1, <1>2 DEF TypeOK
  <2>2. QED BY <1>1, <1>2, <1>10, <2>1 DEF TypeOK
<1>12. QED BY <1>2, <1>9, <1>10, <1>11 DEF IInv

(* A posted task finds its connection as the invariant says.               *)
LEMMA PostedOk ==
  ASSUME IInv, NEW j \in Posted(DOMAIN tasks)
  PROVE  j \in Task /\ j.conn \in Conn /\ TaskFits(j)
<1>1. TypeOK /\ QueueOk BY DEF IInv
<1>2. PICK i \in DOMAIN tasks : j = tasks[i] BY DEF Posted
<1>3. j \in Task BY <1>1, <1>2, LenProperties, ElementOfSeq DEF TypeOK
<1>4. QED BY <1>1, <1>2, <1>3 DEF QueueOk, Task

(* What DropLocal and DropRef have in common: the socket of the object     *)
(* stays as it is, because the engine's reference is there while it is     *)
(* open.                                                                   *)
LEMMA LetGoOk ==
  ASSUME IInv, NEW c \in Conn, refs[c] > 0, ReleaseTo(c, refs[c] - 1),
         Cardinality(Holders(c))' + One(c \in local)'
                 = Cardinality(Holders(c)) + One(c \in local) - 1,
         open' = IF refs[c] = 1 THEN open \ {c} ELSE open,
         \A x \in Conn \ {c} : /\ x \in local' <=> x \in local
                               /\ \A t \in Thread : x \in holds'[t] <=> x \in holds[t],
         UNCHANGED <<read_watch, write_watch, writing, write_buf, tasks, budget, accepted, wire,
                     upcalls, spoilt>>
  PROVE  /\ open' = open
         /\ refs' \in [Conn -> Nat]
         /\ obj' \in [Conn -> {"none", "live", "freed"}]
         /\ \A x \in Conn : ConnOk(x)'
         /\ obj'[c] # "none"
         /\ \A x \in Conn \ {c} : SameRefs(x) /\ SameSocket(x)
<1>1. TypeOK /\ ConnOk(c) BY DEF IInv
<1>2. refs[c] \in Nat /\ refs[c] = Owners(c) BY <1>1, RefsAreOwners DEF ConnOk, TypeOK
<1>3. /\ Cardinality(Holders(c)) \in Nat /\ One(c \in open) \in {0, 1}
      /\ One(c \in local) \in {0, 1}
      /\ Cardinality(Holders(c))' \in Nat /\ One(c \in local)' \in {0, 1}
  <2>1. Cardinality(Holders(c))' \in Nat
    <3>1. Holders(c)' \in SUBSET Thread BY DEF Holders
    <3>2. QED BY <3>1, FS_Subset, FS_CardinalityType, IOHandlerAssumption
  <2>2. QED BY <2>1, OwnersNat DEF One
<1>4. open' = open
  <2>1. CASE refs[c] = 1
    <3>1. One(c \in open) = 0 BY <1>2, <1>3, <2>1 DEF Owners
    <3>2. c \notin open BY <3>1 DEF One
    <3>3. QED BY <2>1, <3>2
  <2>2. QED BY <2>1
<1>5. Owners(c)' = Owners(c) - 1 /\ Owners(c)' \in Nat /\ (c \in open' => Owners(c)' > 0)
  <2>1. One(c \in open)' = One(c \in open) BY <1>4 DEF One
  <2>2. c \in open => One(c \in open) = 1 BY DEF One
  <2>3. Owners(c)' = One(c \in open) + One(c \in local)' + Cardinality(Holders(c))'
    BY <2>1 DEF Owners
  <2>4. Owners(c) = One(c \in open) + One(c \in local) + Cardinality(Holders(c)) BY DEF Owners
  <2>5. QED BY <1>3, <1>4, <2>2, <2>3, <2>4
<1>6. /\ RefsOk(c)' /\ refs' \in [Conn -> Nat] /\ obj' \in [Conn -> {"none", "live", "freed"}]
      /\ obj'[c] # "none" /\ (c \in open' => obj'[c] = "live")
      /\ \A x \in Conn \ {c} : UNCHANGED <<obj[x], refs[x]>>
  BY <1>1, <1>4, <1>5, ReleaseOk DEF ConnOk
<1>7. ConnOk(c)'
  <2>1. Unborn(c)' /\ UpcallsSoFar(c)' /\ OpenOnly(c)' /\ Watched(c)'
    BY <1>1, <1>4, <1>6 DEF ConnOk, Unborn, UpcallsSoFar, OpenOnly, Watched
  <2>2. Stream(c) => Stream(c)' BY <1>4 DEF Stream, Whole, Beginning
  <2>3. QED BY <1>1, <1>6, <2>1, <2>2 DEF ConnOk
<1>8. \A x \in Conn \ {c} : SameRefs(x) /\ SameSocket(x) /\ SameBuffers(x)
  BY <1>4, <1>6 DEF SameRefs, SameSocket, SameBuffers
<1>9. ASSUME NEW x \in Conn PROVE ConnOk(x)' BY <1>7, <1>8, SameConn DEF IInv
<1>10. QED BY <1>4, <1>6, <1>8, <1>9

LEMMA DropLocalStep == ASSUME IInv, NEW c \in Conn, DropLocal(c) PROVE IInv'
<1>1. TypeOK /\ ConnOk(c) /\ QueueOk BY DEF IInv
<1>2. /\ c \in local /\ local' = local \ {c} /\ ReleaseTo(c, refs[c] - 1)
      /\ open' = (IF refs[c] = 1 THEN open \ {c} ELSE open)
      /\ UNCHANGED <<holds, read_watch, write_watch, writing, write_buf, tasks, budget,
                     accepted, wire, upcalls, spoilt, careless, dangling>>
  BY DEF DropLocal, history, misuse
<1>3. Holders(c)' = Holders(c) BY <1>2 DEF Holders
<1>4. One(c \in local) = 1 /\ One(c \in local)' = 0 BY <1>2 DEF One
<1>5. Cardinality(Holders(c)) \in Nat /\ One(c \in open) \in {0, 1} BY OwnersNat
<1>6. refs[c] > 0 BY <1>1, <1>4, <1>5, RefsAreOwners DEF ConnOk, Owners
<1>7. Cardinality(Holders(c))' + One(c \in local)' = Cardinality(Holders(c)) + One(c \in local) - 1
  BY <1>3, <1>4, <1>5
<1>8. /\ open' = open /\ refs' \in [Conn -> Nat] /\ obj' \in [Conn -> {"none", "live", "freed"}]
      /\ (\A x \in Conn : ConnOk(x)') /\ obj'[c] # "none"
      /\ \A x \in Conn \ {c} : SameRefs(x) /\ SameSocket(x)
  BY <1>2, <1>6, <1>7, LetGoOk
<1>9. TypeOK' BY <1>1, <1>2, <1>8 DEF TypeOK
<1>10. ASSUME NEW k \in Posted(DOMAIN tasks) PROVE TaskFits(k)'
  <2>1. k \in Task /\ k.conn \in Conn /\ TaskFits(k) BY PostedOk
  <2>2. CASE k.conn = c BY <1>2, <1>3, <1>8, <2>1, <2>2 DEF TaskFits, Fresh
  <2>3. CASE k.conn # c BY <1>2, <1>8, <2>1, <2>3, SameTask
  <2>4. QED BY <2>2, <2>3
<1>11. QueueOk' BY <1>1, <1>2, <1>10, QueueKept DEF QueueOk
<1>12. QED BY <1>2, <1>8, <1>9, <1>11 DEF IInv

LEMMA DropRefStep == ASSUME IInv, NEW t \in Thread, NEW c \in Conn, DropRef(t, c) PROVE IInv'
<1>1. TypeOK /\ ConnOk(c) /\ QueueOk BY DEF IInv
<1>2. /\ c \in holds[t] /\ holds' = [holds EXCEPT ![t] = holds[t] \ {c}]
      /\ ReleaseTo(c, refs[c] - 1)
      /\ open' = (IF refs[c] = 1 THEN open \ {c} ELSE open)
      /\ UNCHANGED <<local, read_watch, write_watch, writing, write_buf, tasks, budget,
                     accepted, wire, upcalls, spoilt, dangling>>
      /\ careless' = IF Awaited(t, c) THEN careless \cup {<<t, c>>} ELSE careless
  BY DEF DropRef, history
<1>3. Holders(c)' = Holders(c) \ {t} /\ t \in Holders(c) BY <1>1, <1>2 DEF Holders, TypeOK
<1>4. Cardinality(Holders(c))' = Cardinality(Holders(c)) - 1
  BY <1>3, HoldersFinite, FS_RemoveElement
<1>5. /\ Cardinality(Holders(c)) \in Nat /\ One(c \in open) \in {0, 1}
      /\ One(c \in local) \in {0, 1}
      /\ One(c \in local)' = One(c \in local)
  BY <1>2, OwnersNat
<1>6. Cardinality(Holders(c)) > 0 BY <1>3, <1>5, HoldersFinite, FS_EmptySet
<1>7. refs[c] > 0 BY <1>1, <1>5, <1>6, RefsAreOwners DEF ConnOk, Owners
<1>8. Cardinality(Holders(c))' + One(c \in local)' = Cardinality(Holders(c)) + One(c \in local) - 1
  BY <1>4, <1>5
<1>9. \A x \in Conn \ {c} : \A u \in Thread : x \in holds'[u] <=> x \in holds[u]
  BY <1>1, <1>2 DEF TypeOK
<1>10. /\ open' = open /\ refs' \in [Conn -> Nat] /\ obj' \in [Conn -> {"none", "live", "freed"}]
       /\ (\A x \in Conn : ConnOk(x)') /\ obj'[c] # "none"
       /\ \A x \in Conn \ {c} : SameRefs(x) /\ SameSocket(x)
  BY <1>2, <1>7, <1>8, <1>9, LetGoOk
<1>11. TypeOK'
  <2>1. careless' \in SUBSET (Thread \X Conn) BY <1>1, <1>2 DEF TypeOK
  <2>2. QED BY <1>1, <1>2, <1>10, <2>1 DEF TypeOK
<1>12. ASSUME NEW k \in Posted(DOMAIN tasks) PROVE TaskFits(k)'
  <2>1. k \in Task /\ k.conn \in Conn /\ TaskFits(k) BY PostedOk
  <2>2. CASE k.conn = c
    <3>1. k.op # "OnCreated" BY <1>3, <2>1, <2>2 DEF TaskFits, Fresh
    <3>2. ASSUME k.op = "SendInternal2" PROVE c \in holds'[k.by] \/ <<k.by, c>> \in careless'
      <4>1. k.by \in Thread BY <2>1, <3>2 DEF Task
      <4>2. CASE k.by = t
        <5>1. Awaited(t, c) BY <2>2, <3>2, <4>2 DEF Awaited, Posted
        <5>2. QED BY <1>2, <4>2, <5>1
      <4>3. CASE k.by # t
        <5>1. c \in holds[k.by] \/ <<k.by, c>> \in careless BY <2>1, <2>2, <3>2 DEF TaskFits
        <5>2. QED BY <1>1, <1>2, <4>1, <4>3, <5>1 DEF TypeOK
      <4>4. QED BY <4>2, <4>3
    <3>3. QED BY <1>10, <2>2, <3>1, <3>2 DEF TaskFits
  <2>3. CASE k.conn # c BY <1>2, <1>10, <2>1, <2>3, SameTask
  <2>4. QED BY <2>2, <2>3
<1>13. QueueOk' BY <1>1, <1>2, <1>12, QueueKept DEF QueueOk
<1>14. QED BY <1>2, <1>10, <1>11, <1>13 DEF IInv

(* An object somebody holds lives, and its OnCreated has run.              *)
LEMMA HeldIsLive ==
  ASSUME IInv, NEW t \in Thread, NEW c \in Conn, c \in holds[t]
  PROVE  obj[c] = "live" /\ Holders(c) # {}
<1>1. ConnOk(c) /\ t \in Holders(c) BY DEF IInv, Holders
<1>2. Cardinality(Holders(c)) > 0 BY <1>1, HoldersFinite, FS_EmptySet
<1>3. refs[c] > 0 BY <1>1, <1>2, OwnersNat, RefsAreOwners DEF ConnOk, Owners
<1>4. QED BY <1>1, <1>3 DEF ConnOk, RefsOk

LEMMA SendDataStep ==
  ASSUME IInv, NEW t \in Thread, NEW c \in Conn, NEW d \in Payload, SendData(t, c, d)
  PROVE  IInv'
<1> DEFINE k == [op |-> "SendInternal2", conn |-> c, by |-> t, data |-> d]
<1>1. TypeOK /\ QueueOk BY DEF IInv
<1>2. /\ c \in holds[t] /\ budget > 0 /\ budget' = budget - 1 /\ tasks' = Append(tasks, k)
      /\ UNCHANGED <<obj, refs, local, holds, open, read_watch, write_watch, writing, write_buf,
                     accepted, wire, upcalls, spoilt, careless, dangling>>
  BY DEF SendData, refVars, socketVars, history, misuse
<1>3. obj[c] = "live" /\ Holders(c) # {} BY <1>2, HeldIsLive
<1>4. ASSUME NEW x \in Conn PROVE SameRefs(x) /\ SameSocket(x) /\ SameBuffers(x)
  BY <1>2 DEF SameRefs, SameSocket, SameBuffers
<1>5. ASSUME NEW x \in Conn PROVE ConnOk(x)' BY <1>4, SameConn DEF IInv
<1>6. k \in Task /\ k.op = "SendInternal2" /\ k.conn = c /\ k.by = t BY DEF Task
<1> HIDE DEF k
<1>7. ASSUME NEW j \in Posted(DOMAIN tasks) PROVE TaskFits(j)'
  BY <1>2, <1>4, PostedOk, SameTask
<1>8. TaskFits(k)' BY <1>2, <1>3, <1>6 DEF TaskFits
<1>9. \A i \in DOMAIN tasks : ~(tasks[i].op = "OnCreated" /\ tasks[i].conn = k.conn)
  BY <1>1, <1>3, <1>6 DEF QueueOk, TaskFits, Fresh
<1>10. QueueOk' /\ tasks' \in Seq(Task)
  BY <1>1, <1>2, <1>6, <1>7, <1>8, <1>9, QueueAppend DEF QueueOk
<1>11. budget' \in 0 .. MaxSends BY <1>1, <1>2, IOHandlerAssumption DEF TypeOK
<1>12. TypeOK' BY <1>1, <1>2, <1>10, <1>11 DEF TypeOK
<1>13. QED BY <1>2, <1>5, <1>10, <1>12 DEF IInv

(* A connection that only sent.                                            *)
LEMMA BuffersOk ==
  ASSUME NEW c \in Conn, ConnOk(c), SendKeeps(c), obj[c] # "none", RefsOk(c)',
         UpcallsSoFar(c)', UNCHANGED <<obj, open>>, c \in read_watch' => c \in open
  PROVE  ConnOk(c)'
<1>1. Unborn(c)' BY DEF Unborn
<1>2. OpenOnly(c)' BY DEF OpenOnly, ConnOk, SendKeeps
<1>3. Watched(c)' /\ Stream(c)' BY DEF ConnOk, SendKeeps
<1>4. QED BY <1>1, <1>2, <1>3 DEF ConnOk

(* What OnCreated and ReadData have in common: the callback accepted,      *)
(* replied and handed out the pointer.                                     *)
LEMMA ServeOk ==
  ASSUME IInv, NEW c \in Conn, c \in open, NEW seen \in {<<"new">>, <<"new", "data">>},
         upcalls' = [upcalls EXCEPT ![c] = seen], read_watch' = read_watch \cup {c},
         NEW to \in SUBSET Thread, HandOut(c, to), AddRefs(c, Cardinality(Newcomers(c, to))),
         Reply(c), UNCHANGED <<obj, local, open, careless, dangling>>, tasks' \in Seq(Task)
  PROVE  /\ TypeOK'
         /\ \A x \in Conn : ConnOk(x)'
         /\ \A x \in Conn \ {c} : SameRefs(x) /\ SameSocket(x)
         /\ \A t \in Thread : holds[t] \subseteq holds'[t]
<1>1. TypeOK /\ ConnOk(c) /\ obj[c] = "live" BY DEF IInv, ConnOk, OpenOnly
<1>2. /\ RefsOk(c)' /\ refs' \in [Conn -> Nat] /\ holds' \in [Thread -> SUBSET Conn]
      /\ \A x \in Conn \ {c} : SameRefs(x)
      /\ \A t \in Thread : holds[t] \subseteq holds'[t]
  BY <1>1, HandOutOk DEF ConnOk
<1>3. SendKeeps(c) /\ budget' \in 0 .. MaxSends BY <1>1, ReplyOk DEF ConnOk
<1>4. upcalls'[c] = seen /\ \A x \in Conn \ {c} : upcalls'[x] = upcalls[x] BY <1>1 DEF TypeOK
<1>5. upcalls' \in [Conn -> Seq({"new", "data", "closed"})]
  <2>1. seen \in Seq({"new", "data", "closed"}) BY UpcallValues
  <2>2. QED BY <1>1, <2>1 DEF TypeOK
<1>6. UpcallsSoFar(c)' BY <1>4 DEF UpcallsSoFar
<1>7. ConnOk(c)' BY <1>1, <1>2, <1>3, <1>6, BuffersOk
<1>8. \A x \in Conn \ {c} : SameSocket(x) BY <1>4 DEF SameSocket
<1>9. \A x \in Conn \ {c} : SameBuffers(x) BY <1>3 DEF SendKeeps
<1>10. ASSUME NEW x \in Conn PROVE ConnOk(x)' BY <1>2, <1>7, <1>8, <1>9, SameConn DEF IInv
<1>11. TypeOK'
  <2>1. BufferTypes' BY <1>3 DEF SendKeeps
  <2>2. QED BY <1>1, <1>2, <1>3, <1>5, <2>1 DEF TypeOK, BufferTypes, Cell
<1>12. QED BY <1>2, <1>8, <1>10, <1>11

(* The first task, and those behind it.                                    *)
LEMMA FirstTask ==
  ASSUME IInv, tasks # <<>>, tasks' = Tail(tasks)
  PROVE  /\ Head(tasks) \in Task /\ Head(tasks).conn \in Conn /\ TaskFits(Head(tasks))
         /\ tasks' \in Seq(Task)
         /\ \A k \in Posted(DOMAIN tasks \ {1}) :
              /\ k \in Posted(DOMAIN tasks)
              /\ Head(tasks).op = "OnCreated" => k.conn # Head(tasks).conn
<1>1. tasks \in Seq(Task) /\ QueueOk BY DEF IInv, TypeOK
<1>2. Head(tasks) = tasks[1] /\ 1 \in DOMAIN tasks /\ Tail(tasks) \in Seq(Task)
  <2>1. Len(tasks) \in Nat /\ Len(tasks) # 0 /\ DOMAIN tasks = 1 .. Len(tasks)
    BY <1>1, EmptySeq, LenProperties
  <2>2. QED BY <1>1, <2>1, HeadTailProperties
<1>3. Head(tasks) \in Posted(DOMAIN tasks) BY <1>2 DEF Posted
<1>4. Head(tasks) \in Task /\ Head(tasks).conn \in Conn /\ TaskFits(Head(tasks)) BY <1>3, PostedOk
<1>5. ASSUME NEW k \in Posted(DOMAIN tasks \ {1})
      PROVE  /\ k \in Posted(DOMAIN tasks)
             /\ Head(tasks).op = "OnCreated" => k.conn # Head(tasks).conn
  <2>1. PICK i \in DOMAIN tasks \ {1} : k = tasks[i] BY DEF Posted
  <2>2. QED BY <1>1, <1>2, <2>1 DEF Posted, QueueOk, CreatedOnce
<1>6. QED BY <1>2, <1>4, <1>5

LEMMA RunOnCreatedStep == ASSUME IInv, RunOnCreated PROVE IInv'
<1>1. PICK c : c = Head(tasks).conn OBVIOUS
<1>2. TypeOK /\ QueueOk BY DEF IInv
<1>3. tasks # <<>> /\ Head(tasks).op = "OnCreated" /\ tasks' = Tail(tasks) /\ OnCreated(c)
  BY <1>1 DEF RunOnCreated
<1>4. /\ c \in Conn /\ TaskFits(Head(tasks)) /\ tasks' \in Seq(Task)
      /\ \A k \in Posted(DOMAIN tasks \ {1}) : k \in Posted(DOMAIN tasks) /\ k.conn # c
  BY <1>1, <1>3, FirstTask
<1>5. c \in open /\ upcalls[c] = <<>> /\ Upcall(upcalls[c], "new") = <<"new">>
  BY <1>1, <1>3, <1>4, UpcallValues DEF TaskFits, Fresh
<1>6. ASSUME \A x \in Conn \ {c} : SameRefs(x) /\ SameSocket(x), careless \subseteq careless'
      PROVE  QueueOk'
  <2>1. ASSUME NEW k \in Posted(DOMAIN tasks \ {1}) PROVE TaskFits(k)'
    BY <1>4, <1>6, PostedOk, SameTask
  <2>2. QED BY <1>2, <1>3, <2>1, QueueTail DEF QueueOk
<1>7. CASE \E to \in SUBSET Thread :
             /\ HandOut(c, to)
             /\ AddRefs(c, Cardinality(Newcomers(c, to)))
             /\ read_watch' = read_watch \cup {c}
             /\ upcalls' = [upcalls EXCEPT ![c] = <<"new">>]
             /\ Reply(c)
             /\ UNCHANGED <<obj, local, open, careless, dangling>>
  <2>1. /\ TypeOK' /\ (\A x \in Conn : ConnOk(x)')
        /\ \A x \in Conn \ {c} : SameRefs(x) /\ SameSocket(x)
    BY <1>4, <1>5, <1>7, ServeOk
  <2>2. QED BY <1>6, <1>7, <2>1 DEF IInv
<1>8. CASE Close(c, <<"new">>) /\ UNCHANGED <<budget, careless, dangling>>
  <2>1. /\ obj' \in [Conn -> {"none", "live", "freed"}] /\ refs' \in [Conn -> Nat]
        /\ upcalls' \in [Conn -> Seq({"new", "data", "closed"})]
        /\ open' = open \ {c} /\ read_watch' \in SUBSET Conn /\ write_watch' \in SUBSET Conn
        /\ \A x \in Conn : ConnOk(x)'
        /\ \A x \in Conn \ {c} : SameRefs(x) /\ SameSocket(x)
    BY <1>4, <1>5, <1>8, CloseOk
  <2>2. TypeOK' BY <1>2, <1>4, <1>8, <2>1 DEF TypeOK, Close
  <2>3. QED BY <1>6, <1>8, <2>1, <2>2 DEF IInv
<1>9. QED BY <1>3, <1>5, <1>7, <1>8 DEF OnCreated, misuse

LEMMA RunSendInternal2Step == ASSUME IInv, RunSendInternal2 PROVE IInv'
<1>1. TypeOK /\ QueueOk BY DEF IInv
<1>2. PICK c, d : c = Head(tasks).conn /\ d = Head(tasks).data OBVIOUS
<1>3. /\ tasks # <<>> /\ Head(tasks).op = "SendInternal2" /\ tasks' = Tail(tasks)
      /\ obj[c] = "freed" => /\ dangling' = dangling \cup {<<Head(tasks).by, c>>}
                             /\ UNCHANGED <<obj, refs, local, holds, open, read_watch, write_watch,
                                            writing, write_buf, budget, accepted, wire, upcalls,
                                            spoilt>>
      /\ obj[c] # "freed" => /\ \E n \in SendResults(c, d) : SendInternal(c, d, n)
                             /\ UNCHANGED <<obj, refs, local, holds, open, read_watch, budget,
                                            upcalls, dangling>>
      /\ careless' = careless
  BY <1>2 DEF RunSendInternal2, refVars, socketVars, history, misuse
<1>4. /\ Head(tasks) \in Task /\ c \in Conn /\ TaskFits(Head(tasks)) /\ tasks' \in Seq(Task)
      /\ \A k \in Posted(DOMAIN tasks \ {1}) : k \in Posted(DOMAIN tasks)
  BY <1>2, <1>3, FirstTask
<1>5. d \in Payload /\ Head(tasks).by \in Thread BY <1>2, <1>3, <1>4 DEF Task
<1>6. obj[c] = "live" \/ <<Head(tasks).by, c>> \in careless
  BY <1>2, <1>3, <1>4, <1>5, HeldIsLive DEF TaskFits
<1>7. obj[c] # "none" BY <1>2, <1>4 DEF TaskFits
<1>8. ASSUME \A x \in Conn : SameRefs(x) /\ SameSocket(x) PROVE QueueOk'
  <2>1. ASSUME NEW k \in Posted(DOMAIN tasks \ {1}) PROVE TaskFits(k)'
    BY <1>3, <1>4, <1>8, PostedOk, SameTask
  <2>2. QED BY <1>1, <1>3, <2>1, QueueTail DEF QueueOk
<1>9. CASE obj[c] = "freed"
  <2>1. \A x \in Conn : SameRefs(x) /\ SameSocket(x) /\ SameBuffers(x)
    BY <1>3, <1>9 DEF SameRefs, SameSocket, SameBuffers
  <2>2. ASSUME NEW x \in Conn PROVE ConnOk(x)' BY <2>1, SameConn DEF IInv
  <2>3. dangling' \subseteq careless' BY <1>3, <1>6, <1>9 DEF IInv
  <2>4. TypeOK'
    <3>1. dangling' \in SUBSET (Thread \X Conn) BY <1>1, <1>3, <1>4, <1>5, <1>9 DEF TypeOK
    <3>2. QED BY <1>1, <1>3, <1>4, <1>9, <3>1 DEF TypeOK
  <2>5. QED BY <1>8, <2>1, <2>2, <2>3, <2>4 DEF IInv
<1>10. CASE obj[c] # "freed"
  <2>1. \A x \in Conn : SameRefs(x) /\ SameSocket(x) BY <1>3, <1>10 DEF SameRefs, SameSocket
  <2>2. SendKeeps(c)
    <3>1. BufferTypes /\ Watched(c) BY <1>1, <1>4, TypesOfBuffers DEF IInv, ConnOk
    <3>2. QED BY <1>3, <1>4, <1>5, <1>10, <3>1, SendOk
  <2>3. ConnOk(c)'
    <3>1. ConnOk(c) BY <1>4 DEF IInv
    <3>2. RefsOk(c)' BY <1>4, <2>1, <3>1, SameRefsOk DEF ConnOk, SameSocket
    <3>3. UpcallsSoFar(c)' BY <1>3, <1>10, <3>1 DEF ConnOk, UpcallsSoFar
    <3>4. c \in read_watch' => c \in open BY <1>3, <1>10, <3>1 DEF ConnOk, OpenOnly
    <3>5. QED BY <1>3, <1>4, <1>7, <1>10, <2>2, <3>1, <3>2, <3>3, <3>4, BuffersOk
  <2>4. \A x \in Conn \ {c} : SameBuffers(x) BY <2>2 DEF SendKeeps
  <2>5. ASSUME NEW x \in Conn PROVE ConnOk(x)' BY <2>1, <2>3, <2>4, SameConn DEF IInv
  <2>6. BufferTypes' BY <2>2 DEF SendKeeps
  <2>7. TypeOK' BY <1>1, <1>3, <1>4, <1>10, <2>6 DEF TypeOK, BufferTypes, Cell
  <2>8. QED BY <1>3, <1>8, <1>10, <2>1, <2>5, <2>7 DEF IInv
<1>11. QED BY <1>9, <1>10

LEMMA ReadDataStep == ASSUME IInv, NEW c \in Conn, ReadData(c) PROVE IInv'
<1>1. TypeOK /\ QueueOk /\ ConnOk(c) BY DEF IInv
<1>2. c \in read_watch /\ c \in open /\ upcalls[c] \in {<<"new">>, <<"new", "data">>}
  BY <1>1 DEF ReadData, ConnOk, OpenOnly, UpcallsSoFar
<1>3. PICK to \in SUBSET Thread :
        HandOut(c, to) /\ AddRefs(c, Cardinality(Newcomers(c, to)))
  BY DEF ReadData
<1>4. /\ upcalls' = [upcalls EXCEPT ![c] = Upcall(upcalls[c], "data")] /\ Reply(c)
      /\ UNCHANGED <<obj, local, open, read_watch, tasks, careless, dangling>>
  BY DEF ReadData, misuse
<1>5. Upcall(upcalls[c], "data") \in {<<"new">>, <<"new", "data">>} BY <1>2, UpcallValues
<1>6. read_watch' = read_watch \cup {c} BY <1>2, <1>4
<1>7. tasks' \in Seq(Task) BY <1>1, <1>4 DEF TypeOK
<1>8. /\ TypeOK' /\ (\A x \in Conn : ConnOk(x)')
      /\ \A x \in Conn \ {c} : SameRefs(x) /\ SameSocket(x)
      /\ \A t \in Thread : holds[t] \subseteq holds'[t]
  BY <1>2, <1>3, <1>4, <1>5, <1>6, <1>7, ServeOk
<1>9. ASSUME NEW k \in Posted(DOMAIN tasks) PROVE TaskFits(k)'
  <2>1. k \in Task /\ k.conn \in Conn /\ TaskFits(k) BY PostedOk
  <2>2. CASE k.conn = c
    <3>1. k.op # "OnCreated" BY <1>2, <2>1, <2>2 DEF TaskFits, Fresh
    <3>2. k.op = "SendInternal2" => k.by \in Thread BY <2>1 DEF Task
    <3>3. QED BY <1>4, <1>8, <2>1, <2>2, <3>1, <3>2 DEF TaskFits
  <2>3. CASE k.conn # c BY <1>4, <1>8, <2>1, <2>3, SameTask
  <2>4. QED BY <2>2, <2>3
<1>10. QueueOk' BY <1>1, <1>4, <1>9, QueueKept DEF QueueOk
<1>11. QED BY <1>4, <1>8, <1>10 DEF IInv

LEMMA ReadCloseStep == ASSUME IInv, NEW c \in Conn, ReadClose(c) PROVE IInv'
<1>1. TypeOK /\ QueueOk /\ ConnOk(c) BY DEF IInv
<1>2. c \in read_watch /\ c \in open /\ upcalls[c] \in {<<"new">>, <<"new", "data">>}
  BY <1>1 DEF ReadClose, ConnOk, OpenOnly, UpcallsSoFar
<1>3. PICK seen \in {upcalls[c], Upcall(upcalls[c], "data")} : Close(c, seen) BY DEF ReadClose
<1>4. UNCHANGED <<tasks, budget, careless, dangling>> BY DEF ReadClose, misuse
<1>5. seen \in {<<"new">>, <<"new", "data">>} BY <1>2, <1>3, UpcallValues
<1>6. /\ obj' \in [Conn -> {"none", "live", "freed"}] /\ refs' \in [Conn -> Nat]
      /\ upcalls' \in [Conn -> Seq({"new", "data", "closed"})]
      /\ open' = open \ {c} /\ read_watch' \in SUBSET Conn /\ write_watch' \in SUBSET Conn
      /\ obj'[c] # "none"
      /\ \A x \in Conn : ConnOk(x)'
      /\ \A x \in Conn \ {c} : SameRefs(x) /\ SameSocket(x)
  BY <1>2, <1>3, <1>5, CloseOk
<1>7. TypeOK' BY <1>1, <1>3, <1>4, <1>6 DEF TypeOK, Close
<1>8. ASSUME NEW k \in Posted(DOMAIN tasks) PROVE TaskFits(k)'
  <2>1. k \in Task /\ k.conn \in Conn /\ TaskFits(k) BY PostedOk
  <2>2. CASE k.conn = c
    <3>1. k.op # "OnCreated" BY <1>2, <2>1, <2>2 DEF TaskFits, Fresh
    <3>2. QED BY <1>3, <1>4, <1>6, <2>1, <2>2, <3>1 DEF TaskFits, Close
  <2>3. CASE k.conn # c BY <1>4, <1>6, <2>1, <2>3, SameTask
  <2>4. QED BY <2>2, <2>3
<1>9. QueueOk' BY <1>1, <1>4, <1>8, QueueKept DEF QueueOk
<1>10. QED BY <1>4, <1>6, <1>7, <1>9 DEF IInv

LEMMA OnWriteStep ==
  ASSUME IInv, NEW c \in Conn, NEW n \in 0 .. Len(write_buf[c]), OnWrite(c, n)
  PROVE  IInv'
<1> DEFINE B == write_buf[c]
           W == SubSeq(B, 1, n)
           R == SubSeq(B, n + 1, Len(B))
<1>1. TypeOK /\ QueueOk /\ ConnOk(c) BY DEF IInv
<1>2. /\ c \in write_watch /\ c \in writing
      /\ wire' = [wire EXCEPT ![c] = wire[c] \o W] /\ write_buf' = [write_buf EXCEPT ![c] = R]
      /\ IF n > 0 /\ n = Len(B)
         THEN write_watch' = write_watch \ {c} /\ writing' = writing \ {c}
         ELSE write_watch' = write_watch /\ writing' = writing
      /\ UNCHANGED <<obj, refs, local, holds, open, read_watch, tasks, budget, accepted, upcalls,
                     spoilt, careless, dangling>>
  BY DEF OnWrite, refVars, misuse
<1>3. B \in Seq(Cell) /\ wire[c] \in Seq(Cell) /\ Len(B) \in Nat
  BY <1>1, LenProperties DEF TypeOK, Cell
<1>4. /\ W \in Seq(Cell)
      /\ R \in Seq(Cell) /\ Len(R) = IF n + 1 <= Len(B) THEN Len(B) - (n + 1) + 1 ELSE 0
  <2> HIDE DEF B
  <2>1. n \in 0 .. Len(B) BY DEF B
  <2>2. 1 \in 1 .. Len(B) + 1 /\ n + 1 \in 1 .. Len(B) + 1 /\ Len(B) \in 0 .. Len(B)
    BY <1>3, <2>1
  <2>3. QED BY <1>3, <2>1, <2>2, SubSeqType
<1>5. W \o R = B BY <1>3, CutInTwo
<1>6. wire'[c] = wire[c] \o W /\ write_buf'[c] = R BY <1>1, <1>2 DEF TypeOK
<1>7. c \in open /\ B # <<>> BY <1>1, <1>2 DEF ConnOk, OpenOnly, Watched
<1>8. n \in Nat /\ n <= Len(B) BY <1>3
<1> HIDE DEF B, W, R
<1>9. wire[c] \o W \in Seq(Cell) BY <1>3, <1>4, ConcatProperties
<1>10. Len(B) # 0 BY <1>3, <1>7, EmptySeq
<1>11. R # <<>> <=> n # Len(B)
  <2>1. Len(R) = 0 <=> n = Len(B) BY <1>3, <1>4, <1>8
  <2>2. QED BY <1>4, <2>1, EmptySeq
<1>12. Watched(c)'
  <2>1. CASE n = Len(B)
    <3>1. n > 0 BY <1>3, <1>10, <2>1
    <3>2. c \notin write_watch' /\ c \notin writing' BY <1>2, <2>1, <3>1
    <3>3. QED BY <1>6, <1>11, <2>1, <3>2 DEF Watched
  <2>2. CASE n # Len(B)
    <3>1. c \in write_watch' /\ c \in writing' BY <1>2, <2>2
    <3>2. QED BY <1>6, <1>11, <2>2, <3>1 DEF Watched
  <2>3. QED BY <2>1, <2>2
<1>13. Stream(c)'
  <2>1. (wire[c] \o W) \o R = wire[c] \o (W \o R) BY <1>3, <1>4, Regroup
  <2>2. wire'[c] \o write_buf'[c] = wire[c] \o write_buf[c] BY <1>5, <1>6, <2>1 DEF B
  <2>3. Whole(c)' BY <1>1, <1>2, <2>2 DEF ConnOk, Stream, Whole
  <2>4. wire'[c] \in Seq(Cell) /\ write_buf'[c] \in Seq(Cell) BY <1>4, <1>6, <1>9
  <2>5. accepted'[c] \in Seq(Byte) BY <1>1, <1>2 DEF TypeOK
  <2>6. Beginning(c)' BY <1>2, <1>7, <2>3, <2>4, <2>5, WholeBegins
  <2>7. QED BY <2>3, <2>6 DEF Stream
<1>14. ConnOk(c)'
  <2>1. SameRefs(c) BY <1>2 DEF SameRefs
  <2>2. RefsOk(c)' BY <1>1, <1>2, <2>1, SameRefsOk DEF ConnOk
  <2>3. OpenOnly(c)' /\ UpcallsSoFar(c)' BY <1>1, <1>2, <1>7 DEF ConnOk, OpenOnly, UpcallsSoFar
  <2>4. Unborn(c)' BY <1>1, <1>2 DEF ConnOk, Unborn
  <2>5. QED BY <1>12, <1>13, <2>2, <2>3, <2>4 DEF ConnOk
<1>15. ASSUME NEW x \in Conn \ {c} PROVE SameRefs(x) /\ SameSocket(x) /\ SameBuffers(x)
  BY <1>1, <1>2 DEF SameRefs, SameSocket, SameBuffers, TypeOK
<1>16. ASSUME NEW x \in Conn PROVE ConnOk(x)' BY <1>14, <1>15, SameConn DEF IInv
<1>17. TypeOK'
  <2>1. wire' \in [Conn -> Seq(Cell)] /\ write_buf' \in [Conn -> Seq(Cell)]
    BY <1>1, <1>2, <1>4, <1>9 DEF TypeOK, Cell
  <2>2. write_watch' \in SUBSET Conn /\ writing' \in SUBSET Conn BY <1>1, <1>2 DEF TypeOK
  <2>3. QED BY <1>1, <1>2, <2>1, <2>2 DEF TypeOK, Cell
<1>18. ASSUME NEW k \in Posted(DOMAIN tasks) PROVE TaskFits(k)'
  <2>1. k \in Task /\ k.conn \in Conn /\ TaskFits(k) BY PostedOk
  <2>2. SameRefs(k.conn) /\ SameSocket(k.conn) BY <1>2 DEF SameRefs, SameSocket
  <2>3. QED BY <1>2, <2>1, <2>2, SameTask
<1>19. QueueOk' BY <1>1, <1>2, <1>18, QueueKept DEF QueueOk
<1>20. QED BY <1>2, <1>16, <1>17, <1>19 DEF IInv

-----------------------------------------------------------------------------
(* The invariant holds.                                                    *)

LEMMA InitIInv == Init => IInv
<1> SUFFICES ASSUME Init PROVE IInv OBVIOUS
<1> USE DEF Init
<1>1. TypeOK
  <2>1. MaxSends \in 0 .. MaxSends BY IOHandlerAssumption
  <2>2. /\ obj \in [Conn -> {"none", "live", "freed"}] /\ refs \in [Conn -> Nat]
        /\ holds \in [Thread -> SUBSET Conn] /\ tasks \in Seq(Task)
    OBVIOUS
  <2>3. \A S : <<>> \in Seq(S) OBVIOUS
  <2>4. /\ write_buf \in [Conn -> Seq(Byte \cup {Garbage})] /\ accepted \in [Conn -> Seq(Byte)]
        /\ wire \in [Conn -> Seq(Byte \cup {Garbage})]
        /\ upcalls \in [Conn -> Seq({"new", "data", "closed"})]
    BY <2>3
  <2>5. local \in SUBSET Conn /\ open \in SUBSET Conn /\ read_watch \in SUBSET Conn
        /\ write_watch \in SUBSET Conn /\ writing \in SUBSET Conn /\ spoilt \in SUBSET Conn
        /\ careless \in SUBSET (Thread \X Conn) /\ dangling \in SUBSET (Thread \X Conn)
        /\ budget = MaxSends
    OBVIOUS
  <2> HIDE DEF Init
  <2>6. QED BY <2>1, <2>2, <2>4, <2>5 DEF TypeOK
<1>2. ASSUME NEW c \in Conn PROVE ConnOk(c)
  <2>1. Holders(c) = {} BY DEF Holders
  <2>2. Cardinality(Holders(c)) = 0 BY <2>1, FS_EmptySet
  <2>3. One(Engaged(c)) = 0 /\ One(c \in local) = 0 BY DEF One, Engaged
  <2>4. RefsOk(c) BY <2>2, <2>3 DEF RefsOk
  <2>5. <<>> \o <<>> = <<>> /\ SubSeq(<<>>, 1, Len(<<>>)) = <<>> /\ Len(<<>>) = 0 OBVIOUS
  <2>6. Stream(c) BY <2>5 DEF Stream, Whole, Beginning, Begins
  <2>7. Unborn(c) /\ UpcallsSoFar(c) /\ OpenOnly(c) /\ Watched(c)
    BY DEF Unborn, UpcallsSoFar, OpenOnly, Watched
  <2>8. QED BY <2>4, <2>6, <2>7 DEF ConnOk
<1>3. QueueOk
  <2>1. DOMAIN tasks = {} OBVIOUS
  <2>2. QED BY <2>1 DEF QueueOk, CreatedOnce
<1>4. dangling \subseteq careless OBVIOUS
<1>5. QED BY <1>1, <1>2, <1>3, <1>4 DEF IInv

LEMMA StutterStep == ASSUME IInv, UNCHANGED vars PROVE IInv'
<1>1. /\ TypeOK /\ QueueOk
      /\ UNCHANGED <<obj, refs, local, holds, open, read_watch, write_watch, writing, write_buf,
                     tasks, budget, accepted, wire, upcalls, spoilt, careless, dangling>>
  BY DEF IInv, vars, refVars, socketVars, history, misuse
<1>2. \A x \in Conn : SameRefs(x) /\ SameSocket(x) /\ SameBuffers(x)
  BY <1>1 DEF SameRefs, SameSocket, SameBuffers
<1>3. ASSUME NEW x \in Conn PROVE ConnOk(x)' BY <1>2, SameConn DEF IInv
<1>4. ASSUME NEW k \in Posted(DOMAIN tasks) PROVE TaskFits(k)' BY <1>1, <1>2, PostedOk, SameTask
<1>5. QueueOk' BY <1>1, <1>4, QueueKept DEF QueueOk
<1>6. TypeOK' BY <1>1 DEF TypeOK
<1>7. QED BY <1>1, <1>3, <1>5, <1>6 DEF IInv

LEMMA Invariant == Spec => []IInv
<1>1. Init => IInv BY InitIInv
<1>2. IInv /\ [Next]_vars => IInv'
  <2> SUFFICES ASSUME IInv, [Next]_vars PROVE IInv' OBVIOUS
  <2>1. CASE RunTask BY <2>1, RunOnCreatedStep, RunSendInternal2Step DEF RunTask
  <2>2. ASSUME NEW c \in Conn, Create(c) \/ DropLocal(c) PROVE IInv'
    BY <2>2, CreateStep, DropLocalStep
  <2>3. ASSUME NEW c \in Conn, ReadData(c) \/ ReadClose(c) PROVE IInv'
    BY <2>3, ReadDataStep, ReadCloseStep
  <2>4. ASSUME NEW c \in Conn, NEW n \in 0 .. Len(write_buf[c]), OnWrite(c, n) PROVE IInv'
    BY <2>4, OnWriteStep
  <2>5. ASSUME NEW t \in Thread, NEW c \in Conn, DropRef(t, c) PROVE IInv' BY <2>5, DropRefStep
  <2>6. ASSUME NEW t \in Thread, NEW c \in Conn, NEW d \in Payload, SendData(t, c, d) PROVE IInv'
    BY <2>6, SendDataStep
  <2>7. CASE UNCHANGED vars BY <2>7, StutterStep
  <2>8. QED BY <2>1, <2>2, <2>3, <2>4, <2>5, <2>6, <2>7 DEF Next
<1>3. QED BY <1>1, <1>2, PTL DEF Spec

(* The delegate of a connection hears OnNewConnection once and first,      *)
(* OnDataReceived only between, and OnConnectionClosed once and last,      *)
(* whatever the threads do and whatever send() returns: the calls of       *)
(* OnCreated, OnFileCanReadWithoutBlocking and Close.                      *)
THEOREM UpcallsInOrder == Spec => []UpcallOrder
<1>1. IInv => UpcallOrder BY DEF IInv, ConnOk, UpcallsSoFar, UpcallOrder
<1>2. QED BY <1>1, Invariant, PTL

(* The write watcher of an open connection is armed exactly while          *)
(* write_buf_ has bytes and WAITING_WRITE is set, whatever send() returns: *)
(* SendInternal, OnWrite and Close.                                        *)
THEOREM UnsentIsWatched == Spec => []WatchedWhileUnsent
<1>1. IInv => WatchedWhileUnsent BY DEF IInv, TypeOK, ConnOk, Watched, WatchedWhileUnsent
<1>2. QED BY <1>1, Invariant, PTL

(* The peer reads what was given to SendInternal, in that order: direct    *)
(* sends, buffered ones and OnWrite lose, repeat and reorder nothing.      *)
(* After a direct send() that failed it reads bytes from outside the data, *)
(* and before them still the beginning of the stream.                      *)
THEOREM StreamIsWhole == Spec => []StreamIntegrity
<1>1. IInv => StreamIntegrity
  BY DEF IInv, TypeOK, ConnOk, Stream, Whole, Beginning, Begins, StreamIntegrity
<1>2. QED BY <1>1, Invariant, PTL

(* The reference count is the number of owners, watchers are on live       *)
(* objects with open sockets, OnCreated finds its object, and a task that  *)
(* SendData posted with Unretained(this) finds it freed only if its own    *)
(* poster let go of the reference before the task ran.                     *)
THEOREM LivesWhileUsed == Spec => []ObjectLifetime
<1>1. ASSUME IInv PROVE ObjectLifetime
  <2>1. RefsCountOwners BY <1>1 DEF IInv, ConnOk, RefsOk, One, Holders, RefsCountOwners
  <2>2. WatchersOnLiveOnly BY <1>1 DEF IInv, TypeOK, ConnOk, OpenOnly, WatchersOnLiveOnly
  <2>3. TasksFindObject
    <3>1. ASSUME NEW i \in DOMAIN tasks, tasks[i].op = "OnCreated"
          PROVE  obj[tasks[i].conn] = "live"
      <4>1. tasks[i].conn \in open BY <1>1, <3>1 DEF IInv, QueueOk, TaskFits, Fresh
      <4>2. QED BY <1>1, <4>1 DEF IInv, TypeOK, ConnOk, OpenOnly
    <3>2. QED BY <1>1, <3>1 DEF IInv, TasksFindObject
  <2>4. QED BY <2>1, <2>2, <2>3 DEF ObjectLifetime
<1>2. QED BY <1>1, Invariant, PTL
=============================================================================

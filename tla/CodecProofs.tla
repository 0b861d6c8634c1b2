------------------------------ MODULE CodecProofs ------------------------------
(***************************************************************************)
(* Proofs about the packet codecs, for any radix, limits, bodies and       *)
(* foreign headers.                                                        *)
(*                                                                         *)
(* What makes the properties inductive is where the packets lie: the bytes *)
(* read and not yet retrieved, followed by the bytes in flight, are the    *)
(* encodings of the packets sent and not yet delivered, one after another. *)
(* Cuts(at) says so with the offset at[i] at which packet i begins, so     *)
(* that nothing is defined by recursion over the stream.                   *)
(***************************************************************************)
EXTENDS Codec, SequenceTheorems, TLAPS

Digit == 0 .. Radix - 1

Packet == [type : Digit, version : Digit, field : 0 .. Radix * Radix - 1, body : Seq(Digit)]

(* The bytes SendBytes puts on the wire for p.                             *)
Enc(c, p) == Header(c, p.type, p.version, p.field) \o p.body

(* A length field a header may have is the right one for the body; the     *)
(* header of LengthHeaderCodec has no type.                                *)
WellMade(c, p) ==
  /\ p \in Packet
  /\ p.field \in LengthField(c, 0) .. LimitOf[c] => p.field = LengthField(c, Len(p.body))
  /\ c = "LengthHeader" => p.type = 0

SentOK == sent \in Seq(Packet) /\ \A i \in 1 .. Len(sent) : WellMade(codec, sent[i])

Stream == read_buf \o wire

(* The packets of ps from the (n+1)st on are cut out of u at the offsets   *)
(* at, each where the one before it ends.                                  *)
Cuts(c, n, ps, u, at) ==
  /\ at \in [n + 1 .. Len(ps) + 1 -> 0 .. Len(u)]
  /\ at[n + 1] = 0
  /\ at[Len(ps) + 1] = Len(u)
  /\ \A i, k \in n + 1 .. Len(ps) + 1 : i <= k => at[i] <= at[k]
  /\ \A i \in n + 1 .. Len(ps) :
       /\ at[i + 1] = at[i] + Len(Enc(c, ps[i]))
       /\ \A j \in 1 .. Len(Enc(c, ps[i])) : u[at[i] + j] = Enc(c, ps[i])[j]

Aligned == \E at : Cuts(codec, Len(got), sent, Stream, at)

RetOK == ret # 0 => refused

CodecInv ==
  /\ TypeOK
  /\ SentOK
  /\ DeliveredAsSent
  /\ Aligned
  /\ RetOK
  /\ ClosedForAReason

--------------------------------------------------------------------------------
(* The elements of a concatenation.                                        *)
LEMMA ConcatFacts ==
  ASSUME NEW S, NEW s \in Seq(S), NEW t \in Seq(S)
  PROVE  /\ s \o t \in Seq(S) /\ Len(s \o t) = Len(s) + Len(t)
         /\ \A j \in 1 .. Len(s) : (s \o t)[j] = s[j]
         /\ \A j \in 1 .. Len(t) : (s \o t)[j + Len(s)] = t[j]
OBVIOUS

(* (The lengths are bounded rather than given, which the provers prefer.)  *)
LEMMA TwoAndTwo ==
  ASSUME NEW S, NEW s \in Seq(S), NEW t \in Seq(S),
         2 <= Len(s), Len(s) <= 2, 2 <= Len(t), Len(t) <= 2
  PROVE  /\ s \o t \in Seq(S) /\ Len(s \o t) = 4
         /\ (s \o t)[1] = s[1] /\ (s \o t)[2] = s[2]
         /\ (s \o t)[3] = t[1] /\ (s \o t)[4] = t[2]
OBVIOUS

(* Reading takes bytes from the middle of the stream.                      *)
LEMMA StreamAssociative ==
  \A s, t, u \in Seq(Digit) : (s \o t) \o u = s \o (t \o u)
BY ConcatAssociative

(* Two digits represent every number below Radix^2.                        *)
LEMMA DivMod ==
  ASSUME NEW R \in Nat, R > 0, NEW f \in Nat, f < R * R
  PROVE  /\ f \div R \in 0 .. R - 1
         /\ f % R \in 0 .. R - 1
         /\ (f \div R) * R + (f % R) = f
<1>1. f % R \in 0 .. R - 1
  OBVIOUS
<1>2. f \div R \in Nat
  OBVIOUS
<1>3. f = R * (f \div R) + (f % R)
  OBVIOUS
<1>4. (f \div R) * R + (f % R) = f
  BY <1>3, <1>2
<1>5. f \div R < R
  <2> DEFINE q == f \div R
  <2>1. q \in Nat /\ f = R * q + (f % R)
    BY <1>2, <1>3
  <2> HIDE DEF q
  <2>2. SUFFICES ASSUME q >= R PROVE FALSE
    BY <2>1 DEF q
  <2>3. R * q >= R * R
    BY <2>1, <2>2
  <2> QED BY <2>1, <2>3, <1>1
<1> QED BY <1>1, <1>2, <1>4, <1>5

(* A length field read back is the number written.                         *)
LEMMA DigitsFacts ==
  ASSUME NEW f \in 0 .. Radix * Radix - 1
  PROVE  /\ Digits(f) \in Seq(Digit) /\ Len(Digits(f)) = 2
         /\ Digits(f)[1] * Radix + Digits(f)[2] = f
<1>1. Radix \in Nat /\ Radix > 0
  BY CodecAssumption
<1>2. Radix * Radix \in Nat
  BY <1>1
<1>3. f \in Nat /\ f < Radix * Radix
  BY <1>2
<1> DEFINE q == f \div Radix
           m == f % Radix
<1>4. q \in Digit /\ m \in Digit /\ q * Radix + m = f
  BY <1>1, <1>3, DivMod DEF Digit
<1>5. Digits(f) = <<q, m>>
  BY DEF Digits
<1> HIDE DEF q, m
<1> QED BY <1>4, <1>5

(* The layout of each header: its size, and where the fields are found.    *)
LEMMA HeaderFacts ==
  ASSUME NEW c \in CodecName, NEW p \in Packet
  PROVE  LET h == Header(c, p.type, p.version, p.field) IN
         /\ h \in Seq(Digit) /\ Len(h) = HeaderSize(c)
         /\ FieldAt(c, h) = p.field
         /\ VersionAt(c, h) = (IF c = "LengthHeader" THEN 0 ELSE p.version)
         /\ TypeAt(c, h) = (IF c = "LengthHeader" THEN 0 ELSE p.type)
<1> DEFINE d == Digits(p.field)
           h == Header(c, p.type, p.version, p.field)
<1>1. d \in Seq(Digit) /\ Len(d) = 2 /\ d[1] * Radix + d[2] = p.field
  BY DigitsFacts DEF Packet
<1>2. d \in Seq(Digit) /\ Len(d) = 2
  BY <1>1
<1>3. p.type \in Digit /\ p.version \in Digit
  BY DEF Packet
<1>4. CASE c = "LengthHeader"
  <2>1. h = d
    BY <1>4 DEF Header
  <2> HIDE DEF d, h
  <2>2. HeaderSize(c) = 2 /\ FieldAt(c, h) = h[1] * Radix + h[2]
        /\ VersionAt(c, h) = 0 /\ TypeAt(c, h) = 0
    BY <1>4 DEF HeaderSize, FieldAt, VersionAt, TypeAt
  <2> QED BY <1>1, <1>4, <2>1, <2>2 DEF h
<1>5. CASE c = "ZNet"
  <2> DEFINE a == <<p.version, p.type>>
  <2>1. h = a \o d
    BY <1>5 DEF Header
  <2>2. a \in Seq(Digit) /\ Len(a) = 2 /\ a[1] = p.version /\ a[2] = p.type
    BY <1>3
  <2> HIDE DEF d, h, a
  <2>3. HeaderSize(c) = 4 /\ FieldAt(c, h) = h[3] * Radix + h[4]
        /\ VersionAt(c, h) = h[1] /\ TypeAt(c, h) = h[2]
    BY <1>5 DEF HeaderSize, FieldAt, VersionAt, TypeAt
  <2>4. h \in Seq(Digit) /\ Len(h) = 4 /\ h[1] = p.version /\ h[2] = p.type
        /\ h[3] = d[1] /\ h[4] = d[2]
    <3>1. 2 <= Len(a) /\ Len(a) <= 2 /\ 2 <= Len(d) /\ Len(d) <= 2
      BY <1>2, <2>2
    <3>2. a \in Seq(Digit) /\ d \in Seq(Digit) /\ a[1] = p.version /\ a[2] = p.type
      BY <1>2, <2>2
    <3> QED BY <2>1, <3>1, <3>2, TwoAndTwo
  <2> QED BY <1>1, <1>5, <2>3, <2>4 DEF h
<1>6. CASE c = "TeamTalk"
  <2> DEFINE a == <<p.type, p.version>>
  <2>1. h = d \o a
    BY <1>6 DEF Header
  <2>2. a \in Seq(Digit) /\ Len(a) = 2 /\ a[1] = p.type /\ a[2] = p.version
    BY <1>3
  <2> HIDE DEF d, h, a
  <2>3. HeaderSize(c) = 4 /\ FieldAt(c, h) = h[1] * Radix + h[2]
        /\ VersionAt(c, h) = h[4] /\ TypeAt(c, h) = h[3]
    BY <1>6 DEF HeaderSize, FieldAt, VersionAt, TypeAt
  <2>4. h \in Seq(Digit) /\ Len(h) = 4 /\ h[4] = p.version /\ h[3] = p.type
        /\ h[1] = d[1] /\ h[2] = d[2]
    <3>1. 2 <= Len(a) /\ Len(a) <= 2 /\ 2 <= Len(d) /\ Len(d) <= 2
      BY <1>2, <2>2
    <3>2. a \in Seq(Digit) /\ d \in Seq(Digit) /\ a[1] = p.type /\ a[2] = p.version
      BY <1>2, <2>2
    <3> QED BY <2>1, <3>1, <3>2, TwoAndTwo
  <2> QED BY <1>1, <1>6, <2>3, <2>4 DEF h
<1> QED BY <1>4, <1>5, <1>6 DEF CodecName

(* A packet's bytes: so many, digits all, the body after the header.       *)
LEMMA EncFacts ==
  ASSUME NEW c \in CodecName, NEW p \in Packet
  PROVE  /\ Enc(c, p) \in Seq(Digit)
         /\ Len(Enc(c, p)) = HeaderSize(c) + Len(p.body)
         /\ \A j \in 1 .. Len(p.body) : Enc(c, p)[HeaderSize(c) + j] = p.body[j]
         /\ \A j \in 1 .. HeaderSize(c) :
              Enc(c, p)[j] = Header(c, p.type, p.version, p.field)[j]
<1> DEFINE h == Header(c, p.type, p.version, p.field)
<1>1. h \in Seq(Digit) /\ Len(h) = HeaderSize(c)
  BY HeaderFacts
<1>2. p.body \in Seq(Digit)
  BY DEF Packet
<1>3. Enc(c, p) = h \o p.body
  BY DEF Enc
<1>4. HeaderSize(c) \in Nat
  BY DEF HeaderSize
<1> HIDE DEF h
<1>5. Enc(c, p) \in Seq(Digit) /\ Len(Enc(c, p)) = HeaderSize(c) + Len(p.body)
  BY <1>1, <1>2, <1>3
<1>6. \A j \in 1 .. Len(p.body) : Enc(c, p)[HeaderSize(c) + j] = p.body[j]
  BY <1>1, <1>2, <1>3, <1>4
<1>7. \A j \in 1 .. HeaderSize(c) : Enc(c, p)[j] = h[j]
  BY <1>1, <1>2, <1>3, <1>4
<1> QED BY <1>5, <1>6, <1>7 DEF h

(* A buffer that begins with the header of p is read as that header.       *)
LEMMA ReadAtFront ==
  ASSUME NEW c \in CodecName, NEW p \in Packet, NEW buf,
         \A j \in 1 .. HeaderSize(c) : buf[j] = Enc(c, p)[j]
  PROVE  /\ FieldAt(c, buf) = p.field
         /\ VersionAt(c, buf) = (IF c = "LengthHeader" THEN 0 ELSE p.version)
         /\ TypeAt(c, buf) = (IF c = "LengthHeader" THEN 0 ELSE p.type)
<1> DEFINE h == Header(c, p.type, p.version, p.field)
<1>1. \A j \in 1 .. HeaderSize(c) : buf[j] = h[j]
  BY EncFacts
<1>2. /\ FieldAt(c, h) = p.field
      /\ VersionAt(c, h) = (IF c = "LengthHeader" THEN 0 ELSE p.version)
      /\ TypeAt(c, h) = (IF c = "LengthHeader" THEN 0 ELSE p.type)
  BY HeaderFacts
<1> HIDE DEF h
<1>3. buf[1] = h[1] /\ buf[2] = h[2]
  BY <1>1 DEF HeaderSize
<1>4. c # "LengthHeader" => buf[3] = h[3] /\ buf[4] = h[4]
  BY <1>1 DEF HeaderSize
<1>5. /\ FieldAt(c, buf) = FieldAt(c, h)
      /\ VersionAt(c, buf) = VersionAt(c, h)
      /\ TypeAt(c, buf) = TypeAt(c, h)
  BY <1>3, <1>4 DEF FieldAt, VersionAt, TypeAt, CodecName
<1> QED BY <1>2, <1>5

(* The header at the front of buf is accepted exactly when its length and  *)
(* version may be.                                                         *)
LEMMA Accepted ==
  ASSUME NEW c \in CodecName, NEW buf, FieldAt(c, buf) \in 0 .. Radix * Radix - 1
  PROVE  /\ ParsePacketHeader(c, buf) \in {-1, 0}
         /\ ParsePacketHeader(c, buf) = 0 <=>
              /\ FieldAt(c, buf) \in LengthField(c, 0) .. LimitOf[c]
              /\ c = "TeamTalk" => VersionAt(c, buf) = kPacketVersion(c)
<1> DEFINE f == FieldAt(c, buf)
           v == VersionAt(c, buf)
           l == BodyLength(c, f)
<1>1. LimitOf[c] \in Nat /\ Radix * Radix \in Nat /\ 2 * LimitOf[c] < Radix * Radix
  BY CodecAssumption
<1>2. f \in Nat /\ f < Radix * Radix
  BY <1>1
<1>3. /\ c = "LengthHeader" => ParsePacketHeader(c, buf) =
            IF l > LimitOf[c] \/ l < 0 THEN -1 ELSE 0
      /\ c = "ZNet" => ParsePacketHeader(c, buf) = IF f > LimitOf[c] THEN -1 ELSE 0
      /\ c = "TeamTalk" => ParsePacketHeader(c, buf) =
            IF v # kPacketVersion(c) \/ f > LimitOf[c] \/ f < HeaderSize(c) THEN -1 ELSE 0
  BY DEF ParsePacketHeader
<1>4. LengthField(c, 0) = IF c = "TeamTalk" THEN HeaderSize(c) ELSE 0
  BY DEF LengthField, HeaderSize
<1>5. HeaderSize(c) \in Nat
  BY DEF HeaderSize
<1> HIDE DEF f, v
<1>6. c = "LengthHeader" => (l > LimitOf[c] \/ l < 0 <=> f > LimitOf[c])
  <2>1. c = "LengthHeader" =>
          l = IF 2 * f >= Radix * Radix THEN f - Radix * Radix ELSE f
    BY DEF l, BodyLength, AsInt32
  <2> DEFINE R == Radix * Radix
  <2>2. R \in Nat /\ 2 * LimitOf[c] < R /\ f < R
    BY <1>1, <1>2
  <2>3. c = "LengthHeader" => l = IF 2 * f >= R THEN f - R ELSE f
    BY <2>1
  <2> HIDE DEF R, l
  <2> QED BY <1>1, <1>2, <2>2, <2>3
<1> HIDE DEF l
<1> QED BY <1>1, <1>2, <1>3, <1>4, <1>5, <1>6 DEF CodecName, f, v

--------------------------------------------------------------------------------
(* The stream is a sequence of digits.                                     *)
LEMMA StreamType ==
  ASSUME TypeOK
  PROVE  /\ Stream \in Seq(Digit) /\ Len(Stream) = Len(read_buf) + Len(wire)
         /\ \A j \in 1 .. Len(read_buf) : Stream[j] = read_buf[j]
BY ConcatFacts DEF TypeOK, Stream, Digit

(* The header at the front of read_buf_ is that of the first packet not    *)
(* yet delivered.                                                          *)
LEMMA FrontPacket ==
  ASSUME TypeOK, SentOK, DeliveredAsSent, NEW at,
         Cuts(codec, Len(got), sent, Stream, at), HasHeader(codec, read_buf)
  PROVE  LET n == Len(got) + 1
             p == sent[n]
         IN /\ n \in 1 .. Len(sent)
            /\ WellMade(codec, p)
            /\ at[n + 1] = Len(Enc(codec, p))
            /\ \A j \in 1 .. Len(Enc(codec, p)) : Stream[j] = Enc(codec, p)[j]
            /\ FieldAt(codec, read_buf) = p.field
            /\ VersionAt(codec, read_buf) = (IF codec = "LengthHeader" THEN 0 ELSE p.version)
            /\ TypeAt(codec, read_buf) = (IF codec = "LengthHeader" THEN 0 ELSE p.type)
<1> DEFINE n == Len(got) + 1
           p == sent[n]
           e == Enc(codec, p)
<1>1. codec \in CodecName /\ HeaderSize(codec) \in 1 .. 4
  BY DEF TypeOK, HeaderSize
<1>2. Len(got) \in Nat /\ Len(sent) \in Nat /\ Len(got) <= Len(sent) /\ n \in Nat
  BY DEF TypeOK, SentOK, DeliveredAsSent, GotIsPrefixOfSent
<1>3. Len(read_buf) \in Nat /\ Len(wire) \in Nat /\ Len(read_buf) >= HeaderSize(codec)
  BY DEF TypeOK, HasHeader
<1>4. Len(got) # Len(sent)
  <2>1. SUFFICES ASSUME Len(got) = Len(sent) PROVE FALSE
    OBVIOUS
  <2>2. Len(Stream) = 0
    BY <2>1 DEF Cuts
  <2> QED BY <2>2, <1>1, <1>3, StreamType
<1>5. n \in 1 .. Len(sent)
  BY <1>2, <1>4
<1>6. WellMade(codec, p) /\ p \in Packet
  BY <1>5 DEF SentOK, WellMade
<1>7. e \in Seq(Digit) /\ Len(e) \in Nat /\ Len(e) >= HeaderSize(codec)
  <2>1. Len(p.body) \in Nat
    BY <1>6 DEF Packet
  <2> QED BY <1>1, <1>6, EncFacts, <2>1
<1>8. at[n] = 0 /\ at[n + 1] = at[n] + Len(e)
      /\ \A j \in 1 .. Len(e) : Stream[at[n] + j] = e[j]
  <2>1. n \in Len(got) + 1 .. Len(sent)
    BY <1>2, <1>5
  <2>2. at[n] = 0
    BY DEF Cuts
  <2>3. /\ at[n + 1] = at[n] + Len(e)
        /\ \A j \in 1 .. Len(e) : Stream[at[n] + j] = e[j]
    BY <2>1 DEF Cuts
  <2> QED BY <2>2, <2>3
<1> HIDE DEF e, p, n
<1>9. at[n + 1] = Len(e)
  BY <1>7, <1>8
<1>10. \A j \in 1 .. Len(e) : Stream[j] = e[j]
  <2> TAKE j \in 1 .. Len(e)
  <2>1. Stream[0 + j] = e[j]
    BY <1>8
  <2>2. 0 + j = j
    BY <1>7
  <2> QED BY <2>1, <2>2
<1>11. \A j \in 1 .. HeaderSize(codec) : read_buf[j] = e[j]
  <2> TAKE j \in 1 .. HeaderSize(codec)
  <2>1. j \in 1 .. Len(e) /\ j \in 1 .. Len(read_buf)
    BY <1>1, <1>3, <1>7
  <2> QED BY <2>1, <1>10, StreamType
<1>12. /\ FieldAt(codec, read_buf) = p.field
       /\ VersionAt(codec, read_buf) = (IF codec = "LengthHeader" THEN 0 ELSE p.version)
       /\ TypeAt(codec, read_buf) = (IF codec = "LengthHeader" THEN 0 ELSE p.type)
  BY <1>1, <1>6, <1>11, ReadAtFront DEF e
<1> QED BY <1>5, <1>6, <1>9, <1>10, <1>12 DEF e, p, n

(* The length field and the length of the body determine each other.       *)
LEMMA LengthFacts ==
  ASSUME NEW c, NEW n \in Nat
  PROVE  /\ 2 * n < Radix * Radix => BodyLength(c, LengthField(c, n)) = n
         /\ LengthField(c, 0) \in Nat /\ LengthField(c, n) \in Nat
         /\ n <= LengthField(c, n) /\ LengthField(c, 0) <= LengthField(c, n)
<1>1. Radix * Radix \in Nat
  BY CodecAssumption
<1>2. 2 * n < Radix * Radix => ~ (2 * n >= Radix * Radix)
  BY <1>1
<1> QED BY <1>1, <1>2 DEF BodyLength, LengthField, HeaderSize, AsInt32

(* If it is accepted, its length is that of the whole packet.              *)
LEMMA FrontAccepted ==
  ASSUME TypeOK, SentOK, DeliveredAsSent, NEW at,
         Cuts(codec, Len(got), sent, Stream, at), HasHeader(codec, read_buf),
         ParsePacketHeader(codec, read_buf) = 0
  PROVE  LET p == sent[Len(got) + 1]
         IN /\ PacketLength(codec, read_buf) = Len(Enc(codec, p))
            /\ BodyLength(codec, p.field) = Len(p.body)
            /\ BodyLength(codec, p.field) \in 0 .. LimitOf[codec]
            /\ codec = "TeamTalk" => p.version = kPacketVersion(codec)
            /\ TypeAt(codec, read_buf) = p.type
<1> DEFINE p == sent[Len(got) + 1]
<1>1. codec \in CodecName
  BY DEF TypeOK
<1>2. /\ WellMade(codec, p) /\ FieldAt(codec, read_buf) = p.field
      /\ VersionAt(codec, read_buf) = (IF codec = "LengthHeader" THEN 0 ELSE p.version)
      /\ TypeAt(codec, read_buf) = (IF codec = "LengthHeader" THEN 0 ELSE p.type)
  BY FrontPacket
<1> HIDE DEF p
<1>3. p \in Packet /\ p.field \in 0 .. Radix * Radix - 1 /\ p.field \in Nat
      /\ Len(p.body) \in Nat
  <2>1. p \in Packet
    BY <1>2 DEF WellMade
  <2>2. Radix * Radix \in Nat
    BY CodecAssumption
  <2> QED BY <2>1, <2>2 DEF Packet
<1>4. /\ p.field \in LengthField(codec, 0) .. LimitOf[codec]
      /\ codec = "TeamTalk" => VersionAt(codec, read_buf) = kPacketVersion(codec)
  BY <1>1, <1>2, <1>3, Accepted
<1>5. p.field = LengthField(codec, Len(p.body))
  BY <1>2, <1>4 DEF WellMade
<1>6. LimitOf[codec] \in Nat
  BY <1>1, CodecAssumption
<1>7. Len(p.body) <= LimitOf[codec]
  BY <1>3, <1>4, <1>5, <1>6, LengthFacts
<1>8. BodyLength(codec, p.field) = Len(p.body)
  <2>1. 2 * LimitOf[codec] < Radix * Radix /\ Radix * Radix \in Nat
    BY <1>1, CodecAssumption
  <2>2. 2 * Len(p.body) < Radix * Radix
    BY <1>3, <1>6, <1>7, <2>1
  <2> QED BY <1>3, <1>5, <2>2, LengthFacts
<1>9. PacketLength(codec, read_buf) = HeaderSize(codec) + Len(p.body)
  BY <1>2, <1>8 DEF PacketLength
<1>10. PacketLength(codec, read_buf) = Len(Enc(codec, p))
  BY <1>1, <1>3, <1>9, EncFacts
<1>11. codec = "TeamTalk" => p.version = kPacketVersion(codec)
  BY <1>2, <1>4
<1>12. TypeAt(codec, read_buf) = p.type
  BY <1>2 DEF WellMade
<1> QED BY <1>3, <1>6, <1>7, <1>8, <1>10, <1>11, <1>12 DEF p

--------------------------------------------------------------------------------
(* A packet that is sent goes to the end of the stream.                    *)
LEMMA CutsAppend ==
  ASSUME NEW c \in CodecName, NEW n \in Nat, NEW ps \in Seq(Packet), n <= Len(ps),
         NEW u \in Seq(Digit), NEW at, Cuts(c, n, ps, u, at), NEW p \in Packet
  PROVE  \E a : Cuts(c, n, Append(ps, p), u \o Enc(c, p), a)
<1> DEFINE e == Enc(c, p)
           s == Len(ps)
           l == Len(u)
           qs == Append(ps, p)
           v == u \o e
           a == [i \in n + 1 .. s + 2 |-> IF i = s + 2 THEN l + Len(e) ELSE at[i]]
<1>1. e \in Seq(Digit) /\ Len(e) \in Nat
  BY EncFacts
<1>2. l \in Nat /\ s \in Nat /\ n <= s
  OBVIOUS
<1>3. /\ Len(qs) = s + 1 /\ qs[s + 1] = p
      /\ \A i \in 1 .. s : qs[i] = ps[i]
  OBVIOUS
<1> HIDE DEF e
<1>4. /\ Len(v) = l + Len(e)
      /\ \A j \in 1 .. l : v[j] = u[j]
      /\ \A j \in 1 .. Len(e) : v[l + j] = e[j]
  BY <1>1, ConcatFacts
<1>5. at \in [n + 1 .. s + 1 -> 0 .. l] /\ at[n + 1] = 0 /\ at[s + 1] = l
  BY DEF Cuts
<1>6. \A i, k \in n + 1 .. s + 1 : i <= k => at[i] <= at[k]
  BY DEF Cuts
<1>7. \A i \in n + 1 .. s : /\ at[i + 1] = at[i] + Len(Enc(c, ps[i]))
                            /\ \A j \in 1 .. Len(Enc(c, ps[i])) : u[at[i] + j] = Enc(c, ps[i])[j]
  BY DEF Cuts
<1> HIDE DEF l, s, v, qs
<1>8. a \in [n + 1 .. s + 2 -> 0 .. l + Len(e)]
  BY <1>1, <1>2, <1>5
<1>9. a[s + 2] = l + Len(e) /\ \A i \in n + 1 .. s + 1 : a[i] = at[i]
  BY <1>2
<1> HIDE DEF a
<1>10. a[n + 1] = 0
  BY <1>2, <1>5, <1>9
<1>11. \A i, k \in n + 1 .. s + 2 : i <= k => a[i] <= a[k]
  <2> TAKE i, k \in n + 1 .. s + 2
  <2> HAVE i <= k
  <2>1. CASE k = s + 2
    BY <1>1, <1>2, <1>8, <1>9, <2>1
  <2>2. CASE k # s + 2
    <3>1. i \in n + 1 .. s + 1 /\ k \in n + 1 .. s + 1
      BY <1>2, <2>2
    <3> QED BY <1>6, <1>9, <3>1
  <2> QED BY <2>1, <2>2
<1>12. ASSUME NEW i \in n + 1 .. s + 1
       PROVE  /\ a[i + 1] = a[i] + Len(Enc(c, qs[i]))
              /\ \A j \in 1 .. Len(Enc(c, qs[i])) : v[a[i] + j] = Enc(c, qs[i])[j]
  <2>1. CASE i = s + 1
    <3>1. a[i + 1] = l + Len(e)
      BY <1>2, <1>9, <2>1
    <3>2. a[i] = l /\ Enc(c, qs[i]) = e
      BY <1>2, <1>3, <1>5, <1>9, <2>1 DEF e
    <3> QED BY <3>1, <3>2, <1>4
  <2>2. CASE i # s + 1
    <3> DEFINE f == Enc(c, ps[i])
    <3>1. i \in n + 1 .. s /\ i \in 1 .. s /\ i + 1 \in n + 1 .. s + 1
      BY <1>2, <2>2
    <3>2. a[i + 1] = at[i + 1] /\ a[i] = at[i] /\ qs[i] = ps[i]
      BY <1>3, <1>9, <3>1
    <3>3. at[i + 1] = at[i] + Len(f) /\ \A j \in 1 .. Len(f) : u[at[i] + j] = f[j]
      BY <1>7, <3>1
    <3>4. Len(f) \in Nat
      <4>1. ps[i] \in Packet
        BY <3>1 DEF s
      <4> QED BY <4>1, EncFacts
    <3>5. at[i] \in 0 .. l /\ at[i + 1] \in 0 .. l
      BY <1>5, <3>1
    <3> HIDE DEF f
    <3>6. ASSUME NEW j \in 1 .. Len(f) PROVE v[a[i] + j] = f[j]
      <4>1. at[i] + j \in 1 .. l
        BY <1>2, <3>3, <3>4, <3>5
      <4> QED BY <1>4, <3>2, <3>3, <4>1
    <3> QED BY <3>2, <3>3, <3>6 DEF f
  <2> QED BY <2>1, <2>2
<1>13. Cuts(c, n, qs, v, a)
  <2>1. Len(qs) + 1 = s + 2
    BY <1>2, <1>3
  <2> QED BY <1>3, <1>4, <1>8, <1>9, <1>10, <1>11, <1>12, <2>1 DEF Cuts
<1> QED BY <1>13 DEF qs, v, e

(* Retrieving the first packet moves the others to the front.              *)
LEMMA CutsRest ==
  ASSUME NEW c \in CodecName, NEW n \in Nat, NEW ps \in Seq(Packet), n < Len(ps),
         NEW u \in Seq(Digit), NEW at, Cuts(c, n, ps, u, at),
         NEW L \in Nat, L = Len(Enc(c, ps[n + 1])),
         NEW v, Len(v) = Len(u) - L, \A j \in 1 .. Len(u) - L : v[j] = u[L + j]
  PROVE  \E a : Cuts(c, n + 1, ps, v, a)
<1> DEFINE s == Len(ps)
           l == Len(u)
           a == [i \in n + 2 .. s + 1 |-> at[i] - L]
<1>1. l \in Nat /\ s \in Nat /\ n + 1 <= s
  OBVIOUS
<1>2. at \in [n + 1 .. s + 1 -> 0 .. l] /\ at[n + 1] = 0 /\ at[s + 1] = l
  BY DEF Cuts
<1>3. \A i, k \in n + 1 .. s + 1 : i <= k => at[i] <= at[k]
  BY DEF Cuts
<1>4. \A i \in n + 1 .. s : /\ at[i + 1] = at[i] + Len(Enc(c, ps[i]))
                            /\ \A j \in 1 .. Len(Enc(c, ps[i])) : u[at[i] + j] = Enc(c, ps[i])[j]
  BY DEF Cuts
<1>5. Len(v) = l - L /\ \A j \in 1 .. l - L : v[j] = u[L + j]
  OBVIOUS
<1> HIDE DEF l, s
<1>6. at[n + 2] = L
  <2>1. n + 1 \in n + 1 .. s
    BY <1>1
  <2>2. at[(n + 1) + 1] = at[n + 1] + L
    BY <1>4, <2>1
  <2>3. (n + 1) + 1 = n + 2
    OBVIOUS
  <2> QED BY <1>2, <2>2, <2>3
<1>7. ASSUME NEW i \in n + 2 .. s + 1 PROVE at[i] \in L .. l
  <2>1. i \in n + 1 .. s + 1 /\ n + 2 \in n + 1 .. s + 1 /\ n + 2 <= i
    BY <1>1
  <2>2. at[n + 2] <= at[i] /\ at[i] \in 0 .. l
    BY <1>2, <1>3, <2>1
  <2> QED BY <1>1, <1>6, <2>2
<1>8. \A i \in n + 2 .. s + 1 : a[i] = at[i] - L
  OBVIOUS
<1>9. a \in [n + 2 .. s + 1 -> 0 .. l - L]
  <2>1. \A i \in n + 2 .. s + 1 : at[i] - L \in 0 .. l - L
    BY <1>1, <1>7
  <2> QED BY <2>1
<1> HIDE DEF a
<1>10. a[n + 2] = 0 /\ a[s + 1] = l - L
  <2>1. n + 2 \in n + 2 .. s + 1 /\ s + 1 \in n + 2 .. s + 1
    BY <1>1
  <2> QED BY <1>2, <1>6, <1>8, <2>1
<1>11. \A i, k \in n + 2 .. s + 1 : i <= k => a[i] <= a[k]
  <2> TAKE i, k \in n + 2 .. s + 1
  <2> HAVE i <= k
  <2>1. at[i] <= at[k] /\ at[i] \in L .. l /\ at[k] \in L .. l
    <3>1. i \in n + 1 .. s + 1 /\ k \in n + 1 .. s + 1
      BY <1>1
    <3> QED BY <1>3, <1>7, <3>1
  <2> QED BY <1>1, <1>8, <2>1
<1>12. ASSUME NEW i \in n + 2 .. s
       PROVE  /\ a[i + 1] = a[i] + Len(Enc(c, ps[i]))
              /\ \A j \in 1 .. Len(Enc(c, ps[i])) : v[a[i] + j] = Enc(c, ps[i])[j]
  <2> DEFINE f == Enc(c, ps[i])
  <2>1. i \in n + 1 .. s /\ i \in 1 .. s /\ i \in n + 2 .. s + 1 /\ i + 1 \in n + 2 .. s + 1
    BY <1>1
  <2>2. at[i + 1] = at[i] + Len(f) /\ \A j \in 1 .. Len(f) : u[at[i] + j] = f[j]
    BY <1>4, <2>1
  <2>3. a[i + 1] = at[i + 1] - L /\ a[i] = at[i] - L /\ at[i] \in L .. l /\ at[i + 1] \in L .. l
    BY <1>7, <1>8, <2>1
  <2>4. Len(f) \in Nat
    <3>1. ps[i] \in Packet
      BY <2>1 DEF s
    <3> QED BY <3>1, EncFacts
  <2> HIDE DEF f
  <2>5. ASSUME NEW j \in 1 .. Len(f) PROVE v[a[i] + j] = f[j]
    <3>1. a[i] + j \in 1 .. l - L /\ L + (a[i] + j) = at[i] + j
      <4>1. at[i] \in Nat /\ at[i] >= L /\ at[i] + Len(f) <= l /\ j \in 1 .. Len(f)
        BY <1>1, <2>2, <2>3, <2>4
      <4>2. a[i] = at[i] - L
        BY <2>3
      <4>3. a[i] \in Nat /\ L + a[i] = at[i] /\ a[i] + Len(f) <= l - L
        BY <1>1, <2>4, <4>1, <4>2
      <4>4. j \in Nat /\ 1 <= j /\ j <= Len(f)
        BY <2>4
      <4>5. l - L \in Int
        BY <1>1
      <4>6. a[i] + j \in Nat /\ 1 <= a[i] + j
        BY <4>3, <4>4
      <4>7. a[i] + j <= a[i] + Len(f)
        BY <4>3, <4>4, <2>4
      <4>8. a[i] + j <= l - L
        BY <4>3, <4>7, <4>5, <4>6, <2>4
      <4>9. a[i] + j \in 1 .. l - L
        BY <4>5, <4>6, <4>8
      <4>10. L + (a[i] + j) = at[i] + j
        BY <4>1, <4>3
      <4> QED BY <4>9, <4>10
    <3>2. v[a[i] + j] = u[L + (a[i] + j)]
      BY <1>5, <3>1
    <3> QED BY <2>2, <3>1, <3>2
  <2>6. a[i + 1] = a[i] + Len(f)
    BY <1>1, <2>2, <2>3, <2>4
  <2> QED BY <2>5, <2>6 DEF f
<1>13. Cuts(c, n + 1, ps, v, a)
  <2>1. (n + 1) + 1 = n + 2
    OBVIOUS
  <2> QED BY <1>5, <1>9, <1>10, <1>11, <1>12, <2>1 DEF Cuts, s
<1> QED BY <1>13

--------------------------------------------------------------------------------
(* What Deliver takes out of read_buf_: the whole first packet, no more.   *)
LEMMA TakenOut ==
  ASSUME TypeOK, SentOK, DeliveredAsSent, NEW at,
         Cuts(codec, Len(got), sent, Stream, at), HasPacket(codec, read_buf)
  PROVE  LET p == sent[Len(got) + 1]
             L == Len(Enc(codec, p))
             rest == Rest(codec, read_buf)
         IN /\ Len(got) < Len(sent) /\ p \in Packet /\ L \in Nat
            /\ PacketAt(codec, read_buf) = [type |-> p.type, body |-> p.body]
            /\ BodyLength(codec, p.field) \in 0 .. LimitOf[codec]
            /\ codec = "TeamTalk" => p.version = kPacketVersion(codec)
            /\ rest \in Seq(Digit)
            /\ Len(rest \o wire) = Len(Stream) - L
            /\ \A j \in 1 .. Len(Stream) - L : (rest \o wire)[j] = Stream[L + j]
<1> DEFINE p == sent[Len(got) + 1]
           e == Enc(codec, p)
           L == Len(e)
           H == HeaderSize(codec)
           rest == Rest(codec, read_buf)
<1>1. HasHeader(codec, read_buf) /\ ParsePacketHeader(codec, read_buf) = 0
      /\ Len(read_buf) >= PacketLength(codec, read_buf)
  BY DEF HasPacket
<1>2. /\ Len(got) + 1 \in 1 .. Len(sent)
      /\ WellMade(codec, p)
      /\ \A j \in 1 .. L : Stream[j] = e[j]
  BY <1>1, FrontPacket
<1>3. /\ PacketLength(codec, read_buf) = L
      /\ BodyLength(codec, p.field) \in 0 .. LimitOf[codec]
      /\ codec = "TeamTalk" => p.version = kPacketVersion(codec)
      /\ TypeAt(codec, read_buf) = p.type
  BY <1>1, FrontAccepted
<1>4. Len(got) \in Nat /\ Len(sent) \in Nat /\ codec \in CodecName
  BY DEF TypeOK, SentOK
<1>5. read_buf \in Seq(Digit) /\ wire \in Seq(Digit) /\ Len(read_buf) \in Nat /\ Len(wire) \in Nat
  BY DEF TypeOK, Digit
<1>6. p \in Packet /\ p.body \in Seq(Digit) /\ Len(p.body) \in Nat
  BY <1>2 DEF WellMade, Packet
<1>7. H \in Nat /\ L = H + Len(p.body) /\ L \in Nat
      /\ \A j \in 1 .. Len(p.body) : e[H + j] = p.body[j]
  <2>1. H \in Nat
    BY DEF HeaderSize
  <2> QED BY <2>1, <1>4, <1>6, EncFacts
<1>8. /\ PacketAt(codec, read_buf) = [type |-> p.type, body |-> SubSeq(read_buf, H + 1, L)]
      /\ rest = SubSeq(read_buf, L + 1, Len(read_buf))
  BY <1>3 DEF PacketAt, Rest
<1>9. L <= Len(read_buf)
  BY <1>1, <1>3
<1>10. Len(Stream) = Len(read_buf) + Len(wire)
       /\ \A j \in 1 .. Len(read_buf) : Stream[j] = read_buf[j]
  BY StreamType
<1>11. \A j \in 1 .. Len(wire) : Stream[j + Len(read_buf)] = wire[j]
  BY <1>5, ConcatFacts DEF Stream
<1> HIDE DEF p, e, L, H, rest
<1>12. SubSeq(read_buf, H + 1, L) = p.body
  <2> DEFINE b == SubSeq(read_buf, H + 1, L)
  <2>1. \A i \in H + 1 .. L : read_buf[i] \in Digit
    BY <1>5, <1>7, <1>9
  <2>2. H + 1 \in Int /\ L \in Int
    BY <1>7
  <2>3. b \in Seq(Digit) /\ Len(b) = (IF H + 1 <= L THEN L - (H + 1) + 1 ELSE 0)
        /\ \A i \in 1 .. L - (H + 1) + 1 : b[i] = read_buf[(H + 1) + i - 1]
    BY <2>1, <2>2, SubSeqProperties
  <2> HIDE DEF b
  <2>4. Len(b) = Len(p.body)
    BY <1>6, <1>7, <2>3
  <2>5. ASSUME NEW i \in 1 .. Len(b) PROVE b[i] = p.body[i]
    <3>1. i \in 1 .. L - (H + 1) + 1 /\ (H + 1) + i - 1 = H + i /\ H + i \in 1 .. L
          /\ H + i \in 1 .. Len(read_buf) /\ i \in 1 .. Len(p.body)
      BY <1>5, <1>6, <1>7, <1>9, <2>4
    <3>2. b[i] = read_buf[H + i]
      BY <2>3, <3>1
    <3>3. read_buf[H + i] = e[H + i]
      BY <1>2, <1>10, <3>1
    <3> QED BY <1>7, <3>1, <3>2, <3>3
  <2>6. b = p.body
    BY <1>6, <2>3, <2>4, <2>5, SeqEqual
  <2> QED BY <2>6 DEF b
<1>13. rest \in Seq(Digit) /\ Len(rest) = Len(read_buf) - L
       /\ \A j \in 1 .. Len(read_buf) - L : rest[j] = read_buf[L + j]
  <2>1. \A i \in L + 1 .. Len(read_buf) : read_buf[i] \in Digit
    BY <1>5, <1>7
  <2> DEFINE r == SubSeq(read_buf, L + 1, Len(read_buf))
  <2>2. L + 1 \in Int /\ Len(read_buf) \in Int
    BY <1>5, <1>7
  <2>3. r \in Seq(Digit)
        /\ Len(r) = (IF L + 1 <= Len(read_buf) THEN Len(read_buf) - (L + 1) + 1 ELSE 0)
        /\ \A i \in 1 .. Len(read_buf) - (L + 1) + 1 : r[i] = read_buf[(L + 1) + i - 1]
    BY <2>1, <2>2, SubSeqProperties
  <2>4. rest = r
    BY <1>8
  <2> HIDE DEF r
  <2>5. rest \in Seq(Digit)
        /\ Len(rest) = (IF L + 1 <= Len(read_buf) THEN Len(read_buf) - (L + 1) + 1 ELSE 0)
        /\ \A i \in 1 .. Len(read_buf) - (L + 1) + 1 : rest[i] = read_buf[(L + 1) + i - 1]
    BY <2>3, <2>4
  <2>6. Len(rest) = (IF L + 1 <= Len(read_buf) THEN Len(read_buf) - (L + 1) + 1 ELSE 0)
    BY <2>5
  <2>7. L \in Nat /\ Len(read_buf) \in Nat
    BY <1>5, <1>7
  <2>8. Len(rest) = Len(read_buf) - L
    BY <1>9, <2>6, <2>7
  <2>9. ASSUME NEW j \in 1 .. Len(read_buf) - L PROVE rest[j] = read_buf[L + j]
    <3>1. j \in 1 .. Len(read_buf) - (L + 1) + 1 /\ (L + 1) + j - 1 = L + j
      BY <1>5, <1>7
    <3> QED BY <2>5, <3>1
  <2> QED BY <2>5, <2>9, <2>8
<1>14. rest \in Seq(Digit)
  BY <1>13
<1>15. L \in Nat /\ Len(rest) \in Nat /\ Len(read_buf) \in Nat /\ Len(wire) \in Nat
       /\ Len(rest) = Len(read_buf) - L /\ Len(Stream) = Len(read_buf) + Len(wire)
  BY <1>5, <1>7, <1>10, <1>13, <1>14
<1>16. /\ rest \o wire \in Seq(Digit)
       /\ Len(rest \o wire) = Len(rest) + Len(wire)
       /\ \A j \in 1 .. Len(rest) : (rest \o wire)[j] = rest[j]
       /\ \A j \in 1 .. Len(wire) : (rest \o wire)[j + Len(rest)] = wire[j]
  BY <1>5, <1>14, ConcatFacts
<1>17. ASSUME NEW j \in 1 .. Len(Stream) - L PROVE (rest \o wire)[j] = Stream[L + j]
  <2>1. CASE j <= Len(rest)
    <3>1. j \in 1 .. Len(rest) /\ j \in 1 .. Len(read_buf) - L /\ L + j \in 1 .. Len(read_buf)
      BY <1>9, <1>15, <2>1
    <3> QED BY <1>10, <1>13, <1>16, <3>1
  <2>2. CASE j > Len(rest)
    <3> DEFINE k == j - Len(rest)
    <3>1. k \in 1 .. Len(wire) /\ k + Len(rest) = j /\ k + Len(read_buf) = L + j
      BY <1>15, <2>2
    <3> HIDE DEF k
    <3> QED BY <1>11, <1>16, <3>1
  <2> QED BY <1>15, <2>1, <2>2
<1>18. Len(rest \o wire) = Len(Stream) - L
  BY <1>16, <1>15
<1>19. Len(got) < Len(sent)
  BY <1>2, <1>4
<1> QED BY <1>3, <1>6, <1>7, <1>8, <1>12, <1>13, <1>17, <1>18, <1>19 DEF p, e, L, rest

--------------------------------------------------------------------------------
(* The actions.                                                            *)
LEMMA InitCodecInv == Init => CodecInv
<1> SUFFICES ASSUME Init PROVE CodecInv
  OBVIOUS
<1> USE DEF Init
<1>1. TypeOK
  <2>1. wire \in Seq(0 .. Radix - 1) /\ read_buf \in Seq(0 .. Radix - 1)
    OBVIOUS
  <2>2. got \in Seq([type : 0 .. Radix - 1, body : Seq(0 .. Radix - 1)])
    OBVIOUS
  <2> QED BY <2>1, <2>2 DEF TypeOK
<1>2. SentOK /\ RetOK /\ ClosedForAReason
  BY DEF SentOK, RetOK, ClosedForAReason
<1>3. DeliveredAsSent
  BY DEF DeliveredAsSent, GotIsPrefixOfSent, OnlyAcceptableDelivered
<1>4. Stream = <<>> /\ Len(Stream) = 0
  BY DEF Stream
<1>5. Cuts(codec, Len(got), sent, Stream, [i \in 1 .. 1 |-> 0])
  BY <1>4 DEF Cuts
<1> QED BY <1>1, <1>5, <1>2, <1>3 DEF CodecInv, Aligned

(* A well-made packet that is sent keeps the invariant.                    *)
LEMMA SendStep ==
  ASSUME CodecInv, NEW type, NEW version, NEW field, NEW body,
         SendBytes(type, version, field, body),
         WellMade(codec, [type |-> type, version |-> version, field |-> field, body |-> body])
  PROVE  CodecInv'
<1> DEFINE p == [type |-> type, version |-> version, field |-> field, body |-> body]
           h == Header(codec, type, version, field)
<1>1. sent' = Append(sent, p) /\ wire' = wire \o h \o body /\ ~ended
      /\ UNCHANGED <<codec, read_buf, open, ended, decoding, ret, got, refused>>
  BY DEF SendBytes
<1>2. p \in Packet /\ codec \in CodecName /\ sent \in Seq(Packet)
  BY DEF CodecInv, WellMade, TypeOK, SentOK
<1>3. h \in Seq(Digit) /\ body \in Seq(Digit) /\ Enc(codec, p) = h \o body
  <2>1. h = Header(codec, p.type, p.version, p.field) /\ body = p.body
    OBVIOUS
  <2> QED BY <1>2, <2>1, HeaderFacts DEF Enc, Packet
<1>4. WellMade(codec, p)
  OBVIOUS
<1> HIDE DEF p, h
<1>5. wire \in Seq(Digit) /\ read_buf \in Seq(Digit)
  BY DEF CodecInv, TypeOK, Digit
<1>6. wire' \in Seq(Digit) /\ wire' = wire \o (h \o body) /\ h \o body \in Seq(Digit)
  <2>1. h \o body \in Seq(Digit)
    BY <1>3, ConcatFacts
  <2>2. (wire \o h) \o body = wire \o (h \o body)
    BY <1>3, <1>5, StreamAssociative
  <2>3. wire \o (h \o body) \in Seq(Digit)
    BY <1>5, <2>1, ConcatFacts
  <2> QED BY <1>1, <2>1, <2>2, <2>3
<1>7. Stream' = Stream \o Enc(codec, p)
  <2>1. (read_buf \o wire) \o (h \o body) = read_buf \o (wire \o (h \o body))
    BY <1>5, <1>6, StreamAssociative
  <2>2. Stream' = read_buf \o (wire \o (h \o body))
    BY <1>1, <1>6 DEF Stream
  <2>3. Stream \o Enc(codec, p) = (read_buf \o wire) \o (h \o body)
    BY <1>3 DEF Stream
  <2> QED BY <2>1, <2>2, <2>3
<1>8. TypeOK'
  BY <1>1, <1>6 DEF CodecInv, TypeOK, Digit
<1>9. /\ Len(sent') = Len(sent) + 1 /\ sent'[Len(sent) + 1] = p /\ sent' \in Seq(Packet)
      /\ \A i \in 1 .. Len(sent) : sent'[i] = sent[i]
  BY <1>1, <1>2
<1>10. SentOK'
  BY <1>1, <1>2, <1>4, <1>9 DEF CodecInv, SentOK
<1>11. Len(got) \in Nat /\ Len(sent) \in Nat /\ Len(got) <= Len(sent)
  BY <1>2 DEF CodecInv, TypeOK, DeliveredAsSent, GotIsPrefixOfSent
<1>12. DeliveredAsSent'
  BY <1>1, <1>9, <1>11 DEF CodecInv, DeliveredAsSent, GotIsPrefixOfSent, OnlyAcceptableDelivered
<1>13. Aligned'
  <2>1. PICK at : Cuts(codec, Len(got), sent, Stream, at)
    BY DEF CodecInv, Aligned
  <2>2. Stream \in Seq(Digit)
    BY StreamType DEF CodecInv
  <2>3. \E a : Cuts(codec, Len(got), Append(sent, p), Stream \o Enc(codec, p), a)
    BY <1>2, <1>11, <2>1, <2>2, CutsAppend
  <2> QED BY <1>1, <1>7, <2>3 DEF Aligned
<1>14. RetOK'
  BY <1>1 DEF CodecInv, RetOK
<1>15. ClosedForAReason'
  <2> SUFFICES ASSUME ~open, ~refused
               PROVE  \E i \in 1 .. Len(sent') : ~Proper(codec', sent'[i])
    BY <1>1 DEF ClosedForAReason, CodecInv, TypeOK
  <2>1. PICK i \in 1 .. Len(sent) : ~Proper(codec, sent[i])
    BY <1>1 DEF CodecInv, ClosedForAReason
  <2>2. i \in 1 .. Len(sent') /\ sent'[i] = sent[i]
    BY <1>9, <1>11
  <2>3. ~Proper(codec', sent'[i])
    BY <1>1, <2>1, <2>2
  <2> QED BY <2>2, <2>3
<1> QED BY <1>8, <1>10, <1>12, <1>13, <1>14, <1>15 DEF CodecInv

(* SendPacket's packets are well made; so are foreign ones, whose length   *)
(* field is wrong or counts their body, which is empty.                    *)
LEMMA SentWellMade ==
  ASSUME NEW c \in CodecName, NEW type \in Digit, NEW version \in Digit, NEW field,
         NEW body \in Seq(Digit), field \in 0 .. Radix * Radix - 1,
         \/ field = LengthField(c, Len(body))
         \/ field > LimitOf[c]
         \/ field < LengthField(c, 0),
         c = "LengthHeader" => type = 0
  PROVE  WellMade(c, [type |-> type, version |-> version, field |-> field, body |-> body])
<1> DEFINE p == [type |-> type, version |-> version, field |-> field, body |-> body]
<1>1. p \in Packet /\ p.field = field /\ p.body = body /\ p.type = type
  BY DEF Packet
<1>2. field \in Nat /\ LimitOf[c] \in Nat /\ LengthField(c, 0) \in Nat
  <2>1. Radix * Radix \in Nat /\ LimitOf[c] \in Nat
    BY CodecAssumption
  <2> QED BY <2>1, LengthFacts
<1> HIDE DEF p
<1>3. p.field \in LengthField(c, 0) .. LimitOf[c] => p.field = LengthField(c, Len(p.body))
  BY <1>1, <1>2
<1> QED BY <1>1, <1>3 DEF WellMade, p

(* SendPacket sends a well-made packet.                                    *)
LEMMA SendPacketStep == ASSUME CodecInv, SendPacket PROVE CodecInv'
<1>1. PICK type \in (IF codec = "LengthHeader" THEN {0} ELSE Type), body \in Body :
        SendBytes(type, kPacketVersion(codec), LengthField(codec, Len(body)), body)
  BY DEF SendPacket
<1>2. codec \in CodecName
  BY DEF CodecInv, TypeOK
<1>3. type \in Digit /\ kPacketVersion(codec) \in Digit /\ body \in Seq(Digit)
  BY CodecAssumption DEF Digit, kPacketVersion
<1>4. LengthField(codec, Len(body)) \in 0 .. Radix * Radix - 1
  <2>1. LengthField(codec, Len(body)) < Radix * Radix
    BY <1>2, LengthAssumption
  <2>2. LengthField(codec, Len(body)) \in Nat
    BY <1>3, LengthFacts
  <2>3. Radix * Radix \in Nat
    BY CodecAssumption
  <2> QED BY <2>1, <2>2, <2>3
<1>5. codec = "LengthHeader" => type = 0
  OBVIOUS
<1> QED BY <1>1, <1>2, <1>3, <1>4, <1>5, SentWellMade, SendStep

(* So does a foreign peer, in the sense of WellMade.                       *)
LEMMA SendForeignStep == ASSUME CodecInv, SendForeign PROVE CodecInv'
<1>1. PICK version \in (IF codec = "LengthHeader" THEN {0} ELSE Version) :
        \/ \E field \in BadLength[codec] : SendBytes(0, version, field, <<>>)
        \/ SendBytes(0, version, LengthField(codec, 0), <<>>)
  BY DEF SendForeign
<1>2. codec \in CodecName
  BY DEF CodecInv, TypeOK
<1>3. 0 \in Digit /\ version \in Digit /\ <<>> \in Seq(Digit) /\ Len(<<>>) = 0
  BY CodecAssumption DEF Digit
<1>4. PICK field : /\ SendBytes(0, version, field, <<>>)
                   /\ field \in BadLength[codec] \/ field = LengthField(codec, 0)
  BY <1>1
<1>5. field \in 0 .. Radix * Radix - 1
  <2>1. CASE field \in BadLength[codec]
    BY <1>2, <2>1, CodecAssumption
  <2>2. CASE field = LengthField(codec, 0)
    <3>1. LengthField(codec, Len(<<>>)) < Radix * Radix
      BY <1>2, LengthAssumption
    <3>2. LengthField(codec, 0) \in Nat /\ Radix * Radix \in Nat
      BY LengthFacts, CodecAssumption
    <3> QED BY <1>3, <2>2, <3>1, <3>2
  <2> QED BY <1>4, <2>1, <2>2
<1>6. \/ field = LengthField(codec, Len(<<>>))
      \/ field > LimitOf[codec]
      \/ field < LengthField(codec, 0)
  <2>1. CASE field \in BadLength[codec]
    <3>1. field > LimitOf[codec] \/ (codec = "TeamTalk" /\ field < HeaderSize(codec))
      BY <1>2, <2>1, LengthAssumption
    <3>2. codec = "TeamTalk" => LengthField(codec, 0) = HeaderSize(codec)
      BY DEF LengthField, HeaderSize
    <3> QED BY <3>1, <3>2
  <2> QED BY <1>3, <1>4, <2>1
<1> QED BY <1>2, <1>3, <1>4, <1>5, <1>6, SentWellMade, SendStep

(* A read moves bytes within the stream.                                   *)
LEMMA ReadStep == ASSUME CodecInv, Read PROVE CodecInv'
<1>1. PICK n \in 1 .. Len(wire) :
        /\ read_buf' = read_buf \o SubSeq(wire, 1, n)
        /\ wire' = SubSeq(wire, n + 1, Len(wire))
  BY DEF Read
<1>2. open /\ decoding' = TRUE /\ ret' = 0 /\ UNCHANGED <<codec, open, ended, sent, got, refused>>
  BY DEF Read
<1>3. wire \in Seq(Digit) /\ read_buf \in Seq(Digit) /\ Len(wire) \in Nat
  BY DEF CodecInv, TypeOK, Digit
<1> DEFINE x == SubSeq(wire, 1, n)
           y == SubSeq(wire, n + 1, Len(wire))
<1>4. x \in Seq(Digit) /\ y \in Seq(Digit)
  BY <1>3
<1>5. x \o y = wire
  <2>1. /\ 1 \in 1 .. Len(wire) + 1 /\ n \in 1 - 1 .. Len(wire) /\ Len(wire) \in n .. Len(wire)
    BY <1>3
  <2>2. x \o y = SubSeq(wire, 1, Len(wire))
    BY <1>3, <2>1, ConcatAdjacentSubSeq
  <2> QED BY <1>3, <2>2, SubSeqFull
<1>6. read_buf' = read_buf \o x /\ wire' = y
  BY <1>1
<1> HIDE DEF x, y
<1>7. read_buf' \in Seq(Digit) /\ wire' \in Seq(Digit) /\ Stream' = Stream
  <2>1. (read_buf \o x) \o y = read_buf \o (x \o y)
    BY <1>3, <1>4, StreamAssociative
  <2>2. Stream' = (read_buf \o x) \o y
    BY <1>6 DEF Stream
  <2>3. Stream' = Stream
    BY <1>5, <2>1, <2>2 DEF Stream
  <2> QED BY <1>3, <1>4, <1>6, <2>3, ConcatFacts
<1>8. TypeOK'
  BY <1>2, <1>7 DEF CodecInv, TypeOK, Digit
<1>9. SentOK' /\ RetOK' /\ ClosedForAReason'
  BY <1>2 DEF CodecInv, SentOK, RetOK, ClosedForAReason
<1>10. DeliveredAsSent'
  BY <1>2 DEF CodecInv, DeliveredAsSent, GotIsPrefixOfSent, OnlyAcceptableDelivered
<1>11. Aligned'
  BY <1>2, <1>7 DEF CodecInv, Aligned
<1> QED BY <1>8, <1>9, <1>10, <1>11 DEF CodecInv

(* Steps that touch neither the stream nor the packets.                    *)
LEMMA QuietStep ==
  ASSUME CodecInv, UNCHANGED <<codec, wire, read_buf, sent, got>>,
         open' \in BOOLEAN, ended' \in BOOLEAN, decoding' \in BOOLEAN, ret' \in {-1, 0, 1},
         refused' \in BOOLEAN, RetOK', ClosedForAReason'
  PROVE  CodecInv'
<1>1. TypeOK' /\ SentOK'
  BY DEF CodecInv, TypeOK, SentOK
<1>2. DeliveredAsSent'
  BY DEF CodecInv, DeliveredAsSent, GotIsPrefixOfSent, OnlyAcceptableDelivered
<1>3. Aligned'
  BY DEF CodecInv, Aligned, Stream
<1> QED BY <1>1, <1>2, <1>3 DEF CodecInv

(* A header that is not accepted closes the connection.                    *)
LEMMA BadHeaderCloses == ASSUME BadHeader PROVE open' = FALSE
<1>1. open' = (-1 = 0) /\ -1 # 0
  BY DEF BadHeader, ReturnToRead
<1> QED BY <1>1

(* A Proper packet at the front is accepted.                               *)
LEMMA ProperAccepted ==
  ASSUME CodecInv, NEW at, Cuts(codec, Len(got), sent, Stream, at),
         HasHeader(codec, read_buf), Proper(codec, sent[Len(got) + 1])
  PROVE  ParsePacketHeader(codec, read_buf) = 0
<1> DEFINE p == sent[Len(got) + 1]
<1>1. /\ WellMade(codec, p) /\ FieldAt(codec, read_buf) = p.field
      /\ VersionAt(codec, read_buf) = (IF codec = "LengthHeader" THEN 0 ELSE p.version)
  BY FrontPacket DEF CodecInv
<1>2. codec \in CodecName /\ LimitOf[codec] \in Nat
  BY CodecAssumption DEF CodecInv, TypeOK
<1>3. /\ p.version = kPacketVersion(codec) /\ p.field = LengthField(codec, Len(p.body))
      /\ p.field <= LimitOf[codec]
  BY DEF Proper
<1> HIDE DEF p
<1>4. p.field \in 0 .. Radix * Radix - 1 /\ p.field \in Nat /\ Len(p.body) \in Nat
  <2>1. p \in Packet
    BY <1>1 DEF WellMade
  <2>2. Radix * Radix \in Nat
    BY CodecAssumption
  <2> QED BY <2>1, <2>2 DEF Packet
<1>5. LengthField(codec, 0) \in Nat /\ LengthField(codec, 0) <= p.field
  BY <1>3, <1>4, LengthFacts
<1>6. p.field \in LengthField(codec, 0) .. LimitOf[codec]
  BY <1>2, <1>3, <1>4, <1>5
<1> QED BY <1>1, <1>2, <1>3, <1>4, <1>6, Accepted

(* A header that is not accepted is that of a packet that is not Proper.   *)
LEMMA BadHeaderImproper ==
  ASSUME CodecInv, BadHeader
  PROVE  Len(got) + 1 \in 1 .. Len(sent) /\ ~Proper(codec, sent[Len(got) + 1])
<1>1. HasHeader(codec, read_buf) /\ ParsePacketHeader(codec, read_buf) = -1
  BY DEF BadHeader
<1>2. PICK at : Cuts(codec, Len(got), sent, Stream, at)
  BY DEF CodecInv, Aligned
<1>3. Len(got) + 1 \in 1 .. Len(sent)
  BY <1>1, <1>2, FrontPacket DEF CodecInv
<1>4. -1 # 0
  OBVIOUS
<1> QED BY <1>1, <1>2, <1>3, <1>4, ProperAccepted

(* So it closes the connection for a reason.                               *)
LEMMA BadHeaderStep == ASSUME CodecInv, BadHeader PROVE CodecInv'
<1>1. /\ decoding' = FALSE /\ open' = FALSE
      /\ HasHeader(codec, read_buf) /\ ParsePacketHeader(codec, read_buf) = -1
      /\ UNCHANGED <<codec, wire, read_buf, ended, ret, sent, got, refused>>
  BY BadHeaderCloses DEF BadHeader, ReturnToRead
<1>2. Len(got) + 1 \in 1 .. Len(sent) /\ ~Proper(codec, sent[Len(got) + 1])
  BY BadHeaderImproper
<1>3. ClosedForAReason'
  <2>1. ~Proper(codec', sent'[Len(got) + 1]) /\ Len(got) + 1 \in 1 .. Len(sent')
    BY <1>1, <1>2
  <2> QED BY <2>1 DEF ClosedForAReason
<1>4. RetOK'
  BY <1>1 DEF CodecInv, RetOK
<1> QED BY <1>1, <1>3, <1>4, QuietStep DEF CodecInv, TypeOK

(* Returning for want of bytes closes only if the delegate refused.        *)
LEMMA IncompleteStep == ASSUME CodecInv, Incomplete PROVE CodecInv'
<1>1. decoding' = FALSE /\ open' = (ret = 0)
      /\ UNCHANGED <<codec, wire, read_buf, ended, ret, sent, got, refused>>
  BY DEF Incomplete, ReturnToRead
<1>2. RetOK'
  BY <1>1 DEF CodecInv, RetOK
<1>3. ClosedForAReason'
  <2>1. ~open' => ret # 0
    BY <1>1
  <2>2. ~open' => refused'
    BY <1>1, <2>1 DEF CodecInv, RetOK
  <2> QED BY <2>2 DEF ClosedForAReason
<1>4. open' \in BOOLEAN
  BY <1>1
<1> QED BY <1>1, <1>2, <1>3, <1>4, QuietStep DEF CodecInv, TypeOK

(* The packet delivered is the first one not yet delivered.                *)
LEMMA DeliverStep == ASSUME CodecInv, Deliver PROVE CodecInv'
<1> DEFINE p == sent[Len(got) + 1]
           L == Len(Enc(codec, p))
           q == [type |-> p.type, body |-> p.body]
<1>1. /\ HasPacket(codec, read_buf)
      /\ got' = Append(got, PacketAt(codec, read_buf))
      /\ read_buf' = Rest(codec, read_buf)
      /\ UNCHANGED <<codec, wire, ended, sent>>
  BY DEF Deliver
<1>2. PICK r \in {-1, 0, 1} : AfterPacket(r) /\ refused' = (refused \/ r # 0)
  BY DEF Deliver
<1>3. PICK at : Cuts(codec, Len(got), sent, Stream, at)
  BY DEF CodecInv, Aligned
<1>4. /\ Len(got) < Len(sent) /\ p \in Packet /\ L \in Nat
      /\ PacketAt(codec, read_buf) = q
      /\ BodyLength(codec, p.field) \in 0 .. LimitOf[codec]
      /\ codec = "TeamTalk" => p.version = kPacketVersion(codec)
      /\ read_buf' \in Seq(Digit)
      /\ Len(read_buf' \o wire) = Len(Stream) - L
      /\ \A j \in 1 .. Len(Stream) - L : (read_buf' \o wire)[j] = Stream[L + j]
  BY <1>1, <1>3, TakenOut DEF CodecInv
<1>5. q \in [type : Digit, body : Seq(Digit)] /\ q.type = p.type /\ q.body = p.body
  BY <1>4 DEF Packet
<1>6. got \in Seq([type : Digit, body : Seq(Digit)]) /\ sent \in Seq(Packet)
  BY DEF CodecInv, TypeOK, SentOK, Digit
<1> HIDE DEF p, L, q
<1>7. /\ got' \in Seq([type : Digit, body : Seq(Digit)])
      /\ Len(got') = Len(got) + 1 /\ got'[Len(got) + 1] = q
      /\ \A i \in 1 .. Len(got) : got'[i] = got[i]
  BY <1>1, <1>4, <1>5, <1>6
<1>8. Len(got) \in Nat /\ Len(sent) \in Nat
  BY <1>6
<1>9. /\ open' \in BOOLEAN /\ decoding' \in BOOLEAN /\ ret' = r
      /\ ~open' => ~open \/ r # 0
  <2>1. CASE codec = "LengthHeader" /\ r # -1
    BY <1>2, <2>1 DEF AfterPacket, CodecInv, TypeOK
  <2>2. CASE ~(codec = "LengthHeader" /\ r # -1)
    <3>1. decoding' = FALSE /\ open' = (r = 0) /\ ret' = r
      BY <1>2, <2>2 DEF AfterPacket, ReturnToRead
    <3> QED BY <3>1
  <2> QED BY <2>1, <2>2
<1>10. refused' \in BOOLEAN /\ (refused' <=> refused \/ r # 0)
  BY <1>2 DEF CodecInv, TypeOK
<1>11. TypeOK'
  BY <1>1, <1>2, <1>4, <1>7, <1>9, <1>10 DEF CodecInv, TypeOK, Digit
<1>12. SentOK' /\ RetOK'
  BY <1>1, <1>9, <1>10 DEF CodecInv, SentOK, RetOK
<1>13. ClosedForAReason'
  <2>1. CASE r # 0
    BY <1>10, <2>1 DEF ClosedForAReason
  <2>2. CASE r = 0
    BY <1>1, <1>9, <1>10, <2>2 DEF CodecInv, ClosedForAReason
  <2> QED BY <2>1, <2>2
<1>14. DeliveredAsSent'
  <2>1. Len(got') <= Len(sent')
    BY <1>1, <1>4, <1>7, <1>8
  <2>2. ASSUME NEW i \in 1 .. Len(got')
        PROVE  /\ got'[i] = [type |-> sent'[i].type, body |-> sent'[i].body]
               /\ BodyLength(codec', sent'[i].field) \in 0 .. LimitOf[codec']
               /\ codec' = "TeamTalk" => sent'[i].version = kPacketVersion(codec')
    <3>1. CASE i = Len(got) + 1
      <4>1. sent'[i] = p /\ got'[i] = q
        BY <1>1, <1>7, <3>1 DEF p
      <4> QED BY <1>1, <1>4, <4>1 DEF q
    <3>2. CASE i # Len(got) + 1
      <4>1. i \in 1 .. Len(got)
        BY <1>7, <1>8, <3>2
      <4> QED BY <1>1, <1>7, <4>1 DEF CodecInv, DeliveredAsSent, GotIsPrefixOfSent,
            OnlyAcceptableDelivered
    <3> QED BY <3>1, <3>2
  <2> QED BY <2>1, <2>2 DEF DeliveredAsSent, GotIsPrefixOfSent, OnlyAcceptableDelivered
<1>15. Aligned'
  <2>1. Stream \in Seq(Digit) /\ codec \in CodecName
    BY StreamType DEF CodecInv, TypeOK
  <2>2. Stream' = read_buf' \o wire
    BY <1>1 DEF Stream
  <2>3. \E a : Cuts(codec, Len(got) + 1, sent, read_buf' \o wire, a)
    BY <1>3, <1>4, <1>6, <1>8, <2>1, CutsRest DEF L, p
  <2> QED BY <1>1, <1>7, <2>2, <2>3 DEF Aligned
<1> QED BY <1>11, <1>12, <1>13, <1>14, <1>15 DEF CodecInv

(* Every step keeps the invariant.                                         *)
LEMMA NextCodecInv == CodecInv /\ [Next]_vars => CodecInv'
<1> SUFFICES ASSUME CodecInv, [Next]_vars PROVE CodecInv'
  OBVIOUS
<1>1. CASE PeerCloses
  <2>1. ended' = TRUE /\ ~ended
        /\ UNCHANGED <<codec, wire, read_buf, open, decoding, ret, sent, got, refused>>
    BY <1>1 DEF PeerCloses
  <2>2. RetOK' /\ ClosedForAReason'
    BY <2>1 DEF CodecInv, RetOK, ClosedForAReason
  <2> QED BY <2>1, <2>2, QuietStep DEF CodecInv, TypeOK
<1>2. CASE ReadEnd
  <2>1. open' = FALSE /\ ended /\ wire = <<>>
        /\ UNCHANGED <<codec, wire, read_buf, ended, decoding, ret, sent, got, refused>>
    BY <1>2 DEF ReadEnd
  <2>2. RetOK' /\ ClosedForAReason'
    BY <2>1 DEF CodecInv, RetOK, ClosedForAReason
  <2> QED BY <2>1, <2>2, QuietStep DEF CodecInv, TypeOK
<1>3. CASE UNCHANGED vars
  <2>1. UNCHANGED <<codec, wire, read_buf, open, ended, decoding, ret, sent, got, refused>>
    BY <1>3 DEF vars
  <2>2. RetOK' /\ ClosedForAReason'
    BY <2>1 DEF CodecInv, RetOK, ClosedForAReason
  <2> QED BY <2>1, <2>2, QuietStep DEF CodecInv, TypeOK
<1> QED BY <1>1, <1>2, <1>3, SendPacketStep, SendForeignStep, ReadStep, BadHeaderStep,
      DeliverStep, IncompleteStep DEF Next

--------------------------------------------------------------------------------
(* Every variable of the codec keeps its range.                            *)
THEOREM CodecTypes == Spec => []TypeOK
<1>1. CodecInv => TypeOK
  BY DEF CodecInv
<1> QED BY <1>1, InitCodecInv, NextCodecInv, PTL DEF Spec

(* However the stream is cut into reads, OnDataReceived hands the delegate *)
(* the packets that were sent, whole, once, in order and within the        *)
(* limits, whatever their bodies look like.                                *)
THEOREM StreamIsDelivered == Spec => []DeliveredAsSent
<1>1. CodecInv => DeliveredAsSent
  BY DEF CodecInv
<1> QED BY <1>1, InitCodecInv, NextCodecInv, PTL DEF Spec

(* A connection on which only packets within the limit were sent is closed *)
(* by its delegate or at the end of the stream, never by the codec.        *)
THEOREM CodecClosesForAReason == Spec => []ClosedForAReason
<1>1. CodecInv => ClosedForAReason
  BY DEF CodecInv
<1> QED BY <1>1, InitCodecInv, NextCodecInv, PTL DEF Spec

--------------------------------------------------------------------------------
(* What is left when the connection closes.  Between two calls of          *)
(* LengthHeaderCodec::OnDataReceived no whole packet is in the buffer.     *)
Drained == codec = "LengthHeader" /\ open /\ ~decoding => ~HasPacket(codec, read_buf)

CloseInv == CodecInv /\ Drained /\ NothingLostAtClose

(* The end of the stream with no whole packet left: everything sent was    *)
(* handed over.                                                            *)
LEMMA EndLosesNothing ==
  ASSUME CodecInv, wire = <<>>, ~HasPacket(codec, read_buf),
         \A i \in 1 .. Len(sent) : Proper(codec, sent[i])
  PROVE  Len(got) = Len(sent)
<1> DEFINE n == Len(got) + 1
           p == sent[n]
           e == Enc(codec, p)
<1>1. Len(got) \in Nat /\ Len(sent) \in Nat /\ Len(got) <= Len(sent) /\ codec \in CodecName
  BY DEF CodecInv, TypeOK, SentOK, DeliveredAsSent, GotIsPrefixOfSent
<1>2. SUFFICES ASSUME Len(got) # Len(sent) PROVE HasPacket(codec, read_buf)
  OBVIOUS
<1>3. n \in 1 .. Len(sent) /\ n \in Len(got) + 1 .. Len(sent)
  BY <1>1, <1>2
<1>4. PICK at : Cuts(codec, Len(got), sent, Stream, at)
  BY DEF CodecInv, Aligned
<1>5. p \in Packet /\ Proper(codec, p)
  BY <1>3 DEF CodecInv, SentOK
<1>6. Len(e) = HeaderSize(codec) + Len(p.body) /\ Len(p.body) \in Nat /\ HeaderSize(codec) \in Nat
  <2>1. p.body \in Seq(Digit) /\ HeaderSize(codec) \in Nat
    BY <1>5 DEF Packet, HeaderSize
  <2>2. Len(e) = HeaderSize(codec) + Len(p.body)
    BY <1>1, <1>5, EncFacts
  <2> QED BY <2>1, <2>2
<1>7. at[n] = 0 /\ at[n + 1] = at[n] + Len(e) /\ at[n + 1] \in 0 .. Len(Stream)
  <2>1. n + 1 \in Len(got) + 1 .. Len(sent) + 1
    BY <1>1, <1>3
  <2> QED BY <1>3, <1>4, <2>1 DEF Cuts
<1>8. Len(Stream) = Len(read_buf) /\ Len(read_buf) \in Nat
  BY StreamType DEF CodecInv, TypeOK
<1> HIDE DEF e, p, n
<1>9. Len(e) <= Len(read_buf)
  BY <1>6, <1>7, <1>8
<1>10. HasHeader(codec, read_buf)
  BY <1>6, <1>8, <1>9 DEF HasHeader
<1>11. ParsePacketHeader(codec, read_buf) = 0
  BY <1>4, <1>5, <1>10, ProperAccepted DEF p, n
<1>12. PacketLength(codec, read_buf) = Len(e)
  BY <1>4, <1>10, <1>11, FrontAccepted DEF CodecInv, e, p, n
<1> QED BY <1>9, <1>10, <1>11, <1>12 DEF HasPacket

(* Every step keeps it.                                                    *)
LEMMA NextCloseInv == CloseInv /\ [Next]_vars => CloseInv'
<1> SUFFICES ASSUME CloseInv, [Next]_vars PROVE CloseInv'
  OBVIOUS
<1>1. CodecInv /\ CodecInv'
  BY NextCodecInv DEF CloseInv
<1>2. SUFFICES Drained' /\ NothingLostAtClose'
  BY <1>1 DEF CloseInv
<1>3. ASSUME NEW type, NEW version, NEW field, NEW body,
             SendBytes(type, version, field, body)
      PROVE  Drained' /\ NothingLostAtClose'
  <2> DEFINE q == [type |-> type, version |-> version, field |-> field, body |-> body]
  <2>1. ~ended /\ sent' = Append(sent, q)
        /\ UNCHANGED <<codec, read_buf, open, ended, decoding, ret, got, refused>>
    BY <1>3 DEF SendBytes
  <2> HIDE DEF q
  <2>2. Drained'
    BY <2>1 DEF CloseInv, Drained
  <2>3. ~open /\ ~refused => \E i \in 1 .. Len(sent') : ~Proper(codec, sent'[i])
    <3> SUFFICES ASSUME ~open, ~refused
                 PROVE  \E i \in 1 .. Len(sent') : ~Proper(codec, sent'[i])
      OBVIOUS
    <3>1. PICK i \in 1 .. Len(sent) : ~Proper(codec, sent[i])
      BY <1>1, <2>1 DEF CodecInv, ClosedForAReason
    <3>2. sent \in Seq(Packet) /\ sent' \in Seq(Packet)
      BY <1>1 DEF CodecInv, SentOK
    <3>3. sent'[i] = sent[i] /\ i \in 1 .. Len(sent')
      BY <2>1, <3>1, <3>2
    <3> QED BY <3>1, <3>3
  <2> QED BY <2>1, <2>2, <2>3 DEF NothingLostAtClose
<1>4. CASE PeerCloses \/ UNCHANGED vars
  <2>1. UNCHANGED <<codec, read_buf, open, decoding, sent, got, refused>>
    BY <1>4 DEF PeerCloses, vars
  <2> QED BY <2>1 DEF CloseInv, Drained, NothingLostAtClose
<1>5. CASE Read
  BY <1>5 DEF Read, Drained, NothingLostAtClose
<1>6. CASE ReadEnd
  <2>1. open /\ ~decoding /\ wire = <<>> /\ open' = FALSE
        /\ UNCHANGED <<codec, wire, read_buf, sent, got, refused>>
    BY <1>6 DEF ReadEnd
  <2>2. ASSUME codec = "LengthHeader", \A i \in 1 .. Len(sent) : Proper(codec, sent[i])
        PROVE  Len(got) = Len(sent)
    <3>1. ~HasPacket(codec, read_buf)
      BY <2>1, <2>2 DEF CloseInv, Drained
    <3> QED BY <1>1, <2>1, <2>2, <3>1, EndLosesNothing
  <2> QED BY <2>1, <2>2 DEF Drained, NothingLostAtClose
<1>7. CASE BadHeader
  <2>1. open' = FALSE
    BY <1>7, BadHeaderCloses
  <2>2. UNCHANGED <<codec, sent, got>>
    BY <1>7 DEF BadHeader
  <2>3. Len(got) + 1 \in 1 .. Len(sent) /\ ~Proper(codec, sent[Len(got) + 1])
    BY <1>1, <1>7, BadHeaderImproper
  <2>4. Len(got) + 1 \in 1 .. Len(sent') /\ ~Proper(codec', sent'[Len(got) + 1])
    BY <2>2, <2>3
  <2> QED BY <2>1, <2>4 DEF Drained, NothingLostAtClose
<1>8. CASE Deliver
  <2>1. PICK r \in {-1, 0, 1} : AfterPacket(r) /\ refused' = (refused \/ r # 0)
    BY <1>8 DEF Deliver
  <2>2. decoding /\ UNCHANGED <<codec, sent>> /\ HasPacket(codec, read_buf)
    BY <1>8 DEF Deliver
  <2>3. Len(got) < Len(sent)
    <3>1. PICK at : Cuts(codec, Len(got), sent, Stream, at)
      BY <1>1 DEF CodecInv, Aligned
    <3> QED BY <1>1, <2>2, <3>1, TakenOut DEF CodecInv
  <2>4. CASE codec = "LengthHeader" /\ r # -1
    <3>1. UNCHANGED <<decoding, open>>
      BY <2>1, <2>4 DEF AfterPacket
    <3>2. ~refused' => ~refused
      BY <1>1, <2>1 DEF CodecInv, TypeOK
    <3>3. Len(got) \in Nat /\ Len(sent) \in Nat
      BY <1>1 DEF CodecInv, TypeOK, SentOK
    <3>4. ASSUME ~open, ~refused PROVE \E i \in 1 .. Len(sent) : ~Proper(codec, sent[i])
      BY <2>3, <2>4, <3>3, <3>4 DEF CloseInv, NothingLostAtClose
    <3> QED BY <2>2, <3>1, <3>2, <3>4 DEF Drained, NothingLostAtClose
  <2>5. CASE codec = "LengthHeader" /\ r = -1
    <3>1. open' = (r = 0) /\ r # 0
      BY <2>1, <2>5 DEF AfterPacket, ReturnToRead
    <3>2. open' = FALSE /\ refused'
      BY <2>1, <3>1
    <3> QED BY <3>2 DEF Drained, NothingLostAtClose
  <2>6. CASE codec # "LengthHeader"
    BY <2>2, <2>6 DEF Drained, NothingLostAtClose
  <2> QED BY <2>4, <2>5, <2>6
<1>9. CASE Incomplete
  <2>1. open' = (ret = 0) /\ UNCHANGED <<codec, read_buf, ret, sent, got, refused>>
    BY <1>9 DEF Incomplete, ReturnToRead
  <2>2. ~HasPacket(codec, read_buf)
    BY <1>9 DEF Incomplete, HasPacket
  <2>3. ~open' => refused'
    <3>1. ~open' => ret # 0
      BY <2>1
    <3> QED BY <1>1, <2>1, <3>1 DEF CodecInv, RetOK
  <2> QED BY <2>1, <2>2, <2>3 DEF Drained, NothingLostAtClose
<1>10. CASE SendPacket
  BY <1>3, <1>10 DEF SendPacket
<1>11. CASE SendForeign
  BY <1>3, <1>11 DEF SendForeign
<1> QED BY <1>4, <1>5, <1>6, <1>7, <1>8, <1>9, <1>10, <1>11 DEF Next

(* LengthHeaderCodec leaves no packet behind: when a connection on which   *)
(* only packets within the limit were sent closes without a refusal, its   *)
(* delegate has been given every one of them.                              *)
THEOREM CloseLosesNothing == Spec => []NothingLostAtClose
<1>1. Init => CloseInv
  <2> SUFFICES ASSUME Init PROVE CloseInv
    OBVIOUS
  <2>1. Drained
    BY DEF Init, Drained, HasPacket, HasHeader, HeaderSize
  <2>2. NothingLostAtClose
    BY DEF Init, NothingLostAtClose
  <2> QED BY <2>1, <2>2, InitCodecInv DEF CloseInv
<1>2. CloseInv => NothingLostAtClose
  BY DEF CloseInv
<1> QED BY <1>1, <1>2, NextCloseInv, PTL DEF Spec
=============================================================================

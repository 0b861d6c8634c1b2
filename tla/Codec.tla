--------------------------------- MODULE Codec ---------------------------------
(***************************************************************************)
(* net/codec: the codecs that cut a connection's byte stream into packets: *)
(* LengthHeaderCodec, ZNetCodec and TeamTalkCodec, each called by          *)
(* IOHandler::Read with whatever the stream has delivered so far.          *)
(*                                                                         *)
(* The three differ in the layout of the header, in what they check of it, *)
(* in what their length field counts and in when OnDataReceived returns.   *)
(* One behaviour is about one of them (variable codec).  The stream is a   *)
(* sequence of digits below Radix, each standing for a byte of the header  *)
(* or the body; a length field is two digits, most significant first.  The *)
(* message type stands for the type and reserved fields together.          *)
(*                                                                         *)
(* OnDataReceived runs on the connection's loop thread and only it touches *)
(* read_buf_, so each turn of its while loop is one step.                  *)
(* The definitions named Faulty... are plausible mistakes in the code;     *)
(* each stands before the definition it would replace.                     *)
(***************************************************************************)
EXTENDS Integers, Sequences

CONSTANTS
  Radix,      (* digits are 0 .. Radix - 1                                  *)
  LimitOf,    (* LimitOf[c]: kMaxPacketSize (65536 for LengthHeader)        *)
  Type,       (* message types                                              *)
  Version,    (* versions peers write, kPacketVersion among them            *)
  Body,       (* bodies of packets, sequences of digits                     *)
  BadLength,  (* BadLength[c]: length fields a foreign peer writes, with no *)
              (* body, and no header of c may have                          *)
  MaxPackets  (* bound: packets sent                                        *)

CodecName == {"LengthHeader", "ZNet", "TeamTalk"}

ASSUME CodecAssumption ==
  /\ Radix \in Nat \ {0, 1}
  /\ LimitOf \in [CodecName -> Nat]
  /\ \A c \in CodecName : 2 * LimitOf[c] < Radix * Radix
  /\ Type \cup Version \subseteq 0 .. Radix - 1
  /\ Body \subseteq Seq(0 .. Radix - 1)
  /\ BadLength \in [CodecName -> SUBSET (0 .. Radix * Radix - 1)]
  /\ MaxPackets \in Nat

VARIABLES
  codec,      (* which codec the connection uses                            *)
  wire,       (* bytes in flight from the peer                              *)
  read_buf,   (* the connection's read_buf_                                 *)
  open,       (* the connection is not closed                               *)
  ended,      (* the peer closed its side                                   *)
  decoding,   (* OnDataReceived is running                                  *)
  ret,        (* its local ret                                              *)
  sent,       (* history: packets the peer sent                             *)
  got,        (* history: packets handed to the codec's delegate            *)
  refused     (* history: a call returned nonzero because of the delegate   *)

vars == <<codec, wire, read_buf, open, ended, decoding, ret, sent, got, refused>>

Init ==
  /\ codec \in CodecName
  /\ wire = <<>> /\ read_buf = <<>>
  /\ open = TRUE /\ ended = FALSE /\ decoding = FALSE /\ ret = 0
  /\ sent = <<>> /\ got = <<>> /\ refused = FALSE

--------------------------------------------------------------------------------
(* The headers.                                                            *)
kPacketVersion(c) == IF c = "TeamTalk" THEN 1 ELSE 0

HeaderSize(c) == IF c = "LengthHeader" THEN 2 ELSE 4

Digits(n) == <<n \div Radix, n % Radix>>

(* TeamTalk's length field counts the header.                              *)
FaultyFieldCountsBody(c, body_len) == body_len

LengthField(c, body_len) ==
  IF c = "TeamTalk" THEN body_len + HeaderSize(c) ELSE body_len

(* The constructors of Packet and TeamTalkPacket lay out the header.       *)
Header(c, type, version, field) ==
  CASE c = "LengthHeader" -> Digits(field)
    [] c = "ZNet" -> <<version, type>> \o Digits(field)
    [] c = "TeamTalk" -> Digits(field) \o <<type, version>>

(* What a header at the front of buf says, once it is there.               *)
FieldAt(c, buf) ==
  IF c = "ZNet" THEN buf[3] * Radix + buf[4] ELSE buf[1] * Radix + buf[2]

VersionAt(c, buf) ==
  CASE c = "LengthHeader" -> 0 [] c = "ZNet" -> buf[1] [] c = "TeamTalk" -> buf[4]

TypeAt(c, buf) ==
  CASE c = "LengthHeader" -> 0 [] c = "ZNet" -> buf[2] [] c = "TeamTalk" -> buf[3]

(* LengthHeaderCodec reads its length as an int32.                         *)
AsInt32(field) ==
  IF 2 * field >= Radix * Radix THEN field - Radix * Radix ELSE field

BodyLength(c, field) ==
  IF c = "LengthHeader" THEN AsInt32(field) ELSE field - LengthField(c, 0)

(* LengthHeaderCodec accepts a negative length.                            *)
FaultyParseTakesNegative(c, buf) ==
  LET field == FieldAt(c, buf)
      bad == CASE c = "LengthHeader" -> BodyLength(c, field) > LimitOf[c]
               [] c = "ZNet" -> field > LimitOf[c]
               [] c = "TeamTalk" -> \/ VersionAt(c, buf) # kPacketVersion(c)
                                    \/ field > LimitOf[c]
                                    \/ field < HeaderSize(c)
  IN IF bad THEN -1 ELSE 0

(* ParsePacketHeader: -1 for a header that is not accepted.  LengthHeader  *)
(* has the test in OnDataReceived; ZNet has its version check commented    *)
(* out.  The answer 1 (no body) is 0 here: both lead to a packet of the    *)
(* length the header says.                                                 *)
ParsePacketHeader(c, buf) ==
  LET field == FieldAt(c, buf)
      bad == CASE c = "LengthHeader" -> \/ BodyLength(c, field) > LimitOf[c]
                                        \/ BodyLength(c, field) < 0
               [] c = "ZNet" -> field > LimitOf[c]
               [] c = "TeamTalk" -> \/ VersionAt(c, buf) # kPacketVersion(c)
                                    \/ field > LimitOf[c]
                                    \/ field < HeaderSize(c)
  IN IF bad THEN -1 ELSE 0

(* A length BadLength names is one a header may not have; bodies are short *)
(* enough for the uint32 in which Packet keeps the length.                 *)
ASSUME LengthAssumption ==
  \A c \in CodecName :
    /\ \A field \in BadLength[c] :
         field > LimitOf[c] \/ (c = "TeamTalk" /\ field < HeaderSize(c))
    /\ \A body \in Body \cup {<<>>} : LengthField(c, Len(body)) < Radix * Radix

HasHeader(c, buf) == Len(buf) >= HeaderSize(c)

(* The length of the packet at the front.                                  *)
PacketLength(c, buf) == HeaderSize(c) + BodyLength(c, FieldAt(c, buf))

(* A whole packet is at the front.                                         *)
HasPacket(c, buf) ==
  /\ HasHeader(c, buf)
  /\ ParsePacketHeader(c, buf) = 0
  /\ Len(buf) >= PacketLength(c, buf)

--------------------------------------------------------------------------------
(* The peer.                                                               *)
SendBytes(type, version, field, body) ==
  /\ ~ended
  /\ Len(sent) < MaxPackets
  /\ wire' = wire \o Header(codec, type, version, field) \o body
  /\ sent' = Append(sent, [type |-> type, version |-> version, field |-> field,
                           body |-> body])
  /\ UNCHANGED <<codec, read_buf, open, ended, decoding, ret, got, refused>>

(* SendPacket: a packet made by the constructor, which writes the version  *)
(* and checks no limit.  LengthHeaderCodec::SendPacket is a stub that      *)
(* sends nothing; there it stands for a peer that keeps to the format.     *)
SendPacket ==
  \E type \in (IF codec = "LengthHeader" THEN {0} ELSE Type), body \in Body :
    SendBytes(type, kPacketVersion(codec), LengthField(codec, Len(body)), body)

(* A peer that is not this program, with another version or a length field *)
(* the limits exclude.                                                     *)
SendForeign ==
  \E version \in (IF codec = "LengthHeader" THEN {0} ELSE Version) :
    \/ \E field \in BadLength[codec] : SendBytes(0, version, field, <<>>)
    \/ /\ version # kPacketVersion(codec)
       /\ SendBytes(0, version, LengthField(codec, 0), <<>>)

PeerCloses ==
  /\ ~ended
  /\ ended' = TRUE
  /\ UNCHANGED <<codec, wire, read_buf, open, decoding, ret, sent, got, refused>>

--------------------------------------------------------------------------------
(* The connection.                                                         *)

(* IOHandler::Read: some of the bytes in flight, then OnDataReceived.      *)
Read ==
  /\ open /\ ~decoding
  /\ \E n \in 1 .. Len(wire) :
       /\ read_buf' = read_buf \o SubSeq(wire, 1, n)
       /\ wire' = SubSeq(wire, n + 1, Len(wire))
  /\ decoding' = TRUE
  /\ ret' = 0
  /\ UNCHANGED <<codec, open, ended, sent, got, refused>>

(* ... or the end of the stream.                                           *)
ReadEnd ==
  /\ open /\ ~decoding /\ ended /\ wire = <<>>
  /\ open' = FALSE
  /\ UNCHANGED <<codec, wire, read_buf, ended, decoding, ret, sent, got, refused>>

(* OnDataReceived returns r to Read, which closes unless r is 0.           *)
ReturnToRead(r) ==
  /\ decoding' = FALSE
  /\ open' = (r = 0)

(* The header is not accepted.                                             *)
BadHeader ==
  /\ decoding
  /\ HasHeader(codec, read_buf) /\ ParsePacketHeader(codec, read_buf) = -1
  /\ ReturnToRead(-1)
  /\ UNCHANGED <<codec, wire, read_buf, ended, ret, sent, got, refused>>

(* The packet the delegate is given; ZNet and TeamTalk build a new one,    *)
(* with their own version.                                                 *)
PacketAt(c, buf) ==
  [type |-> TypeAt(c, buf),
   body |-> SubSeq(buf, HeaderSize(c) + 1, PacketLength(c, buf))]

(* Only the body is taken out of the buffer.                               *)
FaultyRestKeepsHeader(c, buf) == SubSeq(buf, BodyLength(c, FieldAt(c, buf)) + 1, Len(buf))

Rest(c, buf) == SubSeq(buf, PacketLength(c, buf) + 1, Len(buf))

(* LengthHeaderCodec stops after one packet too.                           *)
FaultyAfterPacketReturns(r) == ReturnToRead(r) /\ ret' = r

(* After a packet, LengthHeaderCodec goes on unless the delegate says -1;  *)
(* the other codecs return what the delegate returned.                     *)
AfterPacket(r) ==
  IF codec = "LengthHeader" /\ r # -1
  THEN ret' = r /\ UNCHANGED <<decoding, open>>
  ELSE ReturnToRead(r) /\ ret' = r

(* A whole packet: the delegate is called, then the packet is retrieved.   *)
Deliver ==
  /\ decoding
  /\ HasPacket(codec, read_buf)
  /\ got' = Append(got, PacketAt(codec, read_buf))
  /\ read_buf' = Rest(codec, read_buf)
  /\ \E r \in {-1, 0, 1} : AfterPacket(r) /\ refused' = (refused \/ r # 0)
  /\ UNCHANGED <<codec, wire, ended, sent>>

(* Less than a packet is left: return the last ret.                        *)
Incomplete ==
  /\ decoding
  /\ HasHeader(codec, read_buf) => /\ ParsePacketHeader(codec, read_buf) = 0
                                   /\ ~HasPacket(codec, read_buf)
  /\ ReturnToRead(ret)
  /\ UNCHANGED <<codec, wire, read_buf, ended, ret, sent, got, refused>>

Next ==
  \/ SendPacket \/ SendForeign \/ PeerCloses
  \/ Read \/ ReadEnd
  \/ BadHeader \/ Deliver \/ Incomplete

Spec == Init /\ [][Next]_vars

(* The loop thread serves a readable connection.                           *)
FairSpec == Spec /\ WF_vars(Read \/ ReadEnd \/ BadHeader \/ Deliver \/ Incomplete)

--------------------------------------------------------------------------------
(* Every variable stays in its range; in particular every byte written to  *)
(* the stream is one.                                                      *)
TypeOK ==
  /\ codec \in CodecName
  /\ wire \in Seq(0 .. Radix - 1) /\ read_buf \in Seq(0 .. Radix - 1)
  /\ open \in BOOLEAN /\ ended \in BOOLEAN /\ decoding \in BOOLEAN
  /\ ret \in {-1, 0, 1} /\ refused \in BOOLEAN
  /\ got \in Seq([type : 0 .. Radix - 1, body : Seq(0 .. Radix - 1)])

(* However the stream is cut into reads, the delegate is given the packets *)
(* that were sent, whole, once and in order.                               *)
GotIsPrefixOfSent ==
  /\ Len(got) <= Len(sent)
  /\ \A i \in 1 .. Len(got) :
       got[i] = [type |-> sent[i].type, body |-> sent[i].body]

(* A header over a limit, with a negative length or with TeamTalk's wrong  *)
(* version is never taken for a packet.  ZNetCodec takes any version:      *)
(* VersionChecked is what its comment says and the code does not do.       *)
OnlyAcceptableDelivered ==
  \A i \in 1 .. Len(got) :
    /\ BodyLength(codec, sent[i].field) \in 0 .. LimitOf[codec]
    /\ codec = "TeamTalk" => sent[i].version = kPacketVersion(codec)

(* What the delegate is given is what was sent, and what the codec's       *)
(* header check lets through: the version is part of it for TeamTalk only. *)
DeliveredAsSent == GotIsPrefixOfSent /\ OnlyAcceptableDelivered

(* The comment on ZNetPacketHeader::ParsePacketHeader: a header with the   *)
(* wrong version is an error, so no packet that has one is handed over.    *)
VersionChecked ==
  codec = "ZNet" =>
    \A i \in 1 .. Len(got) : sent[i].version = kPacketVersion(codec)

(* A packet this program's SendPacket makes, within the limit.             *)
Proper(c, p) ==
  /\ p.version = kPacketVersion(c)
  /\ p.body \in Body /\ p.field = LengthField(c, Len(p.body))
  /\ p.field <= LimitOf[c]

(* The connection survives any packet this program's SendPacket makes      *)
(* within the limit: it is closed only by its delegate, the peer, or a     *)
(* packet that is foreign or too long.                                     *)
ClosedForAReason ==
  ~open => \/ refused
           \/ ended /\ wire = <<>>
           \/ \E i \in 1 .. Len(sent) : ~Proper(codec, sent[i])

(* However the last packets are cut into reads and however closely the end *)
(* of the stream follows them, none is left in read_buf_ when the          *)
(* connection closes: with LengthHeaderCodec, a delegate that never        *)
(* refuses and packets within the limit, all that was sent was handed      *)
(* over.  ZNetCodec and TeamTalkCodec, which return after one packet, make *)
(* no such promise.                                                        *)
NothingLostAtClose ==
  /\ codec = "LengthHeader" /\ ~open /\ ~refused
  /\ \A i \in 1 .. Len(sent) : Proper(codec, sent[i])
  => Len(got) = Len(sent)

(* What LengthHeaderCodec's peer sends arrives, unless the connection is   *)
(* closed.                                                                 *)
SentIsDelivered ==
  \A i \in 1 .. MaxPackets :
    codec = "LengthHeader" /\ Len(sent) = i /\ open
      ~> (Len(got) >= i \/ ~open)
=============================================================================

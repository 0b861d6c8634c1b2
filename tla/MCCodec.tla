-------------------------------- MODULE MCCodec --------------------------------
(* Values of Codec's constants for TLC: limits, digits and bodies scaled   *)
(* down, bodies whose digits could pass for a header and one that is over  *)
(* every limit among them.                                                 *)
EXTENDS Codec

MCLimitOf == [c \in CodecName |-> IF c = "TeamTalk" THEN 6 ELSE 3]

MCBody == {<<>>, <<1>>, <<0, 1>>, <<1, 0, 0, 1>>}

(* One over the limit, a negative length, less than a header.              *)
MCBadLength == [c \in CodecName |->
  CASE c = "LengthHeader" -> {4, 15} [] c = "ZNet" -> {4} [] c = "TeamTalk" -> {3, 7}]
=============================================================================

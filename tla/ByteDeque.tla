------------------------------- MODULE ByteDeque -------------------------------
(***************************************************************************)
(* What net::IOBuffer is to its users: a sequence of bytes, written at the *)
(* end, read from the front, with a few bytes that may be put back in      *)
(* front (a header) or taken back from the end.                            *)
(*                                                                         *)
(* call is the last operation with its argument, so that an implementation *)
(* is held to what each operation does, and not merely to some change a    *)
(* double-ended sequence may make.                                         *)
(***************************************************************************)
EXTENDS Integers, Sequences

CONSTANTS
  Strings,    (* the byte sequences one call may write or put in front      *)
  Reserves    (* the arguments of Shrink                                    *)

VARIABLES content, call

Called(op, arg) == call' = <<op, arg>>

Init == content = <<>> /\ call = <<"none", 0>>

Write(data) == content' = content \o data /\ Called("Write", data)

ReadFd(data) == content' = content \o data /\ Called("ReadFd", data)

Prepend(data) == content' = data \o content /\ Called("Prepend", data)

Taken(n) ==
  /\ n <= Len(content)
  /\ content' = SubSeq(content, n + 1, Len(content))

Retrieve(n) == Taken(n) /\ Called("Retrieve", n)

(* The name says two bytes; the code takes four.  The specification says   *)
(* what the code does: nothing calls the operation, and a caller that      *)
(* believes the name loses two bytes of its stream.                        *)
ReadLittleEndianInt16 == Taken(4) /\ Called("ReadLittleEndianInt16", 0)

Unwrite(n) ==
  /\ n <= Len(content)
  /\ content' = SubSeq(content, 1, Len(content) - n)
  /\ Called("Unwrite", n)

Shrink(reserve) == UNCHANGED content /\ Called("Shrink", reserve)

Next ==
  \/ \E data \in Strings : Write(data) \/ ReadFd(data) \/ Prepend(data)
  \/ \E n \in 0 .. Len(content) : Retrieve(n) \/ Unwrite(n)
  \/ \E reserve \in Reserves : Shrink(reserve)
  \/ ReadLittleEndianInt16

Spec == Init /\ [][Next]_<<content, call>>
=============================================================================

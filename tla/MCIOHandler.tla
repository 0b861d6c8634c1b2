------------------------------ MODULE MCIOHandler ------------------------------
(* Values of IOHandler's constants for TLC.                                *)
EXTENDS IOHandler

MCByte == {1, 2, 3}

(* One payload the kernel may take in parts, one it takes whole or not.    *)
MCPayload == {<<1, 2>>, <<3>>}

(* uint32 scaled down: larger than every payload by more than one.         *)
MCWrap == 16
=============================================================================

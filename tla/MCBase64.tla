------------------------------- MODULE MCBase64 -------------------------------
(***************************************************************************)
(* Instance of Base64: bytes with all bits, none, every second, and those  *)
(* that give the characters at the ends of the alphabet.                   *)
(***************************************************************************)
EXTENDS Base64

MCByte == {0, 107, 170, 251, 255}
MCGarbage == {0, 90}
===============================================================================

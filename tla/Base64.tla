-------------------------------- MODULE Base64 --------------------------------
(***************************************************************************)
(* base64.cc: base64_encode reads an input byte by byte through a buffer   *)
(* of three, base64_decode reads what it wrote character by character      *)
(* through a buffer of four.  Characters are their ASCII codes, bytes      *)
(* unsigned char.                                                          *)
(***************************************************************************)
EXTENDS Integers, Sequences

CONSTANTS
  Byte,     \* the bytes an input is made of
  Garbage,  \* what a buffer may hold when a function is called
  MaxLength \* bound on its length

ASSUME ByteAssumption == Byte \subseteq 0..255 /\ Garbage \subseteq 0..255
ASSUME MaxLengthAssumption == MaxLength \in Nat

VARIABLES
  phase,   \* "encode", "decode", "done"
  input,   \* history: the bytes given to base64_encode so far
  a3,      \* a3 of base64_encode
  output,  \* what it wrote
  encLen,  \* encLen, the characters it counts and returns
  a4,      \* a4 of base64_decode
  at,      \* characters it has read
  decoded, \* what it wrote
  decLen   \* decLen, the bytes it counts and returns

vars == <<phase, input, a3, output, encLen, a4, at, decoded, decLen>>

(* i of base64_encode and base64_decode *)
Filled3 == Len(input) % 3
Filled4 == at % 4

Init ==
  /\ phase = "encode"
  /\ input = <<>>
  /\ a3 \in [0..2 -> Garbage]
  /\ output = <<>>
  /\ encLen = 0
  /\ a4 = [k \in 0..3 |-> 0]
  /\ at = 0
  /\ decoded = <<>>
  /\ decLen = 0

-----------------------------------------------------------------------------
(* Bits and characters *)

Equals == 61

(* '\0', written behind what is counted *)
Terminator == <<0>>

b64_alphabet(v) ==
  CASE v \in 0..25  -> 65 + v
    [] v \in 26..51 -> 71 + v
    [] v \in 52..61 -> v - 4
    [] v = 62       -> 43
    [] OTHER        -> 47

(* -1 as an unsigned char for everything else *)
b64_lookup(c) ==
  CASE c \in 65..90  -> c - 65
    [] c \in 97..122 -> c - 71
    [] c \in 48..57  -> c + 4
    [] c = 43        -> 62
    [] c = 47        -> 63
    [] OTHER         -> 255

(* Mutant: the bits that cross two bytes in the wrong order *)
a3_to_a4_crossed(a) ==
  << a[0] \div 4,
     (a[0] % 4) + ((a[1] \div 16) * 4),
     ((a[1] % 16) * 4) + (a[2] \div 64),
     a[2] % 64 >>

a3_to_a4(a) ==
  << a[0] \div 4,
     ((a[0] % 4) * 16) + (a[1] \div 16),
     ((a[1] % 16) * 4) + (a[2] \div 64),
     a[2] % 64 >>

a4_to_a3(a) ==
  << ((a[0] * 4) + ((a[1] % 64) \div 16)) % 256,
     ((a[1] % 16) * 16) + ((a[2] % 64) \div 4),
     (((a[2] % 4) * 64) + a[3]) % 256 >>

Characters(a) == LET v == a3_to_a4(a) IN [k \in 1..4 |-> b64_alphabet(v[k])]

-----------------------------------------------------------------------------
(* base64_encode *)

(* One turn of the loop over the input *)
EncodeByte(b) ==
  /\ phase = "encode"
  /\ Len(input) < MaxLength
  /\ input' = Append(input, b)
  /\ a3' = [a3 EXCEPT ![Filled3] = b]
  /\ IF Filled3 = 2
     THEN output' = output \o Characters(a3') /\ encLen' = encLen + 4
     ELSE UNCHANGED <<output, encLen>>
  /\ UNCHANGED <<phase, a4, at, decoded, decLen>>

(* Mutants: what was in the buffer stays, one "=" whatever is missing *)
KeepRest == a3
PadOnce(n) == <<Equals>>

ClearRest == [k \in 0..2 |-> IF k < Filled3 THEN a3[k] ELSE 0]
Padding(n) == [k \in 1..(3 - n) |-> Equals]

(* What the loop left over, the padding and the zero *)
EncodeRest ==
  /\ phase = "encode"
  /\ phase' = "decode"
  /\ IF Filled3 = 0
     THEN /\ output' = output \o Terminator
          /\ UNCHANGED <<a3, encLen>>
     ELSE /\ a3' = ClearRest
          /\ output' = output \o SubSeq(Characters(a3'), 1, Filled3 + 1) \o Padding(Filled3) \o Terminator
          /\ encLen' = encLen + (Filled3 + 1) + Len(Padding(Filled3))
  /\ a4' \in [0..3 -> Garbage]
  /\ UNCHANGED <<input, at, decoded, decLen>>

-----------------------------------------------------------------------------
(* base64_decode *)

Lookup(a) == [k \in 0..3 |-> b64_lookup(a[k])]

(* One turn of the loop over the characters that were counted *)
DecodeChar ==
  /\ phase = "decode"
  /\ at < encLen
  /\ output[at + 1] # Equals
  /\ at' = at + 1
  /\ LET filled == [a4 EXCEPT ![Filled4] = output[at + 1]]
     IN IF Filled4 = 3
        THEN /\ a4' = Lookup(filled)
             /\ decoded' = decoded \o a4_to_a3(a4')
             /\ decLen' = decLen + 3
        ELSE /\ a4' = filled
             /\ UNCHANGED <<decoded, decLen>>
  /\ UNCHANGED <<phase, input, a3, output, encLen>>

(* At the first "=" or at the end: what the loop left over, and the zero *)
DecodeRest ==
  /\ phase = "decode"
  /\ at < encLen => output[at + 1] = Equals
  /\ phase' = "done"
  /\ IF Filled4 = 0
     THEN /\ decoded' = decoded \o Terminator
          /\ UNCHANGED <<a4, decLen>>
     ELSE /\ a4' = Lookup([k \in 0..3 |-> IF k < Filled4 THEN a4[k] ELSE 0])
          /\ decoded' = decoded \o SubSeq(a4_to_a3(a4'), 1, Filled4 - 1) \o Terminator
          /\ decLen' = decLen + (Filled4 - 1)
  /\ UNCHANGED <<input, a3, output, encLen, at>>

Next == (\E b \in Byte : EncodeByte(b)) \/ EncodeRest \/ DecodeChar \/ DecodeRest

Spec == Init /\ [][Next]_vars

base64_enc_len(n) == ((n + 2 - ((n + 2) % 3)) \div 3) * 4

(* The last of the first n characters that is not "=" *)
base64_dec_len(s, n) ==
  LET last == CHOOSE k \in 1..n : s[k] # Equals /\ \A m \in (k + 1)..n : s[m] = Equals
  IN ((6 * n) \div 8) - (n - last)

-----------------------------------------------------------------------------
(* Properties *)

(* Types: what is in the buffers and what is written are bytes at every    *)
(* step, "=" and characters of no alphabet included, and the reader stays  *)
(* in the characters it is given (a3, a4, output of both functions).       *)
TypeOK ==
  /\ phase \in {"encode", "decode", "done"}
  /\ input \in Seq(0..255) /\ output \in Seq(0..255) /\ decoded \in Seq(0..255)
  /\ a3 \in [0..2 -> 0..255] /\ a4 \in [0..3 -> 0..255]
  /\ encLen \in Nat /\ decLen \in Nat /\ at \in 0..encLen

(* The bits of the input, from the first byte's highest, zeros behind it.  *)
Bit(n) == IF (n \div 8) < Len(input) THEN (input[(n \div 8) + 1] \div 2^(7 - (n % 8))) % 2 ELSE 0
Sextet(k) == 32 * Bit(6 * k) + 16 * Bit(6 * k + 1) + 8 * Bit(6 * k + 2)
             + 4 * Bit(6 * k + 3) + 2 * Bit(6 * k + 4) + Bit(6 * k + 5)

(* Every character of the encoding stands for its six bits of the input,   *)
(* zeros behind the last byte, and "=" stands where no bit is left: what   *)
(* was in the buffer before does not show (base64_encode).                 *)
SixBitsEach ==
  phase # "encode" =>
    \A k \in 0..(encLen - 1) :
      output[k + 1] = IF 6 * k < 8 * Len(input) THEN b64_alphabet(Sextet(k)) ELSE Equals

(* The lengths computed in advance are those returned, and each function   *)
(* writes exactly one byte more, the terminating zero: a buffer of         *)
(* base64_enc_len or base64_dec_len bytes is one too short                 *)
(* (base64_enc_len, base64_dec_len, base64_encode, base64_decode).         *)
LengthsAgree ==
  /\ phase # "encode" => /\ encLen = base64_enc_len(Len(input))
                         /\ Len(output) = encLen + 1
                         /\ output[encLen + 1] = 0
  /\ phase = "done" => /\ encLen > 0 => decLen = base64_dec_len(output, encLen)
                       /\ Len(decoded) = decLen + 1

(* Decoding what was encoded gives the input back, with the zero behind    *)
(* it, for every number of bytes in the last block (base64_encode,         *)
(* base64_decode).                                                         *)
RoundTrip == phase = "done" => decLen = Len(input) /\ decoded = input \o Terminator
===============================================================================

----------------------------- MODULE Base64Proofs -----------------------------
(***************************************************************************)
(* Proofs about Base64 for inputs of every length.  The invariant Inv says *)
(* of every block what its characters are, as a function of the input      *)
(* (Code), which characters wait in a4, and that what is decoded is a      *)
(* prefix of the input that ends with a block.                             *)
(***************************************************************************)
EXTENDS Base64, SequenceTheorems, TLAPS

(* The two tables are inverse, and "=" is no character of the alphabet     *)
(* (b64_alphabet, b64_lookup).                                             *)
LEMMA LookupAlphabet ==
  ASSUME NEW v \in 0..63
  PROVE  /\ b64_lookup(b64_alphabet(v)) = v
         /\ b64_alphabet(v) \in 0..255
         /\ b64_alphabet(v) # Equals
<1>1. CASE v \in 0..25
  BY <1>1 DEF b64_lookup, b64_alphabet, Equals
<1>2. CASE v \in 26..51
  BY <1>2 DEF b64_lookup, b64_alphabet, Equals
<1>3. CASE v \in 52..61
  BY <1>3 DEF b64_lookup, b64_alphabet, Equals
<1>4. CASE v = 62
  BY <1>4 DEF b64_lookup, b64_alphabet, Equals
<1>5. CASE v = 63
  BY <1>5 DEF b64_lookup, b64_alphabet, Equals
<1> QED BY <1>1, <1>2, <1>3, <1>4, <1>5

(* A byte in two parts, cut after 6, 4 or 2 bits *)
LEMMA Parts ==
  ASSUME NEW x \in 0..255
  PROVE  /\ x \div 4 \in 0..63 /\ x % 4 \in 0..3 /\ x = 4 * (x \div 4) + (x % 4)
         /\ x \div 16 \in 0..15 /\ x % 16 \in 0..15 /\ x = 16 * (x \div 16) + (x % 16)
         /\ x \div 64 \in 0..3 /\ x % 64 \in 0..63 /\ x = 64 * (x \div 64) + (x % 64)
<1>1. x \div 4 \in 0..63 /\ x % 4 \in 0..3 /\ x = 4 * (x \div 4) + (x % 4)
  OBVIOUS
<1>2. x \div 16 \in 0..15 /\ x % 16 \in 0..15 /\ x = 16 * (x \div 16) + (x % 16)
  OBVIOUS
<1>3. x \div 64 \in 0..3 /\ x % 64 \in 0..63 /\ x = 64 * (x \div 64) + (x % 64)
  OBVIOUS
<1> QED BY <1>1, <1>2, <1>3

(* A function on 1..4 is a sequence of four. *)
LEMMA FourOf ==
  ASSUME NEW S, NEW w \in [1..4 -> S]
  PROVE  w \in Seq(S) /\ Len(w) = 4
<1>1. 4 \in Nat
  OBVIOUS
<1>2. w \in UNION {[1..n -> S] : n \in Nat}
  BY <1>1, Zenon
<1>3. w \in Seq(S)
  BY <1>2, SeqDef, Zenon
<1>4. DOMAIN w = 1..4 /\ DOMAIN w = 1..Len(w) /\ Len(w) \in Nat
  BY <1>3, LenProperties
<1> QED BY <1>3, <1>4

(* Three bytes are four values below 64, from which they come back         *)
(* (a3_to_a4, a4_to_a3).                                                   *)
LEMMA Sextets ==
  ASSUME NEW a \in [0..2 -> 0..255]
  PROVE  /\ a3_to_a4(a) \in Seq(0..63)
         /\ Len(a3_to_a4(a)) = 4
         /\ a4_to_a3([k \in 0..3 |-> a3_to_a4(a)[k + 1]]) = <<a[0], a[1], a[2]>>
<1> DEFINE q == a[0] \div 4
           r == a[0] % 4
           s == a[1] \div 16
           t == a[1] % 16
           u == a[2] \div 64
           v == a[2] % 64
           w == <<q, (r * 16) + s, (t * 4) + u, v>>
<1>1. /\ q \in 0..63 /\ r \in 0..3 /\ s \in 0..15 /\ t \in 0..15 /\ u \in 0..3 /\ v \in 0..63
      /\ a[0] = 4 * q + r /\ a[1] = 16 * s + t /\ a[2] = 64 * u + v
  BY Parts
<1>2. a3_to_a4(a) = w
  BY DEF a3_to_a4
<1> HIDE DEF q, r, s, t, u, v
<1>3. /\ (r * 16) + s \in 0..63
      /\ (t * 4) + u \in 0..63
      /\ ((q * 4) + ((((r * 16) + s) % 64) \div 16)) % 256 = 4 * q + r
      /\ ((((r * 16) + s) % 16) * 16) + ((((t * 4) + u) % 64) \div 4) = 16 * s + t
      /\ (((((t * 4) + u) % 4) * 64) + v) % 256 = 64 * u + v
  <2>1. (r * 16) + s \in 0..63 /\ (t * 4) + u \in 0..63
    BY <1>1
  <2>2. ((r * 16) + s) % 16 = s /\ (((r * 16) + s) % 64) \div 16 = r
    BY <1>1
  <2>3. ((t * 4) + u) % 4 = u /\ (((t * 4) + u) % 64) \div 4 = t
    BY <1>1
  <2>4. ((q * 4) + r) % 256 = 4 * q + r /\ ((u * 64) + v) % 256 = 64 * u + v
    BY <1>1
  <2>5. ((q * 4) + ((((r * 16) + s) % 64) \div 16)) % 256 = 4 * q + r
    BY <2>2, <2>4
  <2>6. ((((r * 16) + s) % 16) * 16) + ((((t * 4) + u) % 64) \div 4) = 16 * s + t
    BY <1>1, <2>2, <2>3
  <2>7. (((((t * 4) + u) % 4) * 64) + v) % 256 = 64 * u + v
    BY <2>3, <2>4, SMTT(30)
  <2> QED BY <2>1, <2>5, <2>6, <2>7
<1>4. w \in Seq(0..63) /\ Len(w) = 4
  <2>1. \A A, B, C, D \in 0..63 : <<A, B, C, D>> \in Seq(0..63) /\ Len(<<A, B, C, D>>) = 4
    OBVIOUS
  <2> QED BY <2>1, <1>1, <1>3, ZenonT(40)
<1>5. a4_to_a3([k \in 0..3 |-> w[k + 1]])
        = << ((q * 4) + ((((r * 16) + s) % 64) \div 16)) % 256,
             ((((r * 16) + s) % 16) * 16) + ((((t * 4) + u) % 64) \div 4),
             (((((t * 4) + u) % 4) * 64) + v) % 256 >>
  BY DEF a4_to_a3
<1>6. a4_to_a3([k \in 0..3 |-> w[k + 1]]) = <<4 * q + r, 16 * s + t, 64 * u + v>>
  BY <1>3, <1>5
<1>7. <<4 * q + r, 16 * s + t, 64 * u + v>> = <<a[0], a[1], a[2]>>
  <2>1. 4 * q + r = a[0] /\ 16 * s + t = a[1] /\ 64 * u + v = a[2]
    BY <1>1
  <2> QED BY <2>1, Zenon
<1>8. a4_to_a3([k \in 0..3 |-> w[k + 1]]) = <<a[0], a[1], a[2]>>
  BY <1>6, <1>7, ZenonT(40)
<1> HIDE DEF w
<1> QED BY <1>2, <1>4, <1>8

(* Three elements are a sequence of three. *)
LEMMA ThreeOf ==
  ASSUME NEW S, NEW x \in S, NEW y \in S, NEW z \in S
  PROVE  <<x, y, z>> \in Seq(S) /\ Len(<<x, y, z>>) = 3
OBVIOUS

(* What four looked-up characters are decoded to is bytes, the first from  *)
(* the first two, the second from the middle two, the third from the last. *)
LEMMA Decoded ==
  ASSUME NEW f \in [0..3 -> 0..255], NEW g \in [0..3 -> 0..255]
  PROVE  /\ a4_to_a3(f) \in Seq(0..255)
         /\ Len(a4_to_a3(f)) = 3
         /\ f[0] = g[0] /\ f[1] = g[1] => a4_to_a3(f)[1] = a4_to_a3(g)[1]
         /\ f[1] = g[1] /\ f[2] = g[2] => a4_to_a3(f)[2] = a4_to_a3(g)[2]
         /\ f[2] = g[2] /\ f[3] = g[3] => a4_to_a3(f)[3] = a4_to_a3(g)[3]
<1> DEFINE x == ((f[0] * 4) + ((f[1] % 64) \div 16)) % 256
           y == ((f[1] % 16) * 16) + ((f[2] % 64) \div 4)
           z == (((f[2] % 4) * 64) + f[3]) % 256
<1>1. f[1] % 16 \in 0..15 /\ f[2] % 64 \in 0..63
  BY Parts
<1>2. (f[2] % 64) \div 4 \in 0..15
  BY <1>1
<1>3. y \in 0..255
  BY <1>1, <1>2
<1>4. x \in 0..255
  <2>1. f[1] % 64 \in 0..63
    BY Parts
  <2>2. (f[1] % 64) \div 16 \in 0..3
    BY <2>1
  <2>3. (f[0] * 4) + ((f[1] % 64) \div 16) \in Nat
    BY <2>2
  <2> DEFINE n == (f[0] * 4) + ((f[1] % 64) \div 16)
  <2>4. n % 256 \in 0..255
    <3>1. n \in Nat
      BY <2>3
    <3> HIDE DEF n
    <3> QED BY <3>1
  <2> QED BY <2>4, Zenon
<1>5. z \in 0..255
  <2>1. f[2] % 4 \in 0..3
    BY Parts
  <2>2. ((f[2] % 4) * 64) + f[3] \in Nat
    BY <2>1
  <2> DEFINE n == ((f[2] % 4) * 64) + f[3]
  <2>3. n % 256 \in 0..255
    <3>1. n \in Nat
      BY <2>2
    <3> HIDE DEF n
    <3> QED BY <3>1
  <2> QED BY <2>3, Zenon
<1>6. a4_to_a3(f) = <<x, y, z>>
  BY DEF a4_to_a3
<1>7. a4_to_a3(f) \in Seq(0..255) /\ Len(a4_to_a3(f)) = 3
  <2> HIDE DEF x, y, z
  <2>1. <<x, y, z>> \in Seq(0..255) /\ Len(<<x, y, z>>) = 3
    BY <1>3, <1>4, <1>5, ThreeOf
  <2> QED BY <1>6, <2>1, Zenon
<1> QED BY <1>6, <1>7, ZenonT(40) DEF a4_to_a3

(* What is looked up is a byte (b64_lookup). *)
LEMMA LookupBytes ==
  ASSUME NEW f \in [0..3 -> 0..255]
  PROVE  Lookup(f) \in [0..3 -> 0..255]
<1>1. ASSUME NEW c \in 0..255 PROVE b64_lookup(c) \in 0..255
  <2>1. CASE c \in 65..90
    BY <2>1 DEF b64_lookup
  <2>2. CASE c \in 97..122
    BY <2>2 DEF b64_lookup
  <2>3. CASE c \in 48..57
    BY <2>3 DEF b64_lookup
  <2>4. CASE c = 43
    BY <2>4 DEF b64_lookup
  <2>5. CASE c = 47
    BY <2>5 DEF b64_lookup
  <2>6. CASE ~(c \in 65..90 \/ c \in 97..122 \/ c \in 48..57 \/ c = 43 \/ c = 47)
    <3>1. b64_lookup(c) = 255
      BY <2>6 DEF b64_lookup
    <3> QED BY <3>1
  <2> QED BY <2>1, <2>2, <2>3, <2>4, <2>5, <2>6, Zenon
<1> QED BY <1>1, ZenonT(40) DEF Lookup

(* A function is typed by its values. *)
LEMMA FunctionOf ==
  \A A, B, f : f = [x \in A |-> f[x]] /\ (\A x \in A : f[x] \in B) => f \in [A -> B]
OBVIOUS

(* The four characters of three bytes, and how the bytes come back: byte j *)
(* from the characters j and j + 1 alone.                                  *)
LEMMA Block ==
  ASSUME NEW a \in [0..2 -> 0..255]
  PROVE  /\ Characters(a) \in Seq(0..255)
         /\ Len(Characters(a)) = 4
         /\ \A k \in 1..4 : Characters(a)[k] # Equals
         /\ \A f \in [0..3 -> 0..255] : \A j \in 1..3 :
              f[j - 1] = Characters(a)[j] /\ f[j] = Characters(a)[j + 1]
                => a4_to_a3(Lookup(f))[j] = a[j - 1]
<1> DEFINE v == a3_to_a4(a)
           g == [k \in 0..3 |-> v[k + 1]]
<1>1. v \in Seq(0..63) /\ Len(v) = 4 /\ a4_to_a3(g) = <<a[0], a[1], a[2]>>
  BY Sextets
<1> HIDE DEF v
<1>2. \A k \in 1..4 : v[k] \in 0..63
  BY <1>1, ElementOfSeq, ZenonT(40)
<1>3. Characters(a) = [k \in 1..4 |-> b64_alphabet(v[k])]
  BY DEF Characters, v
<1>4. \A k \in 1..4 : /\ b64_alphabet(v[k]) \in 0..255
                      /\ b64_alphabet(v[k]) # Equals
                      /\ b64_lookup(b64_alphabet(v[k])) = v[k]
  BY <1>2, LookupAlphabet, ZenonT(40)
<1>5. Characters(a) \in [1..4 -> 0..255]
  <2>1. ASSUME NEW k \in 1..4 PROVE Characters(a)[k] \in 0..255
    <3>1. Characters(a)[k] = b64_alphabet(v[k])
      BY <1>3, Zenon
    <3> QED BY <1>4, <3>1
  <2>2. Characters(a) = [k \in 1..4 |-> Characters(a)[k]]
    BY <1>3
  <2> QED BY <2>1, <2>2, FunctionOf, ZenonT(40)
<1>6. Characters(a) \in Seq(0..255) /\ Len(Characters(a)) = 4
  BY <1>5, FourOf, ZenonT(40)
<1>7. \A k \in 1..4 : Characters(a)[k] # Equals
  BY <1>3, <1>4
<1>8. g \in [0..3 -> 0..255]
  BY <1>2
<1>9. ASSUME NEW f \in [0..3 -> 0..255], NEW j \in 1..3,
             f[j - 1] = Characters(a)[j], f[j] = Characters(a)[j + 1]
      PROVE  a4_to_a3(Lookup(f))[j] = a[j - 1]
  <2>1. Lookup(f)[j - 1] = g[j - 1] /\ Lookup(f)[j] = g[j]
    BY <1>3, <1>4, <1>9 DEF Lookup
  <2>2. a4_to_a3(Lookup(f))[j] = a4_to_a3(g)[j]
    <3> HIDE DEF g
    <3> DEFINE h == Lookup(f)
    <3>1. h \in [0..3 -> 0..255] /\ h[j - 1] = g[j - 1] /\ h[j] = g[j]
      BY <2>1, LookupBytes
    <3> HIDE DEF h
    <3>2. /\ h[0] = g[0] /\ h[1] = g[1] => a4_to_a3(h)[1] = a4_to_a3(g)[1]
          /\ h[1] = g[1] /\ h[2] = g[2] => a4_to_a3(h)[2] = a4_to_a3(g)[2]
          /\ h[2] = g[2] /\ h[3] = g[3] => a4_to_a3(h)[3] = a4_to_a3(g)[3]
      BY <3>1, <1>8, Decoded, ZenonT(40)
    <3>3. j = 1 \/ j = 2 \/ j = 3
      OBVIOUS
    <3>4. a4_to_a3(h)[j] = a4_to_a3(g)[j]
      BY <3>1, <3>2, <3>3
    <3> QED BY <3>4 DEF h
  <2> QED BY <1>1, <2>2
<1> QED BY <1>6, <1>7, <1>9

-----------------------------------------------------------------------------
(* What the encoding says, block by block *)

(* The three bytes of block b, zeros behind the last *)
Triple(s, b) == [k \in 0..2 |-> IF 3 * b + k < Len(s) THEN s[3 * b + k + 1] ELSE 0]

(* Its k-th character *)
Code(s, b, k) == IF 3 * b + k <= Len(s) + 1 THEN Characters(Triple(s, b))[k] ELSE Equals

(* The blocks written so far *)
Blocks == IF phase = "encode" THEN Len(input) \div 3 ELSE (Len(input) + 2) \div 3

Written ==
  /\ encLen = 4 * Blocks
  /\ Len(output) = IF phase = "encode" THEN encLen ELSE encLen + 1
  /\ phase # "encode" => output[encLen + 1] = 0
  /\ \A b \in 0..(Blocks - 1) : \A k \in 1..4 : output[4 * b + k] = Code(input, b, k)

(* The bytes waiting in a3 *)
Gathered ==
  phase = "encode" =>
    /\ \A k \in 0..2 : k < Filled3 => a3[k] = input[3 * (Len(input) \div 3) + k + 1]
    /\ at = 0
    /\ decoded = <<>>
    /\ decLen = 0

(* What is decoded, and the characters waiting in a4 *)
Returned ==
  phase = "decode" =>
    LET b == at \div 4
    IN /\ 3 * b <= Len(input)
       /\ Filled4 > 0 => 3 * b + Filled4 <= Len(input) + 1
       /\ Len(decoded) = 3 * b /\ decLen = 3 * b
       /\ \A j \in 1..(3 * b) : decoded[j] = input[j]
       /\ \A k \in 0..3 : k < Filled4 => a4[k] = output[4 * b + k + 1]

Inv == TypeOK /\ Written /\ Gathered /\ Returned /\ RoundTrip

(* Two sequences of bytes, one behind the other *)
LEMMA Joined ==
  ASSUME NEW s \in Seq(0..255), NEW t \in Seq(0..255)
  PROVE  /\ s \o t \in Seq(0..255)
         /\ Len(s \o t) = Len(s) + Len(t)
         /\ \A j \in 1..Len(s) : (s \o t)[j] = s[j]
         /\ \A j \in 1..Len(t) : (s \o t)[Len(s) + j] = t[j]
<1>1. Len(s) \in Nat /\ Len(t) \in Nat
  OBVIOUS
<1>2. /\ s \o t \in Seq(0..255)
      /\ Len(s \o t) = Len(s) + Len(t)
      /\ \A j \in 1..(Len(s) + Len(t)) : (s \o t)[j] = IF j <= Len(s) THEN s[j] ELSE t[j - Len(s)]
  BY ConcatProperties
<1> QED BY <1>1, <1>2

(* The first n bytes of a sequence *)
LEMMA Front ==
  ASSUME NEW s \in Seq(0..255), NEW n \in Nat, n <= Len(s)
  PROVE  /\ SubSeq(s, 1, n) \in Seq(0..255)
         /\ Len(SubSeq(s, 1, n)) = n
         /\ \A j \in 1..n : SubSeq(s, 1, n)[j] = s[j]
<1>1. Len(s) \in Nat
  OBVIOUS
<1>2. \A j \in 1..n : j \in 1..Len(s)
  BY <1>1
<1>3. \A j \in 1..n : s[j] \in 0..255
  BY <1>2, ElementOfSeq
<1>4. SubSeq(s, 1, n) \in Seq(0..255)
  BY <1>3, SubSeqProperties
<1>5. Len(SubSeq(s, 1, n)) = IF 1 <= n THEN n - 1 + 1 ELSE 0
  BY <1>3, SubSeqProperties
<1>6. \A j \in 1..(n - 1 + 1) : SubSeq(s, 1, n)[j] = s[1 + j - 1]
  BY <1>3, SubSeqProperties
<1>7. n - 1 + 1 = n /\ (1 <= n \/ n = 0) /\ \A j \in 1..n : 1 + j - 1 = j
  OBVIOUS
<1> QED BY <1>4, <1>5, <1>6, <1>7

(* Counting on by one over a block of three, and the number of blocks *)
LEMMA Thirds ==
  ASSUME NEW n \in Nat
  PROVE  /\ n \div 3 \in Nat /\ n % 3 \in 0..2 /\ n = 3 * (n \div 3) + (n % 3)
         /\ n % 3 < 2 => (n + 1) \div 3 = n \div 3 /\ (n + 1) % 3 = (n % 3) + 1
         /\ n % 3 = 2 => (n + 1) \div 3 = (n \div 3) + 1 /\ (n + 1) % 3 = 0
         /\ n % 3 = 0 => (n + 2) \div 3 = n \div 3
         /\ n % 3 # 0 => (n + 2) \div 3 = (n \div 3) + 1
OBVIOUS

(* Counting on by one over a block of four *)
LEMMA Quarters ==
  ASSUME NEW n \in Nat
  PROVE  /\ n \div 4 \in Nat /\ n % 4 \in 0..3 /\ n = 4 * (n \div 4) + (n % 4)
         /\ n % 4 < 3 => (n + 1) \div 4 = n \div 4 /\ (n + 1) % 4 = (n % 4) + 1
         /\ n % 4 = 3 => (n + 1) \div 4 = (n \div 4) + 1 /\ (n + 1) % 4 = 0
OBVIOUS

(* The three bytes of a block are bytes. *)
LEMMA TripleBytes ==
  ASSUME NEW s \in Seq(0..255), NEW b \in Nat
  PROVE  Triple(s, b) \in [0..2 -> 0..255]
<1>1. ASSUME NEW k \in 0..2, 3 * b + k < Len(s)
      PROVE  s[3 * b + k + 1] \in 0..255
  <2>1. Len(s) \in Nat
    OBVIOUS
  <2>2. 3 * b + k + 1 \in 1..Len(s)
    BY <1>1, <2>1
  <2> QED BY <2>2, ElementOfSeq
<1>2. \A k \in 0..2 : (IF 3 * b + k < Len(s) THEN s[3 * b + k + 1] ELSE 0) \in 0..255
  <2> TAKE k \in 0..2
  <2>1. CASE 3 * b + k < Len(s)
    BY <1>1, <2>1
  <2>2. CASE ~(3 * b + k < Len(s))
    BY <2>2
  <2> QED BY <2>1, <2>2
<1> QED BY <1>2 DEF Triple

(* A character of the encoding is a byte, and "=" exactly behind the rest. *)
LEMMA CodeBytes ==
  ASSUME NEW s \in Seq(0..255), NEW b \in Nat, NEW k \in 1..4
  PROVE  /\ Code(s, b, k) \in 0..255
         /\ 3 * b + k <= Len(s) + 1 <=> Code(s, b, k) # Equals
<1> DEFINE c == Characters(Triple(s, b))
<1>1. c \in Seq(0..255) /\ Len(c) = 4 /\ c[k] # Equals
  BY TripleBytes, Block, ZenonT(40)
<1>2. c[k] \in 0..255
  BY <1>1, ElementOfSeq
<1>3. Equals \in 0..255
  BY DEF Equals
<1>4. Code(s, b, k) = IF 3 * b + k <= Len(s) + 1 THEN c[k] ELSE Equals
  BY DEF Code
<1> QED BY <1>1, <1>2, <1>3, <1>4, Zenon

(* A full block is not changed by a byte behind it. *)
LEMMA CodeStays ==
  ASSUME NEW s \in Seq(0..255), NEW x \in 0..255, NEW b \in Nat, 3 * b + 3 <= Len(s),
         NEW k \in 1..4
  PROVE  Code(Append(s, x), b, k) = Code(s, b, k)
<1>1. Len(s) \in Nat
  OBVIOUS
<1>2. Len(Append(s, x)) = Len(s) + 1
  OBVIOUS
<1>3. \A j \in 0..2 : 3 * b + j + 1 \in 1..Len(s)
  BY <1>1
<1>4. \A j \in 1..Len(s) : Append(s, x)[j] = s[j]
  OBVIOUS
<1>5. \A j \in 0..2 : 3 * b + j < Len(s) /\ 3 * b + j < Len(s) + 1
  BY <1>1
<1>6. Triple(Append(s, x), b) = Triple(s, b)
  BY <1>2, <1>3, <1>4, <1>5 DEF Triple
<1>7. 3 * b + k <= Len(s) + 1 /\ 3 * b + k <= (Len(s) + 1) + 1
  BY <1>1
<1> QED BY <1>2, <1>6, <1>7 DEF Code

-----------------------------------------------------------------------------
(* The invariant *)

(* The invariant holds when base64_encode is called. *)
LEMMA InitInv == Init => Inv
<1> SUFFICES ASSUME Init PROVE Inv
  OBVIOUS
<1> USE DEF Init
<1>1. TypeOK
  <2>1. a3 \in [0..2 -> 0..255]
    BY ByteAssumption
  <2>2. <<>> \in Seq(0..255) /\ 0 \in Nat /\ 0 \in 0..0
    OBVIOUS
  <2> QED BY <2>1, <2>2 DEF TypeOK
<1>2. Blocks = 0 /\ Len(output) = 0
  BY DEF Blocks
<1>3. Written
  BY <1>2 DEF Written
<1>4. Filled3 = 0
  BY DEF Filled3
<1> QED BY <1>1, <1>3, <1>4 DEF Inv, Gathered, Returned, RoundTrip

(* One turn of the loop of base64_encode keeps it: a block is written when *)
(* its third byte has come.                                                *)
LEMMA EncodeByteInv ==
  ASSUME Inv, NEW x \in Byte, EncodeByte(x)
  PROVE  Inv'
<1> DEFINE n == Len(input)
           m == n \div 3
<1>1. /\ phase = "encode" /\ phase' = "encode"
      /\ input' = Append(input, x)
      /\ a3' = [a3 EXCEPT ![Filled3] = x]
      /\ IF Filled3 = 2 THEN output' = output \o Characters(a3') /\ encLen' = encLen + 4
                        ELSE output' = output /\ encLen' = encLen
      /\ UNCHANGED <<a4, at, decoded, decLen>>
  BY DEF EncodeByte
<1>2. /\ input \in Seq(0..255) /\ output \in Seq(0..255) /\ decoded \in Seq(0..255)
      /\ a3 \in [0..2 -> 0..255] /\ a4 \in [0..3 -> 0..255]
  BY DEF Inv, TypeOK
<1>3. n \in Nat /\ Len(output) \in Nat
  BY <1>2
<1>4. /\ m \in Nat /\ Filled3 \in 0..2 /\ n = 3 * m + Filled3
      /\ Filled3 < 2 => (n + 1) \div 3 = m /\ (n + 1) % 3 = Filled3 + 1
      /\ Filled3 = 2 => (n + 1) \div 3 = m + 1 /\ (n + 1) % 3 = 0
  BY <1>3, Thirds DEF Filled3
<1>5. x \in 0..255
  BY ByteAssumption
<1>6. a3' \in [0..2 -> 0..255]
  BY <1>1, <1>2, <1>4, <1>5
<1>7. /\ input' \in Seq(0..255)
      /\ Len(input') = n + 1
      /\ \A j \in 1..n : input'[j] = input[j]
      /\ input'[n + 1] = x
  BY <1>1, <1>2, <1>5
<1>8. /\ encLen = 4 * m /\ Len(output) = 4 * m
      /\ \A b \in 0..(m - 1) : \A k \in 1..4 : output[4 * b + k] = Code(input, b, k)
  BY <1>1 DEF Inv, Written, Blocks
<1>9. \A b \in 0..(m - 1) : \A k \in 1..4 : output[4 * b + k] = Code(input', b, k)
  <2> TAKE b \in 0..(m - 1), k \in 1..4
  <2>1. b \in Nat /\ 3 * b + 3 <= n
    BY <1>3, <1>4
  <2>2. Code(input', b, k) = Code(input, b, k)
    BY <1>1, <1>2, <1>5, <2>1, CodeStays
  <2> QED BY <1>8, <2>2
<1>10. \A k \in 0..2 : k < Filled3 => a3[k] = input[3 * m + k + 1]
  BY <1>1 DEF Inv, Gathered
<1>11. \A k \in 0..2 : k <= Filled3 => a3'[k] = input'[3 * m + k + 1]
  <2> TAKE k \in 0..2
  <2>1. CASE k < Filled3
    <3>1. 3 * m + k + 1 \in 1..n
      BY <1>3, <1>4, <2>1
    <3>2. a3'[k] = a3[k]
      BY <1>1, <1>2, <1>4, <2>1
    <3> QED BY <1>7, <1>10, <2>1, <3>1, <3>2
  <2>2. CASE k = Filled3
    <3>1. a3'[k] = x
      BY <1>1, <1>2, <1>4, <2>2
    <3>2. 3 * m + k + 1 = n + 1
      BY <1>3, <1>4, <2>2
    <3> QED BY <1>7, <3>1, <3>2
  <2> QED BY <1>4, <2>1, <2>2
<1>12. at = 0 /\ decoded = <<>> /\ decLen = 0
  BY <1>1 DEF Inv, Gathered
<1> HIDE DEF m, n
<1>13. CASE Filled3 < 2
  <2>1. output' = output /\ encLen' = encLen
    BY <1>1, <1>4, <1>13
  <2>2. Filled3' = Filled3 + 1 /\ Len(input') \div 3 = m
    BY <1>4, <1>7, <1>13 DEF Filled3
  <2>3. Blocks' = m
    BY <1>1, <2>2 DEF Blocks
  <2>4. Written'
    BY <1>1, <1>8, <1>9, <2>1, <2>3 DEF Written
  <2>5. \A k \in 0..2 : k < Filled3 + 1 => k <= Filled3
    BY <1>4
  <2>6. Gathered'
    BY <1>1, <1>11, <1>12, <2>2, <2>5 DEF Gathered
  <2>7. TypeOK'
    <3>1. encLen' \in Nat /\ at' \in 0..encLen' /\ decLen' \in Nat
      BY <1>1, <1>4, <1>8, <1>12, <2>1
    <3> QED BY <1>1, <1>2, <1>6, <1>7, <2>1, <3>1 DEF TypeOK
  <2> QED BY <1>1, <2>4, <2>6, <2>7 DEF Inv, Returned, RoundTrip
<1>14. CASE Filled3 = 2
  <2> DEFINE c == Characters(a3')
  <2>1. c \in Seq(0..255) /\ Len(c) = 4
    BY <1>6, Block
  <2>2. output' = output \o c /\ encLen' = encLen + 4
    BY <1>1, <1>14
  <2>3. Filled3' = 0 /\ Len(input') \div 3 = m + 1 /\ Len(input') = 3 * (m + 1)
    BY <1>3, <1>4, <1>7, <1>14 DEF Filled3
  <2>4. a3' = Triple(input', m)
    <3>1. \A k \in 0..2 : 3 * m + k < Len(input')
      BY <1>4, <2>3
    <3>2. \A k \in 0..2 : a3'[k] = input'[3 * m + k + 1]
      BY <1>11, <1>14
    <3>3. \A k \in 0..2 : a3'[k] = Triple(input', m)[k]
      BY <3>1, <3>2 DEF Triple
    <3>4. Triple(input', m) \in [0..2 -> 0..255]
      BY <1>4, <1>7, TripleBytes
    <3> QED BY <1>6, <3>3, <3>4
  <2>5. \A k \in 1..4 : c[k] = Code(input', m, k)
    <3>1. \A k \in 1..4 : 3 * m + k <= Len(input') + 1
      BY <1>4, <2>3
    <3> QED BY <2>4, <3>1 DEF Code
  <2> HIDE DEF c
  <2>6. /\ output' \in Seq(0..255)
        /\ Len(output') = 4 * m + 4
        /\ \A j \in 1..(4 * m) : output'[j] = output[j]
        /\ \A k \in 1..4 : output'[4 * m + k] = c[k]
    <3>1. Len(output) = 4 * m
      BY <1>8
    <3>2. /\ output \o c \in Seq(0..255)
          /\ Len(output \o c) = Len(output) + Len(c)
          /\ \A j \in 1..Len(output) : (output \o c)[j] = output[j]
          /\ \A k \in 1..Len(c) : (output \o c)[Len(output) + k] = c[k]
      <4>1. output \in Seq(0..255) /\ c \in Seq(0..255)
        BY <1>2, <2>1
      <4> QED BY <4>1, Joined, ZenonT(40)
    <3> QED BY <2>1, <2>2, <3>1, <3>2, Zenon
  <2>7. Blocks' = m + 1
    BY <1>1, <2>3 DEF Blocks
  <2>8. Written'
    <3>1. Len(output') = 4 * (m + 1) /\ encLen' = 4 * (m + 1)
      BY <1>4, <1>8, <2>2, <2>6
    <3>2. ASSUME NEW b \in 0..m, NEW k \in 1..4
          PROVE  output'[4 * b + k] = Code(input', b, k)
      <4>1. CASE b = m
        BY <2>5, <2>6, <4>1
      <4>2. CASE b # m
        <5>1. b \in 0..(m - 1) /\ 4 * b + k \in 1..(4 * m)
          BY <1>4, <4>2
        <5> QED BY <1>9, <2>6, <5>1
      <4> QED BY <4>1, <4>2
    <3>3. (m + 1) - 1 = m
      BY <1>4
    <3> QED BY <1>1, <2>7, <3>1, <3>2, <3>3 DEF Written
  <2>9. Gathered'
    BY <1>1, <1>12, <2>3 DEF Gathered
  <2>10. TypeOK'
    <3>1. encLen' \in Nat /\ at' \in 0..encLen' /\ decLen' \in Nat
      BY <1>1, <1>4, <1>8, <1>12, <2>2
    <3> QED BY <1>1, <1>2, <1>6, <1>7, <2>6, <3>1 DEF TypeOK
  <2> QED BY <1>1, <2>8, <2>9, <2>10 DEF Inv, Returned, RoundTrip
<1> QED BY <1>4, <1>13, <1>14

(* The padding is as many "=" as bytes are missing. *)
LEMMA PaddingIsEquals ==
  ASSUME NEW n \in 1..2
  PROVE  /\ Padding(n) \in Seq(0..255)
         /\ Len(Padding(n)) = 3 - n
         /\ \A k \in 1..(3 - n) : Padding(n)[k] = Equals
<1> DEFINE p == Padding(n)
<1>1. CASE n = 1
  <2>1. Padding(n) = [k \in 1..2 |-> 61]
    BY <1>1 DEF Padding, Equals
  <2>2. p = <<61, 61>>
    BY <2>1
  <2> HIDE DEF p
  <2>3. p \in Seq(0..255) /\ Len(p) = 2 /\ p[1] = 61 /\ p[2] = 61
    BY <2>2
  <2>4. 3 - n = 2 /\ \A k \in 1..2 : k = 1 \/ k = 2
    BY <1>1
  <2> QED BY <2>3, <2>4 DEF Equals, p
<1>2. CASE n = 2
  <2>1. Padding(n) = [k \in 1..1 |-> 61]
    BY <1>2 DEF Padding, Equals
  <2>2. p = <<61>>
    BY <2>1
  <2> HIDE DEF p
  <2>3. p \in Seq(0..255) /\ Len(p) = 1 /\ p[1] = 61
    BY <2>2
  <2>4. 3 - n = 1 /\ \A k \in 1..1 : k = 1
    BY <1>2
  <2> QED BY <2>3, <2>4 DEF Equals, p
<1> QED BY <1>1, <1>2

(* Blocks and one to three characters are no number of blocks *)
LEMMA NotFull ==
  ASSUME NEW b \in Nat, NEW m \in Nat, NEW k \in 1..3
  PROVE  ~(4 * b + k = 4 * m)
OBVIOUS

(* The zero behind a text of n characters *)
LEMMA Ended ==
  ASSUME NEW s \in Seq(0..255)
  PROVE  /\ s \o Terminator \in Seq(0..255)
         /\ Len(s \o Terminator) = Len(s) + 1
         /\ (s \o Terminator)[Len(s) + 1] = 0
         /\ \A j \in 1..Len(s) : (s \o Terminator)[j] = s[j]
<1>1. Terminator \in Seq(0..255) /\ Len(Terminator) = 1 /\ Terminator[1] = 0
  BY DEF Terminator
<1> DEFINE z == Terminator
<1> HIDE DEF z
<1>2. /\ s \o z \in Seq(0..255)
      /\ Len(s \o z) = Len(s) + Len(z)
      /\ \A j \in 1..Len(s) : (s \o z)[j] = s[j]
      /\ \A j \in 1..Len(z) : (s \o z)[Len(s) + j] = z[j]
  BY <1>1, Joined, Zenon DEF z
<1>3. Len(z) = 1 /\ z[1] = 0 /\ 1 \in 1..1
  BY <1>1 DEF z
<1>4. (s \o z)[Len(s) + 1] = 0
  BY <1>2, <1>3, Zenon
<1> QED BY <1>2, <1>3, <1>4, Zenon DEF z

(* The end of base64_encode keeps it: the last block is that of the        *)
(* remaining bytes with zeros behind them.                                 *)
LEMMA EncodeRestInv ==
  ASSUME Inv, EncodeRest
  PROVE  Inv'
<1> DEFINE n == Len(input)
           m == n \div 3
           r == Filled3
<1>1. /\ phase = "encode" /\ phase' = "decode"
      /\ UNCHANGED <<input, at, decoded, decLen>>
      /\ a4' \in [0..3 -> 0..255]
  BY ByteAssumption DEF EncodeRest
<1>2. /\ input \in Seq(0..255) /\ output \in Seq(0..255) /\ decoded \in Seq(0..255)
      /\ a3 \in [0..2 -> 0..255]
  BY DEF Inv, TypeOK
<1>3. n \in Nat
  BY <1>2
<1>4. /\ m \in Nat /\ r \in 0..2 /\ n = 3 * m + r
      /\ r = 0 => (n + 2) \div 3 = m
      /\ r # 0 => (n + 2) \div 3 = m + 1
  BY <1>3, Thirds DEF Filled3
<1>5. /\ encLen = 4 * m /\ Len(output) = 4 * m
      /\ \A b \in 0..(m - 1) : \A k \in 1..4 : output[4 * b + k] = Code(input, b, k)
  BY <1>1 DEF Inv, Written, Blocks
<1>6. \A k \in 0..2 : k < r => a3[k] = input[3 * m + k + 1]
  BY <1>1 DEF Inv, Gathered
<1>7. at = 0 /\ decoded = <<>> /\ decLen = 0
  BY <1>1 DEF Inv, Gathered
<1>8. Returned'
  <2>1. at' \div 4 = 0 /\ Filled4' = 0
    BY <1>1, <1>7 DEF Filled4
  <2>2. decoded' = <<>> /\ decLen' = 0 /\ n' = n
    BY <1>1, <1>7
  <2>3. /\ 3 * 0 <= n' /\ Len(decoded') = 3 * 0 /\ decLen' = 3 * 0
        /\ \A j \in 1..(3 * 0) : decoded'[j] = input'[j]
    BY <1>3, <2>2
  <2> HIDE DEF n
  <2>4. \A k \in 0..3 : ~(k < 0)
    OBVIOUS
  <2> QED BY <2>1, <2>3, <2>4 DEF Returned, n
<1>9. Gathered' /\ RoundTrip'
  BY <1>1 DEF Gathered, RoundTrip
<1>10. Blocks' = (n + 2) \div 3
  BY <1>1 DEF Blocks
<1>11. CASE r = 0
  <2>1. output' = output \o Terminator /\ a3' = a3 /\ encLen' = encLen
    BY <1>11 DEF EncodeRest
  <2>2. /\ output' \in Seq(0..255) /\ Len(output') = 4 * m + 1
        /\ output'[4 * m + 1] = 0
        /\ \A j \in 1..(4 * m) : output'[j] = output[j]
    BY <1>2, <1>5, <2>1, Ended, Zenon
  <2>3. Written'
    <3>1. Blocks' = m
      BY <1>4, <1>10, <1>11
    <3>2. ASSUME NEW b \in 0..(m - 1), NEW k \in 1..4
          PROVE  output'[4 * b + k] = Code(input', b, k)
      <4>1. 4 * b + k \in 1..(4 * m)
        BY <1>4
      <4> QED BY <1>1, <1>5, <2>2, <4>1
    <3> QED BY <1>1, <1>5, <2>1, <2>2, <3>1, <3>2 DEF Written
  <2>4. TypeOK'
    <3>1. encLen' \in Nat /\ at' \in 0..encLen' /\ decLen' \in Nat
      BY <1>1, <1>4, <1>5, <1>7, <2>1
    <3> QED BY <1>1, <1>2, <2>1, <2>2, <3>1 DEF TypeOK
  <2> QED BY <1>8, <1>9, <2>3, <2>4 DEF Inv
<1>12. CASE r # 0
  <2> DEFINE c == Characters(a3')
             d == SubSeq(c, 1, r + 1)
             e == Padding(r)
             w == output \o d \o e
  <2>1. a3' = ClearRest /\ output' = w \o Terminator /\ encLen' = encLen + (r + 1) + Len(e)
    BY <1>12 DEF EncodeRest
  <2>2. a3' = Triple(input, m)
    <3>1. \A k \in 0..2 : 3 * m + k < n <=> k < r
      BY <1>4
    <3> QED BY <1>6, <2>1, <3>1 DEF Triple, ClearRest
  <2>3. a3' \in [0..2 -> 0..255]
    BY <1>2, <1>4, <2>2, TripleBytes
  <2>4. c \in Seq(0..255) /\ Len(c) = 4
    BY <2>3, Block
  <2>5. \A k \in 1..4 : k <= r + 1 => Code(input, m, k) = c[k]
    <3>1. \A k \in 1..4 : k <= r + 1 => 3 * m + k <= n + 1
      BY <1>4
    <3> QED BY <2>2, <3>1 DEF Code
  <2>6. \A k \in 1..4 : k > r + 1 => Code(input, m, k) = Equals
    <3>1. \A k \in 1..4 : k > r + 1 => ~(3 * m + k <= n + 1)
      BY <1>4
    <3> QED BY <3>1 DEF Code
  <2> HIDE DEF c
  <2>7. d \in Seq(0..255) /\ Len(d) = r + 1 /\ \A k \in 1..(r + 1) : d[k] = c[k]
    <3>1. r + 1 \in Nat /\ r + 1 <= Len(c)
      BY <1>4, <2>4
    <3> HIDE DEF r
    <3> QED BY <2>4, <3>1, Front, ZenonT(40)
  <2>8. e \in Seq(0..255) /\ Len(e) = 3 - r /\ \A k \in 1..(3 - r) : e[k] = Equals
    BY <1>4, <1>12, PaddingIsEquals
  <2> HIDE DEF d, e, m, n, r
  <2>9. /\ output \o d \in Seq(0..255)
        /\ Len(output \o d) = Len(output) + Len(d)
        /\ \A j \in 1..Len(output) : (output \o d)[j] = output[j]
        /\ \A k \in 1..Len(d) : (output \o d)[Len(output) + k] = d[k]
    BY <1>2, <2>7, Joined, ZenonT(40)
  <2>10. /\ w \in Seq(0..255)
         /\ Len(w) = Len(output \o d) + Len(e)
         /\ \A j \in 1..Len(output \o d) : w[j] = (output \o d)[j]
         /\ \A k \in 1..Len(e) : w[Len(output \o d) + k] = e[k]
    <3> DEFINE l == output \o d
    <3>1. l \in Seq(0..255) /\ e \in Seq(0..255)
      BY <2>8, <2>9
    <3> HIDE DEF l
    <3>2. /\ l \o e \in Seq(0..255)
          /\ Len(l \o e) = Len(l) + Len(e)
          /\ \A j \in 1..Len(l) : (l \o e)[j] = l[j]
          /\ \A k \in 1..Len(e) : (l \o e)[Len(l) + k] = e[k]
      BY <3>1, Joined, Zenon
    <3> QED BY <3>2 DEF l
  <2> HIDE DEF w
  <2>11. Len(output \o d) = 4 * m + r + 1 /\ Len(w) = 4 * m + 4
    <3>1. Len(output) = 4 * m /\ Len(d) = r + 1 /\ Len(e) = 3 - r
      BY <1>5, <2>7, <2>8
    <3>2. Len(output \o d) = 4 * m + (r + 1) /\ Len(w) = Len(output \o d) + (3 - r)
      BY <2>9, <2>10, <3>1, Zenon
    <3> QED BY <1>4, <3>2
  <2>12. \A b \in 0..(m - 1) : \A k \in 1..4 : w[4 * b + k] = Code(input, b, k)
    <3> TAKE b \in 0..(m - 1), k \in 1..4
    <3>1. 4 * b + k \in 1..(4 * m) /\ 4 * b + k \in 1..(4 * m + r + 1)
      BY <1>4
    <3>2. w[4 * b + k] = output[4 * b + k]
      BY <1>5, <2>9, <2>10, <2>11, <3>1
    <3> QED BY <1>5, <3>2
  <2>13. \A k \in 1..4 : w[4 * m + k] = Code(input, m, k)
    <3> TAKE k \in 1..4
    <3>1. CASE k <= r + 1
      <4>1. 4 * m + k \in 1..(4 * m + r + 1) /\ k \in 1..(r + 1)
        BY <1>4, <3>1
      <4>2. w[4 * m + k] = (output \o d)[4 * m + k]
        BY <2>10, <2>11, <4>1
      <4>3. (output \o d)[4 * m + k] = d[k]
        BY <1>5, <2>7, <2>9, <4>1
      <4> QED BY <2>5, <2>7, <3>1, <4>1, <4>2, <4>3
    <3>2. CASE k > r + 1
      <4>1. PICK j \in 1..(3 - r) : 4 * m + k = (4 * m + r + 1) + j
        <5>1. k - (r + 1) \in 1..(3 - r) /\ 4 * m + k = (4 * m + r + 1) + (k - (r + 1))
          BY <1>4, <3>2
        <5> QED BY <5>1
      <4>2. w[4 * m + k] = e[j]
        BY <2>8, <2>10, <2>11, <4>1
      <4> QED BY <2>6, <2>8, <3>2, <4>1, <4>2
    <3> QED BY <1>4, <3>1, <3>2
  <2>14. /\ output' \in Seq(0..255) /\ Len(output') = 4 * m + 5
         /\ output'[4 * m + 5] = 0
         /\ \A j \in 1..(4 * m + 4) : output'[j] = w[j]
    <3>1. (4 * m + 4) + 1 = 4 * m + 5
      BY <1>4
    <3>2. w \in Seq(0..255) /\ Len(w) = 4 * m + 4
      BY <2>10, <2>11
    <3>3. /\ w \o Terminator \in Seq(0..255)
          /\ Len(w \o Terminator) = Len(w) + 1
          /\ (w \o Terminator)[Len(w) + 1] = 0
          /\ \A j \in 1..Len(w) : (w \o Terminator)[j] = w[j]
      BY <3>2, Ended, Zenon
    <3> QED BY <2>1, <3>1, <3>2, <3>3, Zenon
  <2>15. encLen' = 4 * m + 4
    <3>1. \A x \in Nat : \A y \in 0..2 : 4 * x + (y + 1) + (3 - y) = 4 * x + 4
      OBVIOUS
    <3> QED BY <1>4, <1>5, <2>1, <2>8, <3>1, Zenon
  <2>16. Written'
    <3>1. Blocks' = m + 1 /\ (m + 1) - 1 = m
      BY <1>4, <1>10, <1>12
    <3>2. encLen' = 4 * (m + 1) /\ Len(output') = encLen' + 1 /\ output'[encLen' + 1] = 0
      BY <1>4, <2>14, <2>15
    <3>3. ASSUME NEW b \in 0..m, NEW k \in 1..4
          PROVE  output'[4 * b + k] = Code(input', b, k)
      <4>1. 4 * b + k \in 1..(4 * m + 4)
        BY <1>4
      <4>2. CASE b = m
        BY <1>1, <2>13, <2>14, <4>1, <4>2
      <4>3. CASE b # m
        <5>1. b \in 0..(m - 1)
          BY <1>4, <4>3
        <5> QED BY <1>1, <2>12, <2>14, <4>1, <5>1
      <4> QED BY <4>2, <4>3
    <3> QED BY <1>1, <3>1, <3>2, <3>3 DEF Written
  <2>17. TypeOK'
    <3>1. encLen' \in Nat /\ at' \in 0..encLen' /\ decLen' \in Nat
      BY <1>1, <1>4, <1>7, <2>15
    <3> QED BY <1>1, <1>2, <2>3, <2>14, <3>1 DEF TypeOK
  <2> QED BY <1>8, <1>9, <2>16, <2>17 DEF Inv
<1> QED BY <1>11, <1>12

(* What the invariant says while decoding, at character k + 1 of block b *)
LEMMA AtBlock ==
  ASSUME Inv, phase = "decode"
  PROVE  LET n == Len(input)  b == at \div 4  k == at % 4
         IN /\ n \in Nat /\ b \in Nat /\ k \in 0..3 /\ at = 4 * b + k /\ at \in Nat
            /\ encLen = 4 * ((n + 2) \div 3) /\ Len(output) = encLen + 1
            /\ (n + 2) \div 3 \in Nat
            /\ n <= 3 * ((n + 2) \div 3) /\ 3 * ((n + 2) \div 3) <= n + 2
            /\ \A c \in 0..((n + 2) \div 3 - 1) : \A j \in 1..4 : output[4 * c + j] = Code(input, c, j)
            /\ 3 * b <= n
            /\ k > 0 => 3 * b + k <= n + 1
            /\ Len(decoded) = 3 * b /\ decLen = 3 * b
            /\ \A j \in 1..(3 * b) : decoded[j] = input[j]
            /\ \A j \in 0..3 : j < k => a4[j] = output[4 * b + j + 1]
<1> DEFINE n == Len(input)
           b == at \div 4
           k == at % 4
           m == (n + 2) \div 3
<1>1. n \in Nat /\ at \in Nat
  <2>1. input \in Seq(0..255) /\ encLen \in Nat /\ at \in 0..encLen
    BY DEF Inv, TypeOK
  <2> QED BY <2>1
<1>2. b \in Nat /\ k \in 0..3 /\ at = 4 * b + k
  BY <1>1, Quarters
<1>3. m \in Nat /\ n <= 3 * m /\ 3 * m <= n + 2
  BY <1>1
<1>4. /\ encLen = 4 * m /\ Len(output) = encLen + 1
      /\ \A c \in 0..(m - 1) : \A j \in 1..4 : output[4 * c + j] = Code(input, c, j)
  BY DEF Inv, Written, Blocks
<1>5. /\ 3 * b <= n
      /\ k > 0 => 3 * b + k <= n + 1
      /\ Len(decoded) = 3 * b /\ decLen = 3 * b
      /\ \A j \in 1..(3 * b) : decoded[j] = input[j]
      /\ \A j \in 0..3 : j < k => a4[j] = output[4 * b + j + 1]
  BY DEF Inv, Returned, Filled4
<1> QED BY <1>1, <1>2, <1>3, <1>4, <1>5

(* One turn of the loop of base64_decode keeps it: with its fourth         *)
(* character the three bytes of a block come back.                         *)
LEMMA DecodeCharInv ==
  ASSUME Inv, DecodeChar
  PROVE  Inv'
<1> DEFINE n == Len(input)
           m == (n + 2) \div 3
           b == at \div 4
           k == at % 4
           x == output[at + 1]
           filled == [a4 EXCEPT ![k] = x]
<1>1. /\ phase = "decode" /\ phase' = "decode"
      /\ at < encLen /\ x # Equals
      /\ at' = at + 1
      /\ UNCHANGED <<input, a3, output, encLen>>
  BY DEF DecodeChar
<1>2. IF k = 3 THEN a4' = Lookup(filled) /\ decoded' = decoded \o a4_to_a3(a4') /\ decLen' = decLen + 3
               ELSE a4' = filled /\ decoded' = decoded /\ decLen' = decLen
  BY DEF DecodeChar, Filled4
<1>3. /\ input \in Seq(0..255) /\ output \in Seq(0..255) /\ decoded \in Seq(0..255)
      /\ a3 \in [0..2 -> 0..255] /\ a4 \in [0..3 -> 0..255]
  BY DEF Inv, TypeOK
<1>4. /\ n \in Nat /\ b \in Nat /\ k \in 0..3 /\ at = 4 * b + k /\ at \in Nat
      /\ encLen = 4 * m /\ Len(output) = 4 * m + 1 /\ m \in Nat
      /\ \A c \in 0..(m - 1) : \A j \in 1..4 : output[4 * c + j] = Code(input, c, j)
      /\ 3 * b <= n
      /\ Len(decoded) = 3 * b /\ decLen = 3 * b
      /\ \A j \in 1..(3 * b) : decoded[j] = input[j]
      /\ \A j \in 0..3 : j < k => a4[j] = output[4 * b + j + 1]
  BY <1>1, AtBlock
<1>5. /\ k < 3 => (at + 1) \div 4 = b /\ (at + 1) % 4 = k + 1
      /\ k = 3 => (at + 1) \div 4 = b + 1 /\ (at + 1) % 4 = 0
  BY <1>4, Quarters
<1> HIDE DEF n, m, b, k, x
<1>6. x \in 0..255
  <2>1. at + 1 \in 1..Len(output)
    BY <1>1, <1>4
  <2> QED BY <1>3, <2>1, ElementOfSeq, ZenonT(40) DEF x
<1>7. filled \in [0..3 -> 0..255]
  BY <1>3, <1>4, <1>6
<1>8. b \in 0..(m - 1) /\ k + 1 \in 1..4
  BY <1>1, <1>4
<1>9. x = Code(input, b, k + 1)
  <2>1. at + 1 = 4 * b + (k + 1)
    BY <1>4
  <2>2. output[4 * b + (k + 1)] = Code(input, b, k + 1)
    BY <1>4, <1>8
  <2> QED BY <2>1, <2>2 DEF x
<1>10. 3 * b + (k + 1) <= n + 1
  BY <1>1, <1>3, <1>4, <1>8, <1>9, CodeBytes DEF n
<1>11. \A j \in 0..3 : j < k + 1 => filled[j] = output[4 * b + j + 1]
  <2> TAKE j \in 0..3
  <2>1. CASE j < k
    <3>1. k \in 0..3 /\ j # k
      BY <1>4, <2>1
    <3>2. filled[j] = a4[j]
      BY <1>3, <3>1
    <3>3. a4[j] = output[4 * b + j + 1]
      BY <1>4, <2>1
    <3> HIDE DEF filled
    <3> QED BY <3>2, <3>3
  <2>2. CASE j = k
    <3>1. filled[j] = x
      BY <1>3, <1>4, <2>2
    <3>2. 4 * b + j + 1 = at + 1
      BY <1>4, <2>2
    <3> QED BY <3>1, <3>2 DEF x
  <2>3. j < k + 1 => j < k \/ j = k
    BY <1>4
  <2> HIDE DEF filled
  <2> QED BY <2>1, <2>2, <2>3, Zenon
<1>12. Written' /\ Gathered' /\ RoundTrip'
  BY <1>1 DEF Inv, Written, Blocks, Gathered, RoundTrip
<1>13. encLen' \in Nat /\ at' \in 0..encLen'
  BY <1>1, <1>4
<1>14. CASE k < 3
  <2>1. a4' = filled /\ decoded' = decoded /\ decLen' = decLen
    BY <1>2, <1>4, <1>14
  <2>2. at' \div 4 = b /\ Filled4' = k + 1
    BY <1>1, <1>5, <1>14 DEF Filled4
  <2>3. TypeOK'
    <3>1. decLen' \in Nat
      BY <1>4, <2>1
    <3> QED BY <1>1, <1>3, <1>7, <1>13, <2>1, <3>1 DEF TypeOK
  <2>4. /\ 3 * b <= Len(input')
        /\ 3 * b + (k + 1) <= Len(input') + 1
        /\ Len(decoded') = 3 * b /\ decLen' = 3 * b
        /\ \A j \in 1..(3 * b) : decoded'[j] = input'[j]
    BY <1>1, <1>4, <1>10, <2>1 DEF n
  <2>5. \A j \in 0..3 : j < k + 1 => a4'[j] = output'[4 * b + j + 1]
    BY <1>1, <1>11, <2>1
  <2>6. Returned'
    BY <2>2, <2>4, <2>5 DEF Returned
  <2> QED BY <1>12, <2>3, <2>6 DEF Inv
<1>15. CASE k = 3
  <2> DEFINE t == Triple(input, b)
             d == a4_to_a3(Lookup(filled))
  <2>1. a4' = Lookup(filled) /\ decoded' = decoded \o d /\ decLen' = decLen + 3
    BY <1>2, <1>15
  <2>2. at' \div 4 = b + 1 /\ Filled4' = 0
    BY <1>1, <1>5, <1>15 DEF Filled4
  <2>3. 3 * b + 3 <= n
    BY <1>4, <1>10, <1>15
  <2>4. \A j \in 1..4 : filled[j - 1] = Characters(t)[j]
    <3> TAKE j \in 1..4
    <3>1. j - 1 \in 0..3 /\ j - 1 < k + 1 /\ 4 * b + (j - 1) + 1 = 4 * b + j
      BY <1>4, <1>15
    <3>2. filled[j - 1] = output[4 * b + j]
      BY <1>11, <3>1
    <3>3. output[4 * b + j] = Code(input, b, j)
      BY <1>4, <1>8
    <3>4. 3 * b + j <= Len(input) + 1
      BY <1>4, <2>3 DEF n
    <3> QED BY <3>2, <3>3, <3>4 DEF Code
  <2> HIDE DEF filled
  <2>5. t \in [0..2 -> 0..255]
    BY <1>3, <1>4, TripleBytes
  <2>6. \A j \in 1..3 : d[j] = t[j - 1]
    <3> TAKE j \in 1..3
    <3>1. j \in 1..4 /\ j + 1 \in 1..4 /\ (j + 1) - 1 = j
      OBVIOUS
    <3>2. filled[j - 1] = Characters(t)[j] /\ filled[j] = Characters(t)[j + 1]
      BY <2>4, <3>1
    <3> HIDE DEF t
    <3> QED BY <1>7, <2>5, <3>2, Block, ZenonT(40)
  <2>7. \A j \in 1..3 : t[j - 1] = input[3 * b + j]
    <3> TAKE j \in 1..3
    <3>1. j - 1 \in 0..2 /\ 3 * b + (j - 1) < Len(input) /\ 3 * b + (j - 1) + 1 = 3 * b + j
      BY <1>4, <2>3 DEF n
    <3> QED BY <3>1 DEF Triple
  <2>8. a4' \in [0..3 -> 0..255] /\ d \in Seq(0..255) /\ Len(d) = 3
    BY <1>7, <2>1, LookupBytes, Decoded, ZenonT(40)
  <2> HIDE DEF d, t
  <2>9. /\ decoded' \in Seq(0..255)
        /\ Len(decoded') = Len(decoded) + Len(d)
        /\ \A j \in 1..Len(decoded) : decoded'[j] = decoded[j]
        /\ \A j \in 1..Len(d) : decoded'[Len(decoded) + j] = d[j]
    <3>1. decoded \in Seq(0..255) /\ d \in Seq(0..255) /\ decoded' = decoded \o d
      BY <1>3, <2>1, <2>8
    <3>2. /\ decoded \o d \in Seq(0..255)
          /\ Len(decoded \o d) = Len(decoded) + Len(d)
          /\ \A j \in 1..Len(decoded) : (decoded \o d)[j] = decoded[j]
          /\ \A j \in 1..Len(d) : (decoded \o d)[Len(decoded) + j] = d[j]
      BY <3>1, Joined, ZenonT(40)
    <3> QED BY <3>1, <3>2, Zenon
  <2>10. \A j \in 1..(3 * b + 3) : decoded'[j] = input[j]
    <3> TAKE j \in 1..(3 * b + 3)
    <3>1. CASE j <= 3 * b
      <4>1. j \in 1..(3 * b)
        BY <1>4, <3>1
      <4> QED BY <1>4, <2>9, <4>1
    <3>2. CASE ~(j <= 3 * b)
      <4>1. PICK i \in 1..3 : j = 3 * b + i
        <5>1. j - 3 * b \in 1..3 /\ j = 3 * b + (j - 3 * b)
          BY <1>4, <3>2
        <5> QED BY <5>1
      <4>2. decoded'[3 * b + i] = d[i]
        BY <1>4, <2>8, <2>9
      <4> QED BY <2>6, <2>7, <4>1, <4>2
    <3> QED BY <3>1, <3>2
  <2>11. TypeOK'
    <3>1. decLen' \in Nat
      BY <1>4, <2>1
    <3> QED BY <1>1, <1>3, <1>13, <2>8, <2>9, <3>1 DEF TypeOK
  <2>12. /\ 3 * (b + 1) <= Len(input')
         /\ Len(decoded') = 3 * (b + 1) /\ decLen' = 3 * (b + 1)
         /\ \A j \in 1..(3 * (b + 1)) : decoded'[j] = input'[j]
    <3>1. 3 * (b + 1) = 3 * b + 3
      BY <1>4
    <3>2. Len(decoded') = 3 * b + 3 /\ decLen' = 3 * b + 3
      BY <1>4, <2>1, <2>8, <2>9
    <3> QED BY <1>1, <2>3, <2>10, <3>1, <3>2 DEF n
  <2>13. \A j \in 0..3 : ~(j < 0)
    OBVIOUS
  <2>14. Returned'
    BY <2>2, <2>12, <2>13 DEF Returned
  <2> QED BY <1>12, <2>11, <2>14 DEF Inv
<1> QED BY <1>4, <1>14, <1>15

(* Sequences with the same bytes are the same. *)
LEMMA SameBytes ==
  ASSUME NEW s \in Seq(0..255), NEW t \in Seq(0..255), Len(s) = Len(t),
         \A j \in 1..Len(s) : s[j] = t[j]
  PROVE  s = t
BY SeqEqual, Zenon

(* The end of base64_decode keeps it: of the last block one byte less than *)
(* characters were read comes back, and no byte of the input is left.      *)
LEMMA DecodeRestInv ==
  ASSUME Inv, DecodeRest
  PROVE  Inv'
<1> DEFINE n == Len(input)
           m == (n + 2) \div 3
           b == at \div 4
           k == at % 4
           f == [j \in 0..3 |-> IF j < k THEN a4[j] ELSE 0]
<1>1. /\ phase = "decode" /\ phase' = "done"
      /\ at < encLen => output[at + 1] = Equals
      /\ UNCHANGED <<input, a3, output, encLen, at>>
  BY DEF DecodeRest
<1>2. IF k = 0 THEN a4' = a4 /\ decoded' = decoded \o Terminator /\ decLen' = decLen
               ELSE /\ a4' = Lookup(f)
                    /\ decoded' = decoded \o SubSeq(a4_to_a3(a4'), 1, k - 1) \o Terminator
                    /\ decLen' = decLen + (k - 1)
  BY DEF DecodeRest, Filled4
<1>3. /\ input \in Seq(0..255) /\ output \in Seq(0..255) /\ decoded \in Seq(0..255)
      /\ a3 \in [0..2 -> 0..255] /\ a4 \in [0..3 -> 0..255] /\ encLen \in Nat /\ at \in 0..encLen
  BY DEF Inv, TypeOK
<1>4. /\ n \in Nat /\ b \in Nat /\ k \in 0..3 /\ at = 4 * b + k /\ at \in Nat
      /\ encLen = 4 * m /\ m \in Nat /\ n <= 3 * m
      /\ \A c \in 0..(m - 1) : \A j \in 1..4 : output[4 * c + j] = Code(input, c, j)
      /\ 3 * b <= n
      /\ k > 0 => 3 * b + k <= n + 1
      /\ Len(decoded) = 3 * b /\ decLen = 3 * b
      /\ \A j \in 1..(3 * b) : decoded[j] = input[j]
      /\ \A j \in 0..3 : j < k => a4[j] = output[4 * b + j + 1]
  BY <1>1, AtBlock
<1> HIDE DEF n, m, b, k
<1>5. at < encLen => b \in 0..(m - 1) /\ 3 * b + (k + 1) > n + 1
  <2> SUFFICES ASSUME at < encLen PROVE b \in 0..(m - 1) /\ 3 * b + (k + 1) > n + 1
    OBVIOUS
  <2>1. b \in 0..(m - 1) /\ k + 1 \in 1..4 /\ at + 1 = 4 * b + (k + 1)
    BY <1>4
  <2>2. Code(input, b, k + 1) = Equals
    BY <1>1, <1>4, <2>1
  <2>3. ~(3 * b + (k + 1) <= n + 1)
    BY <1>3, <1>4, <2>1, <2>2, CodeBytes DEF n
  <2> QED BY <1>4, <2>1, <2>3
<1>6. at < encLen \/ at = encLen
  BY <1>3
<1>7. Written' /\ Gathered' /\ Returned'
  BY <1>1 DEF Inv, Written, Blocks, Gathered, Returned
<1>8. CASE k = 0
  <2>1. a4' = a4 /\ decoded' = decoded \o Terminator /\ decLen' = decLen
    BY <1>2, <1>8
  <2>2. n = 3 * b
    <3>1. ~(at < encLen)
      BY <1>4, <1>5, <1>8
    <3>2. b = m
      BY <1>4, <1>6, <1>8, <3>1
    <3> QED BY <1>4, <3>2
  <2>3. decoded = input
    BY <1>3, <1>4, <2>2, SameBytes DEF n
  <2>4. RoundTrip'
    <3>1. decLen' = Len(input)
      BY <1>4, <2>1, <2>2 DEF n
    <3> QED BY <1>1, <2>1, <2>3, <3>1 DEF RoundTrip
  <2>5. TypeOK'
    <3>1. decoded' \in Seq(0..255) /\ decLen' \in Nat
      BY <1>3, <1>4, <2>1, Ended
    <3> QED BY <1>1, <1>3, <2>1, <3>1 DEF TypeOK
  <2> QED BY <1>7, <2>4, <2>5 DEF Inv
<1>9. CASE k # 0
  <2> DEFINE t == Triple(input, b)
             d == a4_to_a3(Lookup(f))
             e == SubSeq(d, 1, k - 1)
  <2>1. /\ a4' = Lookup(f)
        /\ decoded' = (decoded \o e) \o Terminator
        /\ decLen' = decLen + (k - 1)
    BY <1>2, <1>9
  <2>2. k \in 1..3
    BY <1>4, <1>9
  <2>3. b \in 0..(m - 1) /\ n = 3 * b + (k - 1)
    <3>1. at < encLen
      <4>1. b \in Nat /\ m \in Nat
        BY <1>4
      <4>2. ~(4 * b + k = 4 * m)
        BY <2>2, <4>1, NotFull, Zenon
      <4> QED BY <1>4, <1>6, <4>2
    <3> QED BY <1>4, <1>5, <2>2, <3>1
  <2>4. \A j \in 1..k : f[j - 1] = Characters(t)[j]
    <3> TAKE j \in 1..k
    <3>1. /\ j \in 1..4 /\ j - 1 \in 0..3 /\ j - 1 < k
          /\ 4 * b + (j - 1) + 1 = 4 * b + j /\ 3 * b + j <= Len(input) + 1
      BY <1>4, <2>2, <2>3 DEF n
    <3>2. f[j - 1] = a4[j - 1]
      BY <3>1
    <3>3. a4[j - 1] = output[4 * b + j]
      BY <1>4, <3>1
    <3>4. output[4 * b + j] = Code(input, b, j)
      BY <1>4, <2>3, <3>1
    <3> QED BY <3>1, <3>2, <3>3, <3>4 DEF Code
  <2>5. f \in [0..3 -> 0..255]
    BY <1>3
  <2> HIDE DEF f
  <2>6. t \in [0..2 -> 0..255]
    BY <1>3, <1>4, TripleBytes
  <2>7. \A j \in 1..(k - 1) : d[j] = input[3 * b + j]
    <3> TAKE j \in 1..(k - 1)
    <3>1. /\ j \in 1..3 /\ j \in 1..k /\ j + 1 \in 1..k /\ (j + 1) - 1 = j
          /\ j - 1 \in 0..2 /\ 3 * b + (j - 1) < Len(input) /\ 3 * b + (j - 1) + 1 = 3 * b + j
      BY <1>4, <2>2, <2>3 DEF n
    <3>2. f[j - 1] = Characters(t)[j] /\ f[j] = Characters(t)[j + 1]
      BY <2>4, <3>1
    <3>3. t[j - 1] = input[3 * b + j]
      BY <3>1 DEF Triple
    <3> HIDE DEF t
    <3>4. d[j] = t[j - 1]
      BY <2>5, <2>6, <3>1, <3>2, Block
    <3> QED BY <3>3, <3>4
  <2>8. a4' \in [0..3 -> 0..255] /\ d \in Seq(0..255) /\ Len(d) = 3
    BY <2>5, <2>1, LookupBytes, Decoded
  <2> HIDE DEF d, t
  <2>9. e \in Seq(0..255) /\ Len(e) = k - 1 /\ \A j \in 1..(k - 1) : e[j] = d[j]
    <3>1. k - 1 \in Nat /\ k - 1 <= Len(d)
      BY <2>2, <2>8
    <3>2. d \in Seq(0..255)
      BY <2>8
    <3> QED BY <3>1, <3>2, Front, Zenon
  <2> HIDE DEF e
  <2>10. /\ decoded \o e \in Seq(0..255)
         /\ Len(decoded \o e) = Len(decoded) + Len(e)
         /\ \A j \in 1..Len(decoded) : (decoded \o e)[j] = decoded[j]
         /\ \A j \in 1..Len(e) : (decoded \o e)[Len(decoded) + j] = e[j]
    BY <1>3, <2>9, Joined, ZenonT(40)
  <2> DEFINE w == decoded \o e
  <2> HIDE DEF w
  <2>11. Len(w) = n /\ decLen' = n
    <3>1. Len(w) = 3 * b + (k - 1)
      BY <1>4, <2>9, <2>10, Zenon DEF w
    <3>2. decLen' = 3 * b + (k - 1)
      BY <1>4, <2>1
    <3> QED BY <2>3, <3>1, <3>2
  <2>12. \A j \in 1..n : w[j] = input[j]
    <3> TAKE j \in 1..n
    <3>1. CASE j <= 3 * b
      <4>1. j \in 1..(3 * b)
        BY <1>4, <3>1
      <4> QED BY <1>4, <2>10, <4>1 DEF w
    <3>2. CASE ~(j <= 3 * b)
      <4>1. PICK i \in 1..(k - 1) : j = 3 * b + i
        <5>1. j - 3 * b \in 1..(k - 1) /\ j = 3 * b + (j - 3 * b)
          BY <1>4, <2>2, <2>3, <3>2
        <5> QED BY <5>1
      <4>2. w[3 * b + i] = e[i]
        BY <1>4, <2>9, <2>10 DEF w
      <4> QED BY <2>7, <2>9, <4>1, <4>2
    <3> QED BY <3>1, <3>2
  <2>13. w = input
    <3>1. w \in Seq(0..255)
      BY <2>10 DEF w
    <3> QED BY <1>3, <2>11, <2>12, <3>1, SameBytes DEF n
  <2>14. decoded' = input \o Terminator
    BY <2>1, <2>13, Zenon DEF w
  <2>15. RoundTrip'
    BY <1>1, <2>11, <2>14 DEF RoundTrip, n
  <2>16. TypeOK'
    <3>1. decoded' \in Seq(0..255) /\ decLen' \in Nat
      BY <1>3, <1>4, <2>11, <2>14, Ended
    <3> QED BY <1>1, <1>3, <2>8, <3>1 DEF TypeOK
  <2> QED BY <1>7, <2>15, <2>16 DEF Inv
<1> QED BY <1>8, <1>9

(* The invariant holds of every behaviour. *)
LEMMA InvHolds == Spec => []Inv
<1>1. Inv /\ [Next]_vars => Inv'
  <2> SUFFICES ASSUME Inv, [Next]_vars PROVE Inv'
    OBVIOUS
  <2>1. CASE \E x \in Byte : EncodeByte(x)
    BY <2>1, EncodeByteInv
  <2>2. CASE EncodeRest
    BY <2>2, EncodeRestInv
  <2>3. CASE DecodeChar
    BY <2>3, DecodeCharInv
  <2>4. CASE DecodeRest
    BY <2>4, DecodeRestInv
  <2>5. CASE UNCHANGED vars
    BY <2>5 DEF vars, Inv, TypeOK, Written, Blocks, Gathered, Filled3, Returned, Filled4, RoundTrip
  <2> QED BY <2>1, <2>2, <2>3, <2>4, <2>5 DEF Next
<1> QED BY <1>1, InitInv, PTL DEF Spec

-----------------------------------------------------------------------------
(* The theorems *)

(* Whatever was encoded is what decoding gives back, for inputs of every   *)
(* length and whatever the two buffers held (base64_encode, base64_decode).*)
THEOREM DecodingGivesTheInput == Spec => []RoundTrip
<1>1. Inv => RoundTrip
  BY DEF Inv
<1> QED BY <1>1, InvHolds, PTL

(* Bytes stay bytes and the reader stays inside what was written           *)
(* (base64_encode, base64_decode, a3_to_a4, a4_to_a3).                     *)
THEOREM Base64Types == Spec => []TypeOK
<1>1. Inv => TypeOK
  BY DEF Inv
<1> QED BY <1>1, InvHolds, PTL

(* The last character that is not "=" is the one that holds the last byte's *)
(* last bit.                                                                *)
LEMMA LastCharacter ==
  ASSUME Inv, phase # "encode", encLen > 0
  PROVE  base64_dec_len(output, encLen) = Len(input)
<1> DEFINE n == Len(input)
           m == (n + 2) \div 3
           P(k) == output[k] # Equals /\ \A j \in (k + 1)..encLen : output[j] = Equals
           last == CHOOSE k \in 1..encLen : P(k)
<1>1. input \in Seq(0..255) /\ output \in Seq(0..255)
  BY DEF Inv, TypeOK
<1>2. n \in Nat /\ m \in Nat /\ n <= 3 * m /\ 3 * m <= n + 2
  <2>1. n \in Nat
    BY <1>1
  <2> QED BY <2>1
<1>3. /\ encLen = 4 * m
      /\ \A c \in 0..(m - 1) : \A j \in 1..4 : output[4 * c + j] = Code(input, c, j)
  BY DEF Inv, Written, Blocks
<1>4. m > 0
  BY <1>2, <1>3
<1> HIDE DEF n, m
<1>5. \A j \in 1..4 : output[4 * (m - 1) + j] # Equals <=> 4 * (m - 1) + j <= m + n
  <2> TAKE j \in 1..4
  <2>1. m - 1 \in Nat /\ m - 1 \in 0..(m - 1)
    BY <1>2, <1>4
  <2>2. output[4 * (m - 1) + j] # Equals <=> 3 * (m - 1) + j <= Len(input) + 1
    <3>1. 3 * (m - 1) + j <= Len(input) + 1 <=> Code(input, m - 1, j) # Equals
      BY <1>1, <2>1, CodeBytes
    <3>2. output[4 * (m - 1) + j] = Code(input, m - 1, j)
      BY <1>3, <2>1
    <3> QED BY <3>1, <3>2, Zenon
  <2>3. 3 * (m - 1) + j <= n + 1 <=> 4 * (m - 1) + j <= m + n
    BY <1>2, <2>1
  <2> QED BY <2>2, <2>3 DEF n
<1>6. \A i \in (4 * (m - 1) + 1)..(4 * m) : output[i] # Equals <=> i <= m + n
  <2> TAKE i \in (4 * (m - 1) + 1)..(4 * m)
  <2>1. i - 4 * (m - 1) \in 1..4 /\ i = 4 * (m - 1) + (i - 4 * (m - 1))
    BY <1>2
  <2> QED BY <1>5, <2>1
<1>7. m + n \in (4 * (m - 1) + 1)..(4 * m)
  BY <1>2, <1>4
<1>8. P(m + n) /\ m + n \in 1..encLen
  <2>1. output[m + n] # Equals
    BY <1>2, <1>6, <1>7
  <2>2. \A j \in (m + n + 1)..encLen : j \in (4 * (m - 1) + 1)..(4 * m) /\ ~(j <= m + n)
    BY <1>2, <1>3, <1>7
  <2>3. m + n \in 1..encLen
    BY <1>2, <1>3, <1>4, <1>7
  <2> QED BY <1>6, <2>1, <2>2, <2>3
<1>9. \A k \in 1..encLen : P(k) => k = m + n
  <2> TAKE k \in 1..encLen
  <2> SUFFICES ASSUME P(k) PROVE k = m + n
    OBVIOUS
  <2>1. ~(k < m + n)
    <3>1. k < m + n => m + n \in (k + 1)..encLen
      BY <1>2, <1>8
    <3> QED BY <1>8, <3>1
  <2>2. ~(k > m + n)
    <3>1. k > m + n => k \in (m + n + 1)..encLen
      BY <1>2, <1>8
    <3> QED BY <1>8, <3>1
  <2> QED BY <1>2, <2>1, <2>2
<1>10. last = m + n
  <2> HIDE DEF P
  <2>1. last \in 1..encLen /\ P(last)
    BY <1>8
  <2> HIDE DEF last
  <2> QED BY <1>9, <2>1
<1>11. base64_dec_len(output, encLen) = ((6 * encLen) \div 8) - (encLen - last)
  BY DEF base64_dec_len
<1> HIDE DEF last, P
<1>12. (6 * (4 * m)) \div 8 = 3 * m
  BY <1>2
<1>13. base64_dec_len(output, encLen) = 3 * m - (4 * m - (m + n))
  BY <1>3, <1>10, <1>11, <1>12
<1> QED BY <1>2, <1>13 DEF n

(* The lengths computed in advance are those returned, for inputs of every *)
(* length, and each function writes one byte more, the terminating zero    *)
(* (base64_enc_len, base64_dec_len, base64_encode, base64_decode).         *)
THEOREM LengthsOfBuffers == Spec => []LengthsAgree
<1>1. Inv => LengthsAgree
  <2> SUFFICES ASSUME Inv PROVE LengthsAgree
    OBVIOUS
  <2>1. input \in Seq(0..255) /\ Len(input) \in Nat
    BY DEF Inv, TypeOK
  <2>2. ASSUME phase # "encode"
        PROVE  /\ encLen = base64_enc_len(Len(input))
               /\ Len(output) = encLen + 1
               /\ output[encLen + 1] = 0
    <3>1. encLen = 4 * ((Len(input) + 2) \div 3)
      BY <2>2 DEF Inv, Written, Blocks
    <3>2. \A i \in Nat : ((i - (i % 3)) \div 3) * 4 = 4 * (i \div 3)
      OBVIOUS
    <3>3. encLen = base64_enc_len(Len(input))
      BY <2>1, <3>1, <3>2 DEF base64_enc_len
    <3> QED BY <2>2, <3>3 DEF Inv, Written
  <2>3. ASSUME phase = "done"
        PROVE  /\ encLen > 0 => decLen = base64_dec_len(output, encLen)
               /\ Len(decoded) = decLen + 1
    <3>1. decLen = Len(input) /\ decoded = input \o Terminator
      BY <2>3 DEF Inv, RoundTrip
    <3>2. Len(decoded) = decLen + 1
      BY <2>1, <3>1, Ended
    <3>3. encLen > 0 => base64_dec_len(output, encLen) = Len(input)
      BY <2>3, LastCharacter
    <3> QED BY <3>1, <3>2, <3>3
  <2> QED BY <2>2, <2>3 DEF LengthsAgree
<1> QED BY <1>1, InvHolds, PTL

-----------------------------------------------------------------------------
(* The encoding, bit by bit                                                *)

(* The bits of a byte, from the highest, in its parts                      *)
LEMMA BitsOfParts ==
  ASSUME NEW x \in 0..255
  PROVE  /\ x \div 4 = 32 * ((x \div 128) % 2) + 16 * ((x \div 64) % 2) + 8 * ((x \div 32) % 2)
                       + 4 * ((x \div 16) % 2) + 2 * ((x \div 8) % 2) + ((x \div 4) % 2)
         /\ x % 4 = 2 * ((x \div 2) % 2) + ((x \div 1) % 2)
         /\ x \div 16 = 8 * ((x \div 128) % 2) + 4 * ((x \div 64) % 2) + 2 * ((x \div 32) % 2)
                        + ((x \div 16) % 2)
         /\ x % 16 = 8 * ((x \div 8) % 2) + 4 * ((x \div 4) % 2) + 2 * ((x \div 2) % 2)
                     + ((x \div 1) % 2)
         /\ x \div 64 = 2 * ((x \div 128) % 2) + ((x \div 64) % 2)
         /\ x % 64 = 32 * ((x \div 32) % 2) + 16 * ((x \div 16) % 2) + 8 * ((x \div 8) % 2)
                     + 4 * ((x \div 4) % 2) + 2 * ((x \div 2) % 2) + ((x \div 1) % 2)
<1>1. x \div 4 = 32 * ((x \div 128) % 2) + 16 * ((x \div 64) % 2) + 8 * ((x \div 32) % 2)
                 + 4 * ((x \div 16) % 2) + 2 * ((x \div 8) % 2) + ((x \div 4) % 2)
  OBVIOUS
<1>2. x % 4 = 2 * ((x \div 2) % 2) + ((x \div 1) % 2)
  OBVIOUS
<1>3. x \div 16 = 8 * ((x \div 128) % 2) + 4 * ((x \div 64) % 2) + 2 * ((x \div 32) % 2)
                  + ((x \div 16) % 2)
  OBVIOUS
<1>4. x % 16 = 8 * ((x \div 8) % 2) + 4 * ((x \div 4) % 2) + 2 * ((x \div 2) % 2) + ((x \div 1) % 2)
  OBVIOUS
<1>5. x \div 64 = 2 * ((x \div 128) % 2) + ((x \div 64) % 2)
  OBVIOUS
<1>6. x % 64 = 32 * ((x \div 32) % 2) + 16 * ((x \div 16) % 2) + 8 * ((x \div 8) % 2)
               + 4 * ((x \div 4) % 2) + 2 * ((x \div 2) % 2) + ((x \div 1) % 2)
  OBVIOUS
<1> QED BY <1>1, <1>2, <1>3, <1>4, <1>5, <1>6

(* The bits of byte i of block b, zeros behind the input                   *)
LEMMA BitsOfBlock ==
  ASSUME input \in Seq(0..255), NEW b \in Nat, NEW i \in 0..2
  PROVE  /\ Bit(24 * b + 8 * i) = (Triple(input, b)[i] \div 128) % 2
         /\ Bit(24 * b + 8 * i + 1) = (Triple(input, b)[i] \div 64) % 2
         /\ Bit(24 * b + 8 * i + 2) = (Triple(input, b)[i] \div 32) % 2
         /\ Bit(24 * b + 8 * i + 3) = (Triple(input, b)[i] \div 16) % 2
         /\ Bit(24 * b + 8 * i + 4) = (Triple(input, b)[i] \div 8) % 2
         /\ Bit(24 * b + 8 * i + 5) = (Triple(input, b)[i] \div 4) % 2
         /\ Bit(24 * b + 8 * i + 6) = (Triple(input, b)[i] \div 2) % 2
         /\ Bit(24 * b + 8 * i + 7) = (Triple(input, b)[i] \div 1) % 2
<1> DEFINE x == Triple(input, b)[i]
<1>1. Len(input) \in Nat
  OBVIOUS
<1>2. x = IF 3 * b + i < Len(input) THEN input[3 * b + i + 1] ELSE 0
  BY DEF Triple
<1>3. ASSUME NEW j \in 0..7
      PROVE  Bit(24 * b + 8 * i + j) = IF 3 * b + i < Len(input) THEN (x \div 2^(7 - j)) % 2 ELSE 0
  <2>1. (24 * b + 8 * i + j) \div 8 = 3 * b + i /\ (24 * b + 8 * i + j) % 8 = j
    OBVIOUS
  <2> QED BY <1>2, <2>1 DEF Bit
<1>4. /\ 2^(7 - 0) = 128 /\ 2^(7 - 1) = 64 /\ 2^(7 - 2) = 32 /\ 2^(7 - 3) = 16
      /\ 2^(7 - 4) = 8 /\ 2^(7 - 5) = 4 /\ 2^(7 - 6) = 2 /\ 2^(7 - 7) = 1
  OBVIOUS
<1>5. /\ (0 \div 128) % 2 = 0 /\ (0 \div 64) % 2 = 0 /\ (0 \div 32) % 2 = 0 /\ (0 \div 16) % 2 = 0
      /\ (0 \div 8) % 2 = 0 /\ (0 \div 4) % 2 = 0 /\ (0 \div 2) % 2 = 0 /\ (0 \div 1) % 2 = 0
  OBVIOUS
<1>6. ASSUME NEW j \in 0..7, NEW power, 2^(7 - j) = power, (0 \div power) % 2 = 0
      PROVE  Bit(24 * b + 8 * i + j) = (x \div power) % 2
  BY <1>2, <1>3, <1>6
<1> HIDE DEF x
<1>7. 24 * b + 8 * i + 0 = 24 * b + 8 * i
  OBVIOUS
<1>8. Bit(24 * b + 8 * i) = (x \div 128) % 2
  <2>1. Bit(24 * b + 8 * i + 0) = (x \div 128) % 2
    BY <1>4, <1>5, <1>6
  <2> QED BY <1>7, <2>1
<1>9. Bit(24 * b + 8 * i + 1) = (x \div 64) % 2
  BY <1>4, <1>5, <1>6
<1>10. Bit(24 * b + 8 * i + 2) = (x \div 32) % 2
  BY <1>4, <1>5, <1>6
<1>11. Bit(24 * b + 8 * i + 3) = (x \div 16) % 2
  BY <1>4, <1>5, <1>6
<1>12. Bit(24 * b + 8 * i + 4) = (x \div 8) % 2
  BY <1>4, <1>5, <1>6
<1>13. Bit(24 * b + 8 * i + 5) = (x \div 4) % 2
  BY <1>4, <1>5, <1>6
<1>14. Bit(24 * b + 8 * i + 6) = (x \div 2) % 2
  BY <1>4, <1>5, <1>6
<1>15. Bit(24 * b + 8 * i + 7) = (x \div 1) % 2
  BY <1>4, <1>5, <1>6
<1> QED BY <1>8, <1>9, <1>10, <1>11, <1>12, <1>13, <1>14, <1>15 DEF x

(* The four values of a block are its bits, six by six (a3_to_a4).         *)
LEMMA SextetsOfBlock ==
  ASSUME input \in Seq(0..255), NEW b \in Nat
  PROVE  \A r \in 0..3 : Sextet(4 * b + r) = a3_to_a4(Triple(input, b))[r + 1]
<1> DEFINE a == Triple(input, b)
           x == a[0]
           y == a[1]
           z == a[2]
<1>1. a \in [0..2 -> 0..255]
  BY TripleBytes
<1>2. x \in 0..255 /\ y \in 0..255 /\ z \in 0..255
  BY <1>1
<1>3. a3_to_a4(a) = << x \div 4, ((x % 4) * 16) + (y \div 16), ((y % 16) * 4) + (z \div 64), z % 64 >>
  BY DEF a3_to_a4
<1>4. /\ Bit(24 * b) = (x \div 128) % 2 /\ Bit(24 * b + 1) = (x \div 64) % 2
      /\ Bit(24 * b + 2) = (x \div 32) % 2 /\ Bit(24 * b + 3) = (x \div 16) % 2
      /\ Bit(24 * b + 4) = (x \div 8) % 2 /\ Bit(24 * b + 5) = (x \div 4) % 2
      /\ Bit(24 * b + 6) = (x \div 2) % 2 /\ Bit(24 * b + 7) = (x \div 1) % 2
  <2>1. 0 \in 0..2
    OBVIOUS
  <2>2. /\ Bit(24 * b + 8 * 0) = (Triple(input, b)[0] \div 128) % 2
        /\ Bit(24 * b + 8 * 0 + 1) = (Triple(input, b)[0] \div 64) % 2
        /\ Bit(24 * b + 8 * 0 + 2) = (Triple(input, b)[0] \div 32) % 2
        /\ Bit(24 * b + 8 * 0 + 3) = (Triple(input, b)[0] \div 16) % 2
        /\ Bit(24 * b + 8 * 0 + 4) = (Triple(input, b)[0] \div 8) % 2
        /\ Bit(24 * b + 8 * 0 + 5) = (Triple(input, b)[0] \div 4) % 2
        /\ Bit(24 * b + 8 * 0 + 6) = (Triple(input, b)[0] \div 2) % 2
        /\ Bit(24 * b + 8 * 0 + 7) = (Triple(input, b)[0] \div 1) % 2
    BY <2>1, BitsOfBlock
  <2>3. /\ 24 * b + 8 * 0 = 24 * b
        /\ 24 * b + 8 * 0 + 1 = 24 * b + 1
        /\ 24 * b + 8 * 0 + 2 = 24 * b + 2
        /\ 24 * b + 8 * 0 + 3 = 24 * b + 3
        /\ 24 * b + 8 * 0 + 4 = 24 * b + 4
        /\ 24 * b + 8 * 0 + 5 = 24 * b + 5
        /\ 24 * b + 8 * 0 + 6 = 24 * b + 6
        /\ 24 * b + 8 * 0 + 7 = 24 * b + 7
    OBVIOUS
  <2> QED BY <2>2, <2>3
<1>5. /\ Bit(24 * b + 8) = (y \div 128) % 2 /\ Bit(24 * b + 9) = (y \div 64) % 2
      /\ Bit(24 * b + 10) = (y \div 32) % 2 /\ Bit(24 * b + 11) = (y \div 16) % 2
      /\ Bit(24 * b + 12) = (y \div 8) % 2 /\ Bit(24 * b + 13) = (y \div 4) % 2
      /\ Bit(24 * b + 14) = (y \div 2) % 2 /\ Bit(24 * b + 15) = (y \div 1) % 2
  <2>1. 1 \in 0..2
    OBVIOUS
  <2>2. /\ Bit(24 * b + 8 * 1) = (Triple(input, b)[1] \div 128) % 2
        /\ Bit(24 * b + 8 * 1 + 1) = (Triple(input, b)[1] \div 64) % 2
        /\ Bit(24 * b + 8 * 1 + 2) = (Triple(input, b)[1] \div 32) % 2
        /\ Bit(24 * b + 8 * 1 + 3) = (Triple(input, b)[1] \div 16) % 2
        /\ Bit(24 * b + 8 * 1 + 4) = (Triple(input, b)[1] \div 8) % 2
        /\ Bit(24 * b + 8 * 1 + 5) = (Triple(input, b)[1] \div 4) % 2
        /\ Bit(24 * b + 8 * 1 + 6) = (Triple(input, b)[1] \div 2) % 2
        /\ Bit(24 * b + 8 * 1 + 7) = (Triple(input, b)[1] \div 1) % 2
    BY <2>1, BitsOfBlock
  <2>3. /\ 24 * b + 8 * 1 = 24 * b + 8
        /\ 24 * b + 8 * 1 + 1 = 24 * b + 9
        /\ 24 * b + 8 * 1 + 2 = 24 * b + 10
        /\ 24 * b + 8 * 1 + 3 = 24 * b + 11
        /\ 24 * b + 8 * 1 + 4 = 24 * b + 12
        /\ 24 * b + 8 * 1 + 5 = 24 * b + 13
        /\ 24 * b + 8 * 1 + 6 = 24 * b + 14
        /\ 24 * b + 8 * 1 + 7 = 24 * b + 15
    OBVIOUS
  <2> QED BY <2>2, <2>3
<1>6. /\ Bit(24 * b + 16) = (z \div 128) % 2 /\ Bit(24 * b + 17) = (z \div 64) % 2
      /\ Bit(24 * b + 18) = (z \div 32) % 2 /\ Bit(24 * b + 19) = (z \div 16) % 2
      /\ Bit(24 * b + 20) = (z \div 8) % 2 /\ Bit(24 * b + 21) = (z \div 4) % 2
      /\ Bit(24 * b + 22) = (z \div 2) % 2 /\ Bit(24 * b + 23) = (z \div 1) % 2
  <2>1. 2 \in 0..2
    OBVIOUS
  <2>2. /\ Bit(24 * b + 8 * 2) = (Triple(input, b)[2] \div 128) % 2
        /\ Bit(24 * b + 8 * 2 + 1) = (Triple(input, b)[2] \div 64) % 2
        /\ Bit(24 * b + 8 * 2 + 2) = (Triple(input, b)[2] \div 32) % 2
        /\ Bit(24 * b + 8 * 2 + 3) = (Triple(input, b)[2] \div 16) % 2
        /\ Bit(24 * b + 8 * 2 + 4) = (Triple(input, b)[2] \div 8) % 2
        /\ Bit(24 * b + 8 * 2 + 5) = (Triple(input, b)[2] \div 4) % 2
        /\ Bit(24 * b + 8 * 2 + 6) = (Triple(input, b)[2] \div 2) % 2
        /\ Bit(24 * b + 8 * 2 + 7) = (Triple(input, b)[2] \div 1) % 2
    BY <2>1, BitsOfBlock
  <2>3. /\ 24 * b + 8 * 2 = 24 * b + 16
        /\ 24 * b + 8 * 2 + 1 = 24 * b + 17
        /\ 24 * b + 8 * 2 + 2 = 24 * b + 18
        /\ 24 * b + 8 * 2 + 3 = 24 * b + 19
        /\ 24 * b + 8 * 2 + 4 = 24 * b + 20
        /\ 24 * b + 8 * 2 + 5 = 24 * b + 21
        /\ 24 * b + 8 * 2 + 6 = 24 * b + 22
        /\ 24 * b + 8 * 2 + 7 = 24 * b + 23
    OBVIOUS
  <2> QED BY <2>2, <2>3
<1> HIDE DEF a, x, y, z
<1>7. Sextet(4 * b + 0) = x \div 4
  <2>1. /\ 6 * (4 * b + 0) = 24 * b /\ 6 * (4 * b + 0) + 1 = 24 * b + 1 /\ 6 * (4 * b + 0) + 2 = 24 * b + 2
        /\ 6 * (4 * b + 0) + 3 = 24 * b + 3 /\ 6 * (4 * b + 0) + 4 = 24 * b + 4
        /\ 6 * (4 * b + 0) + 5 = 24 * b + 5
    OBVIOUS
  <2>2. Sextet(4 * b + 0) = 32 * ((x \div 128) % 2) + 16 * ((x \div 64) % 2) + 8 * ((x \div 32) % 2)
                            + 4 * ((x \div 16) % 2) + 2 * ((x \div 8) % 2) + ((x \div 4) % 2)
    BY <1>4, <2>1 DEF Sextet
  <2> QED BY <1>2, <2>2, BitsOfParts
<1>8. Sextet(4 * b + 1) = ((x % 4) * 16) + (y \div 16)
  <2>1. /\ 6 * (4 * b + 1) = 24 * b + 6 /\ 6 * (4 * b + 1) + 1 = 24 * b + 7
        /\ 6 * (4 * b + 1) + 2 = 24 * b + 8 /\ 6 * (4 * b + 1) + 3 = 24 * b + 9
        /\ 6 * (4 * b + 1) + 4 = 24 * b + 10 /\ 6 * (4 * b + 1) + 5 = 24 * b + 11
    OBVIOUS
  <2>2. Sextet(4 * b + 1) = 32 * ((x \div 2) % 2) + 16 * ((x \div 1) % 2) + 8 * ((y \div 128) % 2)
                            + 4 * ((y \div 64) % 2) + 2 * ((y \div 32) % 2) + ((y \div 16) % 2)
    BY <1>4, <1>5, <2>1 DEF Sextet
  <2>3. /\ x % 4 = 2 * ((x \div 2) % 2) + ((x \div 1) % 2)
        /\ y \div 16 = 8 * ((y \div 128) % 2) + 4 * ((y \div 64) % 2) + 2 * ((y \div 32) % 2)
                       + ((y \div 16) % 2)
    BY <1>2, BitsOfParts
  <2> QED BY <1>2, <2>2, <2>3
<1>9. Sextet(4 * b + 2) = ((y % 16) * 4) + (z \div 64)
  <2>1. /\ 6 * (4 * b + 2) = 24 * b + 12 /\ 6 * (4 * b + 2) + 1 = 24 * b + 13
        /\ 6 * (4 * b + 2) + 2 = 24 * b + 14 /\ 6 * (4 * b + 2) + 3 = 24 * b + 15
        /\ 6 * (4 * b + 2) + 4 = 24 * b + 16 /\ 6 * (4 * b + 2) + 5 = 24 * b + 17
    OBVIOUS
  <2>2. Sextet(4 * b + 2) = 32 * ((y \div 8) % 2) + 16 * ((y \div 4) % 2) + 8 * ((y \div 2) % 2)
                            + 4 * ((y \div 1) % 2) + 2 * ((z \div 128) % 2) + ((z \div 64) % 2)
    BY <1>5, <1>6, <2>1 DEF Sextet
  <2>3. /\ y % 16 = 8 * ((y \div 8) % 2) + 4 * ((y \div 4) % 2) + 2 * ((y \div 2) % 2)
                    + ((y \div 1) % 2)
        /\ z \div 64 = 2 * ((z \div 128) % 2) + ((z \div 64) % 2)
    BY <1>2, BitsOfParts
  <2> QED BY <1>2, <2>2, <2>3
<1>10. Sextet(4 * b + 3) = z % 64
  <2>1. /\ 6 * (4 * b + 3) = 24 * b + 18 /\ 6 * (4 * b + 3) + 1 = 24 * b + 19
        /\ 6 * (4 * b + 3) + 2 = 24 * b + 20 /\ 6 * (4 * b + 3) + 3 = 24 * b + 21
        /\ 6 * (4 * b + 3) + 4 = 24 * b + 22 /\ 6 * (4 * b + 3) + 5 = 24 * b + 23
    OBVIOUS
  <2>2. Sextet(4 * b + 3) = 32 * ((z \div 32) % 2) + 16 * ((z \div 16) % 2) + 8 * ((z \div 8) % 2)
                            + 4 * ((z \div 4) % 2) + 2 * ((z \div 2) % 2) + ((z \div 1) % 2)
    BY <1>6, <2>1 DEF Sextet
  <2> QED BY <1>2, <2>2, BitsOfParts
<1>11. \A r \in 0..3 : r = 0 \/ r = 1 \/ r = 2 \/ r = 3
  OBVIOUS
<1>12. /\ a3_to_a4(a)[0 + 1] = x \div 4 /\ a3_to_a4(a)[1 + 1] = ((x % 4) * 16) + (y \div 16)
       /\ a3_to_a4(a)[2 + 1] = ((y % 16) * 4) + (z \div 64) /\ a3_to_a4(a)[3 + 1] = z % 64
  BY <1>3
<1>13. \A r \in 0..3 : Sextet(4 * b + r) = a3_to_a4(a)[r + 1]
  BY <1>7, <1>8, <1>9, <1>10, <1>11, <1>12
<1> QED BY <1>13 DEF a

(* Every character of the encoding stands for its six bits, and "=" stands *)
(* where no bit is left, for inputs of every length and whatever was in    *)
(* the buffer (base64_encode).                                             *)
THEOREM EncodesSixBitsEach == Spec => []SixBitsEach
<1>1. Inv => SixBitsEach
  <2> SUFFICES ASSUME Inv, phase # "encode", NEW k \in 0..(encLen - 1)
               PROVE  output[k + 1] = IF 6 * k < 8 * Len(input) THEN b64_alphabet(Sextet(k)) ELSE Equals
    BY DEF SixBitsEach
  <2> DEFINE b == k \div 4
             r == k % 4
  <2>1. input \in Seq(0..255) /\ Len(input) \in Nat
    BY DEF Inv, TypeOK
  <2>2. encLen = 4 * Blocks /\ Blocks = (Len(input) + 2) \div 3
    BY DEF Inv, Written, Blocks
  <2>3. k \in Nat /\ b \in Nat /\ r \in 0..3 /\ k = 4 * b + r
    BY Quarters
  <2> HIDE DEF b, r
  <2>4. b \in 0..(Blocks - 1) /\ 3 * b < Len(input)
    <3>1. Blocks \in Nat /\ 3 * Blocks <= Len(input) + 2
      BY <2>1, <2>2
    <3>2. 4 * b < 4 * Blocks
      BY <2>2, <2>3, <3>1
    <3>3. b + 1 <= Blocks
      BY <2>3, <3>1, <3>2
    <3> QED BY <2>1, <2>3, <3>1, <3>3
  <2>5. output[4 * b + (r + 1)] = Code(input, b, r + 1)
    <3>1. r + 1 \in 1..4
      BY <2>3
    <3> QED BY <2>4, <3>1 DEF Inv, Written
  <2>6. 3 * b + (r + 1) <= Len(input) + 1 <=> 6 * k < 8 * Len(input)
    BY <2>1, <2>3, <2>4
  <2>7. Characters(Triple(input, b))[r + 1] = b64_alphabet(Sextet(k))
    <3>1. Characters(Triple(input, b))[r + 1] = b64_alphabet(a3_to_a4(Triple(input, b))[r + 1])
      BY <2>3 DEF Characters
    <3>2. Sextet(4 * b + r) = a3_to_a4(Triple(input, b))[r + 1]
      BY <2>1, <2>3, SextetsOfBlock
    <3> QED BY <2>3, <3>1, <3>2
  <2>8. k + 1 = 4 * b + (r + 1)
    BY <2>3
  <2> QED BY <2>5, <2>6, <2>7, <2>8 DEF Code
<1> QED BY <1>1, InvHolds, PTL
===============================================================================

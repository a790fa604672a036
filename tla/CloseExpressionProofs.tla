------------------------- MODULE CloseExpressionProofs -------------------------
(***************************************************************************)
(* What is proved of CloseExpression for texts of every length: the types, *)
(* that a search from a bracket that is not an angle ends at its mate,     *)
(* that one from an angle does in a text whose angles can all be brackets, *)
(* that the way back leads to where each of them started, and that         *)
(* _GetTextInside finds the same end without knowing of angles.            *)
(*                                                                         *)
(* The stack also holds angles that may turn out to be operators; that it  *)
(* holds the open brackets between them, in their order, is the invariant  *)
(* of the search.  For the way back the text that was read is a history of *)
(* what was open after each of its characters, and what is pending at one  *)
(* of them is what was open there, seen from the other side.               *)
(***************************************************************************)
EXTENDS CloseExpression, SequenceTheorems, WellFoundedInduction, TLAPS

(* Every non-empty set of numbers has a least element.                     *)
LEMMA LeastNatural ==
  ASSUME NEW T, T \subseteq Nat, T # {}
  PROVE  \E x \in T : \A y \in T : x <= y
<1> DEFINE R == {p \in Nat \X Nat : p[1] < p[2]}
<1>1. IsWellFoundedOn(R, Nat)
  BY NatLessThanWellFounded DEF OpToRel
<1>2. PICK x \in T : \A y \in T : ~(<<y, x>> \in R)
  <2> HIDE DEF R
  <2> QED BY <1>1, WFMin
<1>3. \A y \in T : ~(y < x)
  BY <1>2
<1> QED BY <1>3, SMT

(* DropAngles removes a suffix of angles, and leaves none on top (the      *)
(* loop that pops the pending angles).                                     *)
LEMMA DropAnglesRest ==
  ASSUME NEW S, NEW s \in Seq(S), NEW angle
  PROVE  \E k \in 0..Len(s) :
           /\ DropAngles(s, angle) = SubSeq(s, 1, k)
           /\ k > 0 => s[k] # angle
           /\ \A j \in (k + 1)..Len(s) : s[j] = angle
<1> DEFINE Kept(k) == /\ k > 0 => s[k] # angle
                      /\ \A j \in (k + 1)..Len(s) : s[j] = angle
           T == {d \in 0..Len(s) : d < Len(s) => s[Len(s) - d] # angle}
<1>1. Len(s) \in Nat
  OBVIOUS
<1>2. PICK d \in T : \A e \in T : d <= e
  <2>1. Len(s) \in T /\ T \subseteq Nat
    BY <1>1
  <2> HIDE DEF T
  <2> QED BY <2>1, LeastNatural
<1>3. Len(s) - d \in 0..Len(s) /\ Kept(Len(s) - d)
  <2>1. d \in 0..Len(s) /\ (Len(s) - d > 0 => s[Len(s) - d] # angle)
    BY <1>1, <1>2
  <2>2. ASSUME NEW j \in (Len(s) - d + 1)..Len(s), s[j] # angle
        PROVE  FALSE
    <3>1. Len(s) - j \in T
      BY <1>1, <2>1, <2>2
    <3> QED BY <3>1, <1>1, <1>2, <2>1
  <2> QED BY <1>1, <2>1, <2>2
<1>4. \E k \in 0..Len(s) : Kept(k)
  BY <1>3
<1>5. PICK k \in 0..Len(s) : Kept(k) /\ k = CHOOSE i \in 0..Len(s) : Kept(i)
  BY <1>4, Zenon
<1>6. DropAngles(s, angle) = SubSeq(s, 1, k)
  BY <1>5 DEF DropAngles
<1> QED BY <1>5, <1>6

(* Pop takes the last element away.                                        *)
LEMMA PopRest ==
  ASSUME NEW S, NEW s \in Seq(S), s # <<>>
  PROVE  /\ Pop(s) \in Seq(S)
         /\ Len(Pop(s)) = Len(s) - 1
         /\ \A j \in 1..(Len(s) - 1) : Pop(s)[j] = s[j]
<1>1. Len(s) \in Nat /\ Len(s) > 0
  OBVIOUS
<1>2. Len(s) - 1 \in 0..Len(s)
  BY <1>1
<1>3. \A k \in 0..Len(s) : /\ SubSeq(s, 1, k) \in Seq(S)
                           /\ Len(SubSeq(s, 1, k)) = k
                           /\ \A j \in 1..k : SubSeq(s, 1, k)[j] = s[j]
  OBVIOUS
<1> QED BY <1>2, <1>3 DEF Pop

-----------------------------------------------------------------------------
(* The open brackets in the stack *)

(* o is what is left of s without the angles: f is its place in s.         *)
Places(f, s, o) ==
  /\ f \in [1..Len(o) -> 1..Len(s)]
  /\ \A i, j \in 1..Len(o) : i < j => f[i] < f[j]
  /\ \A i \in 1..Len(o) : s[f[i]] = o[i]
  /\ \A k \in 1..Len(s) : s[k] # "<" => \E i \in 1..Len(o) : f[i] = k

Within(s, o) == \E f : Places(f, s, o)

Stacks == Seq(Brackets \cup {"<"})

(* A bracket is pushed on both.                                            *)
LEMMA PushBracket ==
  ASSUME NEW s \in Stacks, NEW o \in Seq(Brackets), Within(s, o), NEW c \in Brackets
  PROVE  Within(Append(s, c), Append(o, c))
<1>1. PICK f : Places(f, s, o)
  BY DEF Within
<1> DEFINE g == [i \in 1..(Len(o) + 1) |-> IF i = Len(o) + 1 THEN Len(s) + 1 ELSE f[i]]
<1>2. Len(s) \in Nat /\ Len(o) \in Nat
  BY DEF Stacks
<1>3. Len(Append(s, c)) = Len(s) + 1 /\ Len(Append(o, c)) = Len(o) + 1
  BY DEF Stacks
<1>4. /\ \A i \in 1..Len(s) : Append(s, c)[i] = s[i]
      /\ \A i \in 1..Len(o) : Append(o, c)[i] = o[i]
      /\ Append(s, c)[Len(s) + 1] = c /\ Append(o, c)[Len(o) + 1] = c
  BY DEF Stacks
<1>5. Places(g, Append(s, c), Append(o, c))
  <2> DEFINE ss == Append(s, c)  oo == Append(o, c)
  <2>1. Len(ss) = Len(s) + 1 /\ Len(oo) = Len(o) + 1
    BY <1>3
  <2>2. /\ \A i \in 1..Len(s) : ss[i] = s[i]
        /\ \A i \in 1..Len(o) : oo[i] = o[i]
        /\ ss[Len(s) + 1] = c /\ oo[Len(o) + 1] = c
    BY <1>4
  <2> HIDE DEF ss, oo
  <2>3. g \in [1..Len(oo) -> 1..Len(ss)]
    BY <1>1, <1>2, <2>1 DEF Places
  <2>4. \A i, j \in 1..Len(oo) : i < j => g[i] < g[j]
    <3>1. /\ \A i \in 1..Len(o) : g[i] = f[i] /\ f[i] \in 1..Len(s)
          /\ g[Len(o) + 1] = Len(s) + 1
      BY <1>1, <1>2 DEF Places
    <3>2. \A i, j \in 1..Len(o) : i < j => f[i] < f[j]
      BY <1>1 DEF Places
    <3> HIDE DEF g
    <3>3. ASSUME NEW i \in 1..Len(oo), NEW j \in 1..Len(oo), i < j
          PROVE  g[i] < g[j]
      <4>1. i \in 1..Len(o)
        BY <3>3, <1>2, <2>1
      <4>2. CASE j = Len(o) + 1
        BY <4>1, <4>2, <3>1, <1>2
      <4>3. CASE j # Len(o) + 1
        BY <4>1, <4>3, <3>1, <3>2, <3>3, <1>2, <2>1
      <4> QED BY <4>2, <4>3
    <3> QED BY <3>3
  <2>5. \A i \in 1..Len(oo) : ss[g[i]] = oo[i]
    BY <1>1, <1>2, <2>1, <2>2 DEF Places
  <2>6. ASSUME NEW k \in 1..Len(ss), ss[k] # "<"
        PROVE  \E i \in 1..Len(oo) : g[i] = k
    <3>1. CASE k = Len(s) + 1
      BY <3>1, <1>2, <2>1
    <3>2. CASE k # Len(s) + 1
      <4>1. k \in 1..Len(s) /\ s[k] # "<"
        BY <3>2, <2>6, <1>2, <2>1, <2>2
      <4>2. PICK i \in 1..Len(o) : f[i] = k
        BY <4>1, <1>1 DEF Places
      <4> QED BY <4>2, <1>2, <2>1
    <3> QED BY <3>1, <3>2
  <2>7. Places(g, ss, oo)
    <3> HIDE DEF g
    <3> QED BY <2>3, <2>4, <2>5, <2>6 DEF Places
  <2> QED BY <2>7 DEF ss, oo
<1> QED BY <1>5 DEF Within

(* An angle is pushed on the stack only.                                   *)
LEMMA PushAngle ==
  ASSUME NEW s \in Stacks, NEW o \in Seq(Brackets), Within(s, o)
  PROVE  Within(Append(s, "<"), o)
<1>1. PICK f : Places(f, s, o)
  BY DEF Within
<1>2. Len(s) \in Nat /\ Len(o) \in Nat
  BY DEF Stacks
<1> DEFINE ss == Append(s, "<")
<1>3. /\ Len(ss) = Len(s) + 1 /\ ss[Len(s) + 1] = "<"
      /\ \A i \in 1..Len(s) : ss[i] = s[i]
  BY DEF Stacks
<1> HIDE DEF ss
<1>4. Places(f, ss, o)
  <2>1. f \in [1..Len(o) -> 1..Len(ss)]
    <3>1. f \in [1..Len(o) -> 1..Len(s)] /\ 1..Len(s) \subseteq 1..Len(ss)
      BY <1>1, <1>2, <1>3 DEF Places
    <3> QED BY <3>1
  <2>2. \A i \in 1..Len(o) : ss[f[i]] = o[i]
    BY <1>1, <1>3 DEF Places
  <2>3. ASSUME NEW k \in 1..Len(ss), ss[k] # "<"
        PROVE  \E i \in 1..Len(o) : f[i] = k
    <3>1. k \in 1..Len(s) /\ s[k] # "<"
      BY <2>3, <1>2, <1>3
    <3> QED BY <3>1, <1>1 DEF Places
  <2> QED BY <1>1, <2>1, <2>2, <2>3 DEF Places
<1> QED BY <1>4 DEF Within, ss

(* A suffix of angles is taken away.                                       *)
LEMMA TakeAngles ==
  ASSUME NEW s \in Stacks, NEW o \in Seq(Brackets), Within(s, o),
         NEW k \in 0..Len(s), \A j \in (k + 1)..Len(s) : s[j] = "<"
  PROVE  Within(SubSeq(s, 1, k), o)
<1>1. PICK f : Places(f, s, o)
  BY DEF Within
<1>2. Len(s) \in Nat /\ Len(o) \in Nat
  BY DEF Stacks
<1>3. \A i \in 1..Len(o) : o[i] # "<"
  <2>1. \A i \in 1..Len(o) : o[i] \in Brackets
    OBVIOUS
  <2> QED BY <2>1 DEF Brackets
<1> DEFINE r == SubSeq(s, 1, k)
<1>4. Len(r) = k /\ \A i \in 1..k : r[i] = s[i]
  BY DEF Stacks
<1> HIDE DEF r
<1>5. \A i \in 1..Len(o) : f[i] \in 1..k
  BY <1>1, <1>2, <1>3 DEF Places
<1>6. Places(f, r, o)
  <2>1. f \in [1..Len(o) -> 1..Len(r)]
    BY <1>1, <1>4, <1>5 DEF Places
  <2>2. \A i \in 1..Len(o) : r[f[i]] = o[i]
    BY <1>1, <1>4, <1>5 DEF Places
  <2>3. ASSUME NEW b \in 1..Len(r), r[b] # "<"
        PROVE  \E i \in 1..Len(o) : f[i] = b
    <3>1. b \in 1..Len(s) /\ s[b] # "<"
      BY <2>3, <1>2, <1>4
    <3> QED BY <3>1, <1>1 DEF Places
  <2> QED BY <1>1, <2>1, <2>2, <2>3 DEF Places
<1> QED BY <1>6 DEF Within, r

(* With a bracket on top of the stack, it is the innermost open one, and   *)
(* it is popped from both.                                                 *)
LEMMA PopBracket ==
  ASSUME NEW s \in Stacks, NEW o \in Seq(Brackets), Within(s, o),
         s # <<>>, Top(s) # "<"
  PROVE  o # <<>> /\ Top(o) = Top(s) /\ Within(Pop(s), Pop(o))
<1>1. PICK f : Places(f, s, o)
  BY DEF Within
<1>2. Len(s) \in Nat \ {0} /\ Len(o) \in Nat
  BY DEF Stacks
<1>3. PICK i \in 1..Len(o) : f[i] = Len(s)
  BY <1>1, <1>2 DEF Places, Top
<1>4. i = Len(o)
  BY <1>1, <1>2, <1>3 DEF Places
<1>5. o # <<>> /\ Top(o) = Top(s)
  BY <1>1, <1>2, <1>3, <1>4 DEF Places, Top
<1> DEFINE ss == Pop(s)  oo == Pop(o)  g == [j \in 1..(Len(o) - 1) |-> f[j]]
<1>6. /\ Len(ss) = Len(s) - 1 /\ Len(oo) = Len(o) - 1
      /\ \A j \in 1..(Len(s) - 1) : ss[j] = s[j]
      /\ \A j \in 1..(Len(o) - 1) : oo[j] = o[j]
  <2>1. Len(ss) = Len(s) - 1 /\ \A j \in 1..(Len(s) - 1) : ss[j] = s[j]
    BY PopRest DEF Stacks
  <2>2. Len(oo) = Len(o) - 1 /\ \A j \in 1..(Len(o) - 1) : oo[j] = o[j]
    BY <1>5, PopRest
  <2> QED BY <2>1, <2>2
<1> HIDE DEF ss, oo
<1>7. \A j \in 1..(Len(o) - 1) : f[j] \in 1..(Len(s) - 1)
  BY <1>1, <1>2, <1>3, <1>4 DEF Places
<1>8. Places(g, ss, oo)
  <2>1. g \in [1..Len(oo) -> 1..Len(ss)]
    BY <1>2, <1>6, <1>7
  <2>2. \A a, b \in 1..Len(oo) : a < b => g[a] < g[b]
    BY <1>1, <1>2, <1>6 DEF Places
  <2>3. ASSUME NEW a \in 1..Len(oo)
        PROVE  ss[g[a]] = oo[a]
    <3>1. a \in 1..(Len(o) - 1) /\ a \in 1..Len(o) /\ g[a] = f[a]
      BY <1>2, <1>6
    <3>2. s[f[a]] = o[a] /\ f[a] \in 1..(Len(s) - 1)
      BY <3>1, <1>1, <1>7 DEF Places
    <3> HIDE DEF g
    <3> QED BY <3>1, <3>2, <1>6
  <2>4. ASSUME NEW b \in 1..Len(ss), ss[b] # "<"
        PROVE  \E a \in 1..Len(oo) : g[a] = b
    <3>1. b \in 1..Len(s) /\ s[b] # "<" /\ b # Len(s)
      BY <2>4, <1>2, <1>6
    <3>2. PICK a \in 1..Len(o) : f[a] = b
      BY <3>1, <1>1 DEF Places
    <3>3. a # Len(o)
      BY <3>1, <3>2, <1>3, <1>4
    <3> QED BY <3>2, <3>3, <1>2, <1>6
  <2> HIDE DEF g
  <2> QED BY <2>1, <2>2, <2>3, <2>4 DEF Places
<1> QED BY <1>5, <1>8 DEF Within, ss, oo

(* What stays at the bottom of the stack.                                  *)
LEMMA BottomStays ==
  ASSUME NEW s \in Stacks
  PROVE  /\ \A k \in 1..Len(s) : s # <<>> /\ s[1] # "<" =>
               SubSeq(s, 1, k) # <<>> /\ SubSeq(s, 1, k)[1] # "<"
         /\ \A c \in Brackets \cup {"<"} : s # <<>> /\ s[1] # "<" =>
               Append(s, c) # <<>> /\ Append(s, c)[1] # "<"
  BY DEF Stacks

(* The stack is empty only if no bracket is open.                          *)
LEMMA EmptyStack ==
  ASSUME NEW o \in Seq(Brackets), Within(<<>>, o)
  PROVE  o = <<>>
<1>1. PICK f : Places(f, <<>>, o)
  BY DEF Within
<1> QED BY <1>1 DEF Places

-----------------------------------------------------------------------------
(* Types *)

(* Append keeps a sequence in its type.                                    *)
LEMMA AppendTypes ==
  ASSUME NEW S, NEW s \in Seq(S), NEW c \in S
  PROVE  Append(s, c) \in Seq(S)
OBVIOUS

(* So do DropAngles and Pop, and Top is an element.                        *)
LEMMA StackTypes ==
  ASSUME NEW S, NEW s \in Seq(S), NEW angle
  PROVE  /\ DropAngles(s, angle) \in Seq(S)
         /\ s # <<>> => Pop(s) \in Seq(S) /\ Top(s) \in S
<1>1. DropAngles(s, angle) \in Seq(S)
  <2>1. PICK k \in 0..Len(s) : DropAngles(s, angle) = SubSeq(s, 1, k)
    BY DropAnglesRest
  <2> QED BY <2>1
<1>2. s # <<>> => Top(s) \in S
  BY DEF Top
<1> QED BY <1>1, <1>2, PopRest

(* Reading a character keeps the types of everything but the stack.        *)
LEMMA ReadTypes ==
  ASSUME TypeOK, NEW c \in Chars, Read(c)
  PROVE  /\ text' \in Seq(Chars) /\ start' \in 1..(Len(text') + 1)
         /\ at' \in 0..Len(text') /\ pending' \in Seq(Closers \cup {">"})
         /\ origin' \in {"none", "scan", "found", "failed", "gave up"}
         /\ open' \in Seq(Brackets) /\ nest' \in Seq(Brackets \cup {"<"})
         /\ broken' \in BOOLEAN /\ tidy' \in BOOLEAN
         /\ Len(text') = Len(text) + 1
<1>1. /\ text' = Append(text, c) /\ text \in Seq(Chars)
      /\ start' = start /\ at' = at /\ pending' = pending /\ origin' = origin
  BY DEF Read, TypeOK, backward
<1>2. text' \in Seq(Chars) /\ Len(text') = Len(text) + 1 /\ Len(text) \in Nat
  BY <1>1
<1>3. open' \in Seq(Brackets)
  <2>1. open \in Seq(Brackets)
    BY DEF TypeOK
  <2>2. c \in Brackets => Append(open, c) \in Seq(Brackets)
    BY <2>1
  <2>3. open # <<>> => Pop(open) \in Seq(Brackets)
    BY <2>1, PopRest
  <2>4. open' = CASE c \in Brackets -> Append(open, c)
                  [] c \in Closers /\ Ends(open, Mate(c)) -> Pop(open)
                  [] OTHER -> open
    BY Zenon DEF Read, Follow
  <2>5. open' = open \/ (c \in Brackets /\ open' = Append(open, c)) \/ (open # <<>> /\ open' = Pop(open))
    BY <2>4 DEF Ends
  <2> QED BY <2>1, <2>2, <2>3, <2>5
<1>4. nest' \in Seq(Brackets \cup {"<"})
  <2>1. nest \in Seq(Brackets \cup {"<"})
    BY DEF TypeOK
  <2>2. c \in Brackets \cup {"<"} => Append(nest, c) \in Seq(Brackets \cup {"<"})
    BY <2>1
  <2>3. nest # <<>> => Pop(nest) \in Seq(Brackets \cup {"<"})
    BY <2>1, PopRest
  <2>4. nest' = CASE c \in Brackets \cup {"<"} -> Append(nest, c)
                  [] c \in Closers /\ Ends(nest, Mate(c)) -> Pop(nest)
                  [] c = ">" /\ Ends(nest, "<") -> Pop(nest)
                  [] OTHER -> nest
    BY Zenon DEF Read, Follow
  <2>5. \/ nest' = nest \/ (nest # <<>> /\ nest' = Pop(nest))
        \/ (c \in Brackets \cup {"<"} /\ nest' = Append(nest, c))
    BY <2>4, SMT DEF Ends
  <2> QED BY <2>1, <2>2, <2>3, <2>5
<1>5. broken' \in BOOLEAN /\ tidy' \in BOOLEAN
  BY Zenon DEF Read, Follow
<1>6. start \in 1..(Len(text) + 1) /\ at \in 0..Len(text)
  BY DEF TypeOK
<1>7. start' \in 1..(Len(text') + 1) /\ at' \in 0..Len(text')
  BY <1>1, <1>2, <1>6
<1>8. /\ pending' \in Seq(Closers \cup {">"})
      /\ origin' \in {"none", "scan", "found", "failed", "gave up"}
  BY <1>1 DEF TypeOK
<1> QED BY <1>2, <1>3, <1>4, <1>5, <1>7, <1>8

(* The first of the three facts about the types: they hold at the start.   *)
LEMMA InitTypes == Init => TypeOK
<1> SUFFICES ASSUME Init PROVE TypeOK
  OBVIOUS
<1>1. {"operator", "blank", "<", "a"} \subseteq Chars
  BY DEF Chars, Plain
<1>2. text \in Seq(Chars)
  <2>1. text \in Seq({"operator", "blank", "<", "a"})
    BY BeforeAssumption DEF Init
  <2> QED BY <2>1, <1>1
<1>3. /\ start \in 1..(Len(text) + 1) /\ at \in 0..Len(text)
  BY <1>2 DEF Init
<1>4. broken \in BOOLEAN /\ tidy \in BOOLEAN
  <2>1. broken = FALSE /\ tidy = (text \in {<<>>, <<"a">>})
    BY DEF Init
  <2>2. (text \in {<<>>, <<"a">>}) \in BOOLEAN
    OBVIOUS
  <2> QED BY <2>1, <2>2, Zenon
<1>5. /\ stack \in Seq(Brackets \cup {"<"}) /\ pending \in Seq(Closers \cup {">"})
      /\ open \in Seq(Brackets) /\ nest \in Seq(Brackets \cup {"<"})
  BY DEF Init
<1>6. /\ outcome \in {"scan", "found", "failed", "gave up"}
      /\ origin \in {"none", "scan", "found", "failed", "gave up"}
  BY DEF Init
<1> QED BY <1>2, <1>3, <1>4, <1>5, <1>6 DEF TypeOK

(* The second: every iteration of the search keeps them, action by action. *)
LEMMA ForwardTypes == TypeOK /\ Forward => TypeOK'
<1> SUFFICES ASSUME TypeOK, Forward PROVE TypeOK'
  OBVIOUS
<1> DEFINE S == Brackets \cup {"<"}
<1>a. stack \in Seq(S) /\ outcome \in {"scan", "found", "failed", "gave up"}
  BY DEF TypeOK
<1>b. /\ DropAngles(stack, "<") \in Seq(S)
      /\ stack # <<>> => Pop(stack) \in Seq(S)
      /\ DropAngles(stack, "<") # <<>> => Pop(DropAngles(stack, "<")) \in Seq(S)
  BY <1>a, StackTypes
<1>c. \A c \in S : Append(stack, c) \in Seq(S)
  BY <1>a, AppendTypes
<1>d. ASSUME NEW c \in Chars, Read(c), stack' \in Seq(S),
             outcome' \in {"scan", "found", "failed", "gave up"}
      PROVE  TypeOK'
  BY <1>d, ReadTypes DEF TypeOK
<1>e. {"<", ">", ";", "newline"} \subseteq Chars
  BY DEF Chars
<1>1. ASSUME NEW c \in Chars, Refuse(c) PROVE TypeOK'
  <2>1. Read(c) /\ stack' = stack /\ outcome' = "gave up"
    BY <1>1 DEF Refuse
  <2> QED BY <2>1, <1>a, <1>d
<1>2. ASSUME NEW c \in Chars, OpenBracket(c) PROVE TypeOK'
  <2>1. Read(c) /\ c \in S /\ stack' = Append(stack, c) /\ outcome' = outcome
    BY <1>2 DEF OpenBracket
  <2> QED BY <2>1, <1>a, <1>c, <1>d
<1>3. ASSUME NEW c \in Chars, CloseBracket(c) PROVE TypeOK'
  <2> DEFINE rest == DropAngles(stack, "<")
  <2>1. /\ Read(c)
        /\ \/ rest # <<>> /\ stack' = Pop(rest) /\ outcome' \in {"found", "scan"}
           \/ stack' = rest /\ outcome' = "failed"
    BY <1>3 DEF CloseBracket, Return, Ends
  <2> QED BY <2>1, <1>b, <1>d
<1>4. ASSUME NEW c \in Chars, Other(c) PROVE TypeOK'
  <2>1. Read(c) /\ stack' = stack /\ outcome' = outcome
    BY <1>4 DEF Other
  <2> QED BY <2>1, <1>a, <1>d
<1>5. CASE LeftShift
  <2>1. /\ Read("<") /\ outcome' \in {"scan", "failed"}
        /\ stack' = stack \/ (stack # <<>> /\ stack' = Pop(stack))
    BY <1>5 DEF LeftShift, DropOne, Ends
  <2> QED BY <2>1, <1>a, <1>b, <1>d, <1>e
<1>6. CASE Less
  <2>1. /\ Read("<") /\ outcome' = outcome
        /\ stack' = stack \/ stack' = Append(stack, "<")
    BY <1>6 DEF Less
  <2> QED BY <2>1, <1>a, <1>c, <1>d, <1>e
<1>7. CASE Greater
  <2>1. /\ Read(">")
        /\ \/ stack' = stack /\ outcome' = outcome
           \/ stack # <<>> /\ stack' = Pop(stack) /\ outcome' \in {"found", "scan"}
    BY <1>7 DEF Greater, Return, Ends
  <2> QED BY <2>1, <1>a, <1>b, <1>d, <1>e
<1>8. CASE Semicolon
  <2>1. Read(";") /\ stack' = DropAngles(stack, "<") /\ outcome' \in {"failed", "scan"}
    BY <1>8 DEF Semicolon
  <2> QED BY <2>1, <1>b, <1>d, <1>e
<1>9. CASE EndOfLine
  <2>1. Read("newline") /\ stack' = stack /\ outcome' \in {"gave up", "scan"}
    BY <1>9 DEF EndOfLine
  <2> QED BY <2>1, <1>a, <1>d, <1>e
<1>10. CASE EndOfFile
  BY <1>10 DEF EndOfFile, TypeOK, backward, history
<1> QED BY <1>1, <1>2, <1>3, <1>4, <1>5, <1>6, <1>7, <1>8, <1>9, <1>10 DEF Forward

(* The third: so does every iteration of the way back.                     *)
LEMMA BackwardTypes == TypeOK /\ Backward => TypeOK'
<1> SUFFICES ASSUME TypeOK, Backward PROVE TypeOK'
  OBVIOUS
<1> DEFINE S == Closers \cup {">"}
           Origins == {"none", "scan", "found", "failed", "gave up"}
<1>a. pending \in Seq(S) /\ origin \in Origins /\ at \in 0..Len(text) /\ Len(text) \in Nat
  <2>1. text \in Seq(Chars)
    BY DEF TypeOK
  <2>2. Len(text) \in Nat
    BY <2>1
  <2> QED BY <2>2 DEF TypeOK
<1>n. at \in 0..Len(text) /\ Len(text) \in Nat
  BY <1>a
<1>b. /\ DropAngles(pending, ">") \in Seq(S)
      /\ pending # <<>> => Pop(pending) \in Seq(S)
      /\ DropAngles(pending, ">") # <<>> => Pop(DropAngles(pending, ">")) \in Seq(S)
  BY <1>a, StackTypes
<1>c. \A c \in S : Append(pending, c) \in Seq(S)
  BY <1>a, AppendTypes
<1>d. ASSUME forward' = forward, history' = history, at' \in 0..Len(text),
             pending' \in Seq(S), origin' \in Origins
      PROVE  TypeOK'
  <2>1. /\ text' = text /\ start' = start /\ stack' = stack /\ outcome' = outcome
        /\ open' = open /\ broken' = broken /\ nest' = nest /\ tidy' = tidy
    BY <1>d DEF forward, history
  <2> QED BY <2>1, <1>d DEF TypeOK
<1>e. ASSUME NEW c \in Chars, Back(c, 1), pending' \in Seq(S), origin' \in Origins
      PROVE  TypeOK'
  <2>1. forward' = forward /\ history' = history
    BY <1>e DEF Back, forward, history
  <2>2. at' = at - 1 /\ at > 0
    BY <1>e DEF Back
  <2>3. at' \in 0..Len(text)
    BY <2>2, <1>n
  <2> QED BY <1>d, <1>e, <2>1, <2>3
<1>h. ASSUME NEW c \in Chars, Back(c, 2), at > 1, pending' = pending, origin' = origin
      PROVE  TypeOK'
  <2>1. forward' = forward /\ history' = history
    BY <1>h DEF Back, forward, history
  <2>2. at' = at - 2
    BY <1>h DEF Back
  <2>3. at' \in 0..Len(text)
    BY <1>h, <2>2, <1>n
  <2>4. pending' \in Seq(S) /\ origin' \in Origins
    BY <1>h, <1>a
  <2> QED BY <1>d, <2>1, <2>3, <2>4
<1>i. {"<", ">", ";", "newline"} \subseteq Chars
  BY DEF Chars
<1>f. at = 1 => Line(at - 1) = <<>>
  <2>1. text \in Seq(Chars)
    BY DEF TypeOK
  <2>2. SubSeq(text, 1, 0) = <<>>
    BY <2>1
  <2> QED BY <2>2 DEF Line
<1>g. "found" \in Origins /\ "scan" \in Origins /\ "failed" \in Origins /\ "gave up" \in Origins
  OBVIOUS
<1> HIDE DEF Origins
<1>1. CASE TurnBack
  <2>1. /\ forward' = forward /\ history' = history /\ at' = Len(text)
        /\ pending' = <<>> /\ origin' = "scan"
    BY <1>1 DEF TurnBack, forward, history
  <2>2. pending' \in Seq(S) /\ at' \in 0..Len(text)
    BY <2>1, <1>a
  <2> QED BY <2>1, <2>2, <1>d, <1>g
<1>2. CASE BackGreater
  <2>1. CASE SkipGreater
    <3>1. Back(">", 2) /\ pending' = pending /\ origin' = origin
      BY <1>2, <2>1 DEF BackGreater
    <3>2. at > 1
      BY <2>1, <3>1, <1>a, <1>f DEF SkipGreater, AtLineStart, Back
    <3> QED BY <3>1, <3>2, <1>h, <1>i
  <2>2. CASE ~SkipGreater
    <3>1. Back(">", 1) /\ pending' = Append(pending, ">") /\ origin' = origin
      BY <1>2, <2>2 DEF BackGreater
    <3> QED BY <3>1, <1>a, <1>c, <1>e, <1>g, <1>i
  <2> QED BY <2>1, <2>2
<1>3. CASE BackLess
  <2>1. CASE Ends(Line(at - 1), "<")
    <3>1. Back("<", 2) /\ pending' = pending /\ origin' = origin
      BY <1>3, <2>1 DEF BackLess
    <3>2. at > 1
      BY <2>1, <3>1, <1>a, <1>f DEF Ends, Back
    <3> QED BY <3>1, <3>2, <1>h, <1>i
  <2>2. CASE ~Ends(Line(at - 1), "<")
    <3>1. /\ Back("<", 1)
          /\ \/ pending' = pending /\ origin' = origin
             \/ pending # <<>> /\ pending' = Pop(pending) /\ origin' \in {"found", "scan"}
      BY <1>3, <2>2 DEF BackLess, ReturnStart, Ends
    <3> QED BY <3>1, <1>a, <1>b, <1>e, <1>g, <1>i
  <2> QED BY <2>1, <2>2
<1>4. CASE BackSemicolon
  <2>1. Back(";", 1) /\ pending' = DropAngles(pending, ">") /\ origin' \in {"failed", "scan"}
    BY <1>4 DEF BackSemicolon
  <2> QED BY <2>1, <1>b, <1>e, <1>g, <1>i
<1>5. CASE BackLine
  <2>1. Back("newline", 1) /\ pending' = pending /\ origin' \in {"gave up", "scan"}
    BY <1>5 DEF BackLine
  <2> QED BY <2>1, <1>a, <1>e, <1>g, <1>i
<1>6. CASE StartOfFile
  <2>1. /\ forward' = forward /\ history' = history /\ at' = at
        /\ pending' = pending /\ origin' = "gave up"
    BY <1>6 DEF StartOfFile, forward, history
  <2> QED BY <2>1, <1>a, <1>d, <1>g
<1>7. ASSUME NEW c \in Chars, BackCloser(c) PROVE TypeOK'
  <2>1. c \in S /\ Back(c, 1) /\ pending' = Append(pending, c) /\ origin' = origin
    BY <1>7 DEF BackCloser
  <2> QED BY <2>1, <1>a, <1>c, <1>e, <1>g, <1>i
<1>8. ASSUME NEW c \in Chars, BackBracket(c) PROVE TypeOK'
  <2> DEFINE rest == DropAngles(pending, ">")
  <2>1. /\ Back(c, 1)
        /\ \/ rest # <<>> /\ pending' = Pop(rest) /\ origin' \in {"found", "scan"}
           \/ pending' = rest /\ origin' = "failed"
    BY <1>8 DEF BackBracket, ReturnStart
  <2> QED BY <2>1, <1>b, <1>e, <1>g, <1>i
<1>9. ASSUME NEW c \in Chars, BackOther(c) PROVE TypeOK'
  <2>1. Back(c, 1) /\ pending' = pending /\ origin' = origin
    BY <1>9 DEF BackOther
  <2> QED BY <2>1, <1>a, <1>e, <1>g, <1>i
<1> QED BY <1>1, <1>2, <1>3, <1>4, <1>5, <1>6, <1>7, <1>8, <1>9 DEF Backward

(* The type invariant (TypeOK of the run), for texts of every length.      *)
THEOREM ExpressionTypes == Spec => []TypeOK
<1>1. TypeOK /\ [Next]_vars => TypeOK'
  <2> SUFFICES ASSUME TypeOK, [Next]_vars PROVE TypeOK'
    OBVIOUS
  <2>1. CASE UNCHANGED vars
    BY <2>1 DEF TypeOK, vars, forward, backward, history
  <2> QED BY <2>1, ForwardTypes, BackwardTypes DEF Next
<1> QED BY <1>1, InitTypes, PTL DEF Spec

-----------------------------------------------------------------------------
(* The inductive invariant *)

(* What a search from a bracket that is not an angle has at the bottom of  *)
(* the stack: a bracket that is not an angle, not one taken for an angle.  *)
Bottom(s) == s # <<>> /\ s[1] # "<"

(* The stack holds the open brackets, and BracketFindsItsMate.             *)
Search ==
  /\ Len(text) >= start - 1
  /\ ~Started => outcome = "scan" /\ stack = <<>> /\ open = <<>>
  /\ outcome # "failed" => ~broken /\ Within(stack, open)
  /\ FromBracket /\ outcome = "scan" => Bottom(stack)
  /\ BracketFindsItsMate

(* The types of what every step below argues about.                        *)
LEMMA TextTypes ==
  ASSUME TypeOK
  PROVE  text \in Seq(Chars) /\ Len(text) \in Nat /\ start \in Nat \ {0}
<1>1. text \in Seq(Chars) /\ start \in 1..(Len(text) + 1)
  BY DEF TypeOK
<1>2. Len(text) \in Nat
  BY <1>1
<1> QED BY <1>1, <1>2

(* The invariant of the search holds at the start.                         *)
LEMMA InitSearch == Init => Search
<1> SUFFICES ASSUME Init PROVE Search
  OBVIOUS
<1>1. TypeOK
  BY InitTypes
<1>2. text \in Seq(Chars) /\ Len(text) \in Nat
  BY <1>1, TextTypes
<1>3. ~Started /\ Len(text) >= start - 1
  BY <1>2 DEF Init, Started
<1>4. Within(<<>>, <<>>)
  <2>1. Places(<<>>, <<>>, <<>>)
    BY DEF Places
  <2> QED BY <2>1 DEF Within
<1> QED BY <1>3, <1>4 DEF Init, Search, BracketFindsItsMate, FromBracket

(* Where the search is after one more character.                           *)
LEMMA ReadPlace ==
  ASSUME TypeOK, Search, NEW c \in Chars, Read(c)
  PROVE  /\ Started' /\ Len(text') >= start' - 1
         /\ FromBracket' <=> FromBracket \/ (~Started /\ c \in Brackets)
         /\ ~Started => c \in Brackets \cup {"<"}
<1>1. text \in Seq(Chars) /\ Len(text) \in Nat /\ start \in Nat \ {0}
  BY TextTypes
<1>2. text' = Append(text, c) /\ start' = start
  BY DEF Read
<1>3. /\ Len(text') = Len(text) + 1 /\ text'[Len(text) + 1] = c
      /\ \A i \in 1..Len(text) : text'[i] = text[i]
  BY <1>1, <1>2
<1>4. Len(text) >= start - 1
  BY DEF Search
<1>5. Started' /\ Len(text') >= start' - 1
  BY <1>1, <1>2, <1>3, <1>4 DEF Started
<1>6. CASE Started
  <2>1. text'[start'] = text[start]
    BY <1>1, <1>2, <1>3, <1>6 DEF Started
  <2> QED BY <2>1, <1>5, <1>6 DEF FromBracket
<1>7. CASE ~Started
  <2>1. start = Len(text) + 1
    BY <1>1, <1>4, <1>7 DEF Started
  <2>2. text'[start'] = c
    BY <2>1, <1>2, <1>3
  <2>3. c \in Brackets \cup {"<"}
    BY <2>1, <1>1 DEF Read
  <2> QED BY <2>2, <2>3, <1>5, <1>7 DEF FromBracket
<1> QED BY <1>6, <1>7

(* A character that is neither bracket: the open brackets stay.            *)
LEMMA ReadOther ==
  ASSUME TypeOK, NEW c \in Chars, Read(c), c \notin Brackets, c \notin Closers
  PROVE  open' = open /\ broken' = broken
<1>1. open' = CASE c \in Brackets -> Append(open, c)
                [] c \in Closers /\ Ends(open, Mate(c)) -> Pop(open)
                [] OTHER -> open
  BY Zenon DEF Read, Follow
<1>2. broken' = (broken \/ (c \in Closers /\ ~Ends(open, Mate(c))))
  BY Zenon DEF Read, Follow
<1>3. open' = open
  BY <1>1, Zenon
<1>4. broken \in BOOLEAN
  BY DEF TypeOK
<1>5. broken' = broken
  BY <1>2, <1>4, Zenon
<1> QED BY <1>3, <1>5

(* While a bracket that is not an angle is looked for, it is on the stack. *)
LEMMA StackHolds ==
  ASSUME TypeOK, Search, outcome = "scan", FromBracket
  PROVE  open # <<>> /\ ~broken /\ Within(stack, open) /\ stack # <<>>
<1>1. open # <<>> /\ ~broken /\ Within(stack, open)
  BY DEF Search, BracketFindsItsMate
<1>2. stack # <<>>
  BY <1>1, EmptyStack DEF TypeOK
<1> QED BY <1>1, <1>2

(* What Pop leaves has the same bottom.                                    *)
LEMMA PopBottom ==
  ASSUME NEW s \in Stacks, Bottom(s), Pop(s) # <<>>
  PROVE  Bottom(Pop(s))
<1>1. /\ Len(Pop(s)) = Len(s) - 1 /\ Pop(s) \in Stacks
      /\ \A j \in 1..(Len(s) - 1) : Pop(s)[j] = s[j]
  BY PopRest DEF Bottom, Stacks
<1>2. Len(Pop(s)) \in Nat \ {0}
  BY <1>1 DEF Stacks
<1>3. Pop(s)[1] = s[1]
  BY <1>1, <1>2
<1> QED BY <1>3 DEF Bottom

(* With a bracket at the bottom of the stack, one is open.                 *)
LEMMA BottomOpen ==
  ASSUME NEW s \in Stacks, NEW o \in Seq(Brackets), Within(s, o), Bottom(s)
  PROVE  o # <<>>
<1>1. PICK f : Places(f, s, o)
  BY DEF Within
<1>2. 1 \in 1..Len(s)
  BY DEF Bottom, Stacks
<1>3. PICK i \in 1..Len(o) : f[i] = 1
  BY <1>1, <1>2 DEF Places, Bottom
<1> QED BY <1>3

(* After any step that reads an angle, a semicolon or a plain character.   *)
LEMMA KeepsSearch ==
  ASSUME TypeOK, Search, NEW c \in Chars, Read(c), c \notin Brackets, c \notin Closers,
         outcome' # "failed" => Within(stack', open),
         FromBracket => outcome' \notin {"found", "failed"} /\ Bottom(stack'),
         outcome' \in {"scan", "found", "failed", "gave up"}
  PROVE  Search'
<1>1. outcome = "scan" /\ ~broken
  BY DEF Read, Search
<1>2. open' = open /\ broken' = broken
  BY ReadOther
<1>3. Started' /\ Len(text') >= start' - 1 /\ (FromBracket' <=> FromBracket)
  BY ReadPlace
<1>4. FromBracket => open # <<>>
  BY <1>1, StackHolds
<1>5. BracketFindsItsMate'
  BY <1>1, <1>2, <1>3, <1>4 DEF BracketFindsItsMate
<1> QED BY <1>1, <1>2, <1>3, <1>5 DEF Search

(* An opening bracket goes on the stack and is open.                       *)
LEMMA OpenBracketSearch ==
  ASSUME TypeOK, Search, NEW c \in Chars, OpenBracket(c)
  PROVE  Search'
<1>1. Read(c) /\ c \in Brackets /\ stack' = Append(stack, c) /\ outcome' = outcome
  BY DEF OpenBracket
<1>2. outcome = "scan" /\ ~broken /\ Within(stack, open)
  BY <1>1 DEF Read, Search
<1>3. open' = Append(open, c)
  <2>1. open' = CASE c \in Brackets -> Append(open, c)
                  [] c \in Closers /\ Ends(open, Mate(c)) -> Pop(open)
                  [] OTHER -> open
    BY <1>1, Zenon DEF Read, Follow
  <2>2. c \notin Closers
    BY <1>1 DEF Brackets, Closers
  <2> QED BY <1>1, <2>1, <2>2, Zenon
<1>4. ~broken'
  <2>1. broken' = (broken \/ (c \in Closers /\ ~Ends(open, Mate(c))))
    BY <1>1, Zenon DEF Read, Follow
  <2>2. c \notin Closers
    BY <1>1 DEF Brackets, Closers
  <2> QED BY <1>2, <2>1, <2>2, Zenon
<1>5. stack \in Stacks /\ open \in Seq(Brackets)
  BY DEF TypeOK, Stacks
<1>6. Within(stack', open')
  BY <1>1, <1>2, <1>3, <1>5, PushBracket
<1>7. open' # <<>>
  BY <1>1, <1>3, <1>5
<1>8. Started' /\ Len(text') >= start' - 1
  BY <1>1, ReadPlace
<1>9. FromBracket' => Bottom(stack')
  <2>1. CASE FromBracket
    <3>1. Bottom(stack)
      BY <2>1, <1>2 DEF Search
    <3> QED BY <3>1, <1>1, <1>5, BottomStays DEF Bottom
  <2>2. CASE ~Started
    <3>1. stack' = <<c>>
      BY <2>2, <1>1 DEF Search
    <3>2. c # "<"
      BY <1>1 DEF Brackets
    <3>3. <<c>> # <<>> /\ <<c>>[1] = c
      OBVIOUS
    <3>4. Bottom(<<c>>)
      BY <3>2, <3>3 DEF Bottom
    <3> QED BY <3>1, <3>4
  <2>3. FromBracket' => FromBracket \/ ~Started
    BY <1>1, ReadPlace
  <2> QED BY <2>1, <2>2, <2>3
<1> QED BY <1>1, <1>2, <1>4, <1>6, <1>7, <1>8, <1>9 DEF Search, BracketFindsItsMate

(* A closing bracket meets the innermost open one under the angles.        *)
LEMMA CloseBracketSearch ==
  ASSUME TypeOK, Search, NEW c \in Chars, CloseBracket(c)
  PROVE  Search'
<1> DEFINE rest == DropAngles(stack, "<")
<1>1. /\ Read(c) /\ c \in Closers /\ c \notin Brackets
      /\ IF Ends(rest, Mate(c))
         THEN /\ stack' = Pop(rest)
              /\ outcome' = IF Pop(rest) = <<>> THEN "found" ELSE "scan"
         ELSE outcome' = "failed"
  BY DEF CloseBracket, Return, Brackets, Closers
<1>2. outcome = "scan" /\ ~broken /\ Within(stack, open)
  BY <1>1 DEF Read, Search
<1>3. stack \in Stacks /\ open \in Seq(Brackets)
  BY DEF TypeOK, Stacks
<1>4. rest \in Stacks /\ Within(rest, open) /\ (rest # <<>> => Top(rest) # "<")
  <2>1. PICK k \in 0..Len(stack) : /\ rest = SubSeq(stack, 1, k)
                                   /\ k > 0 => stack[k] # "<"
                                   /\ \A j \in (k + 1)..Len(stack) : stack[j] = "<"
    BY <1>3, DropAnglesRest DEF Stacks
  <2>2. Within(rest, open)
    BY <2>1, <1>2, <1>3, TakeAngles
  <2>3. rest \in Stacks
    BY <1>3, StackTypes DEF Stacks
  <2>4. Len(rest) = k /\ (k > 0 => rest[k] = stack[k])
    BY <2>1, <1>3 DEF Stacks
  <2>5. rest # <<>> => Top(rest) # "<"
    <3>1. rest # <<>> => Len(rest) > 0
      BY <2>3 DEF Stacks
    <3> QED BY <3>1, <2>1, <2>4 DEF Top
  <2> QED BY <2>2, <2>3, <2>5
<1>5. /\ rest # <<>> => open # <<>> /\ Top(open) = Top(rest) /\ Within(Pop(rest), Pop(open))
      /\ rest = <<>> => open = <<>>
  <2> HIDE DEF rest
  <2>1. CASE rest # <<>>
    BY <2>1, <1>3, <1>4, PopBracket
  <2>2. CASE rest = <<>>
    BY <2>2, <1>3, <1>4, EmptyStack
  <2> QED BY <2>1, <2>2
<1>6. open' = CASE c \in Brackets -> Append(open, c)
                [] c \in Closers /\ Ends(open, Mate(c)) -> Pop(open)
                [] OTHER -> open
  BY <1>1, Zenon DEF Read, Follow
<1>7. broken' = (broken \/ (c \in Closers /\ ~Ends(open, Mate(c))))
  BY <1>1, Zenon DEF Read, Follow
<1>8. Started' /\ Len(text') >= start' - 1 /\ (FromBracket' <=> FromBracket)
  BY <1>1, ReadPlace
<1>11. FromBracket /\ rest # <<>> => Bottom(rest)
  <2>1. PICK k \in 0..Len(stack) : rest = SubSeq(stack, 1, k)
    BY <1>3, DropAnglesRest DEF Stacks
  <2>2. rest # <<>> => k \in 1..Len(stack)
    BY <2>1, <1>3 DEF Stacks
  <2>3. FromBracket => Bottom(stack)
    BY <1>2 DEF Search
  <2> HIDE DEF rest
  <2> QED BY <2>1, <2>2, <2>3, <1>3, BottomStays DEF Bottom
<1> HIDE DEF rest
<1>9. CASE Ends(rest, Mate(c))
  <2>1. rest # <<>> /\ open # <<>> /\ Ends(open, Mate(c)) /\ Within(Pop(rest), Pop(open))
    BY <1>5, <1>9 DEF Ends
  <2>2. open' = Pop(open) /\ stack' = Pop(rest)
    BY <2>1, <1>1, <1>6, <1>9, Zenon
  <2>3. ~broken'
    BY <2>1, <1>2, <1>7, Zenon
  <2>4. Within(stack', open')
    BY <2>1, <2>2
  <2>5. Pop(open) \in Seq(Brackets) /\ Pop(rest) \in Stacks
    BY <2>1, <1>3, <1>4, PopRest DEF Stacks
  <2>6. CASE Pop(rest) = <<>>
    <3>1. outcome' = "found"
      BY <2>6, <1>1, <1>9
    <3>2. open' = <<>>
      BY <2>2, <2>4, <2>5, <2>6, EmptyStack
    <3> QED BY <3>1, <3>2, <2>3, <2>4, <1>8 DEF Search, BracketFindsItsMate
  <2>7. CASE Pop(rest) # <<>>
    <3>1. outcome' = "scan"
      BY <2>7, <1>1, <1>9
    <3>2. FromBracket => Bottom(stack')
      BY <2>2, <2>7, <2>1, <1>4, <1>11, PopBottom DEF Stacks
    <3>3. FromBracket => open' # <<>>
      BY <3>2, <2>2, <2>4, <2>5, BottomOpen
    <3> QED BY <3>1, <3>2, <3>3, <2>3, <2>4, <1>8 DEF Search, BracketFindsItsMate
  <2> QED BY <2>6, <2>7
<1>10. CASE ~Ends(rest, Mate(c))
  <2>1. ~Ends(open, Mate(c))
    BY <1>5, <1>10 DEF Ends
  <2>2. broken' /\ outcome' = "failed"
    BY <2>1, <1>1, <1>7, <1>10, Zenon
  <2> QED BY <2>2, <1>8 DEF Search, BracketFindsItsMate
<1> QED BY <1>9, <1>10

(* Every iteration of the search keeps the invariant of the search.        *)
LEMMA ForwardSearch == TypeOK /\ Search /\ Forward => Search'
<1> SUFFICES ASSUME TypeOK, Search, Forward PROVE Search'
  OBVIOUS
<1>a. stack \in Stacks /\ open \in Seq(Brackets)
  BY DEF TypeOK, Stacks
<1>b. \A c : Read(c) => outcome = "scan" /\ Within(stack, open)
  BY DEF Read, Search
<1>c. FromBracket /\ outcome = "scan" => Bottom(stack) /\ open # <<>>
  BY StackHolds DEF Search
<1>d. \A c \in Plain \cup {"<", ">", ";", "newline"} :
        c \in Chars /\ c \notin Brackets /\ c \notin Closers
  BY DEF Plain, Chars, Brackets, Closers
<1>e. ASSUME stack # <<>>, Top(stack) = "<", outcome = "scan", Within(stack, open)
      PROVE  /\ Within(Pop(stack), open)
             /\ FromBracket => Pop(stack) # <<>> /\ Bottom(Pop(stack))
  <2>1. Len(stack) \in Nat /\ Len(stack) > 0
    BY <1>a, <1>e DEF Stacks
  <2>2. Len(stack) - 1 \in 0..Len(stack)
    BY <2>1
  <2>3. \A j \in (Len(stack) - 1 + 1)..Len(stack) : stack[j] = "<"
    BY <1>e, <2>1 DEF Top
  <2>4. Within(Pop(stack), open)
    BY <1>a, <1>e, <2>2, <2>3, TakeAngles DEF Pop
  <2>5. FromBracket => Pop(stack) # <<>>
    BY <1>a, <1>c, <1>e, <2>4, EmptyStack
  <2> QED BY <2>4, <2>5, <1>a, <1>c, <1>e, PopBottom
<1>1. ASSUME NEW c \in Chars, Refuse(c) PROVE Search'
  <2>1. Read(c) /\ Refused(c) /\ outcome' = "gave up" /\ stack' = stack
    BY <1>1 DEF Refuse
  <2>2. c \notin Brackets /\ c \notin Closers /\ ~FromBracket
    BY <2>1 DEF Refused, Brackets, Closers, FromBracket
  <2> QED BY <2>1, <2>2, <1>b, KeepsSearch
<1>2. ASSUME NEW c \in Chars, Other(c) PROVE Search'
  <2>1. Read(c) /\ c \in Plain /\ outcome' = outcome /\ stack' = stack
    BY <1>2 DEF Other
  <2> QED BY <2>1, <1>b, <1>c, <1>d, KeepsSearch
<1>3. CASE LeftShift
  <2>1. /\ Read("<") /\ stack' = DropOne(stack, "<")
        /\ outcome' = IF stack = <<"<">> THEN "failed" ELSE "scan"
    BY <1>3 DEF LeftShift
  <2>2. FromBracket => stack # <<"<">>
    BY <2>1, <1>b, <1>c DEF Bottom
  <2>3. outcome' \in {"scan", "failed"} /\ (FromBracket => outcome' = "scan")
    BY <2>1, <2>2
  <2>4. CASE Ends(stack, "<")
    <3>1. stack # <<>> /\ Top(stack) = "<" /\ stack' = Pop(stack)
      BY <2>1, <2>4 DEF Ends, DropOne
    <3>2. Within(stack', open) /\ (FromBracket => Bottom(stack'))
      BY <3>1, <2>1, <1>b, <1>e
    <3> QED BY <3>2, <2>1, <2>3, <1>d, KeepsSearch
  <2>5. CASE ~Ends(stack, "<")
    <3>1. stack' = stack
      BY <2>1, <2>5 DEF DropOne
    <3> QED BY <3>1, <2>1, <2>3, <1>b, <1>c, <1>d, KeepsSearch
  <2> QED BY <2>4, <2>5
<1>4. CASE Less
  <2>1. /\ Read("<") /\ outcome' = outcome
        /\ stack' = stack \/ stack' = Append(stack, "<")
    BY <1>4 DEF Less
  <2>2. Within(stack', open)
    BY <2>1, <1>a, <1>b, PushAngle
  <2>3. FromBracket => Bottom(stack')
    BY <2>1, <1>a, <1>b, <1>c, BottomStays DEF Bottom
  <2> QED BY <2>1, <2>2, <2>3, <1>b, <1>d, KeepsSearch
<1>5. CASE Greater
  <2>1. Read(">")
    BY <1>5 DEF Greater
  <2>2. CASE Ends(stack, "<") /\ ~NotAngle
    <3>1. /\ stack # <<>> /\ Top(stack) = "<" /\ stack' = Pop(stack)
          /\ outcome' = IF Pop(stack) = <<>> THEN "found" ELSE "scan"
      BY <1>5, <2>2 DEF Greater, Return, Ends
    <3>2. Within(stack', open) /\ (FromBracket => Bottom(stack') /\ outcome' = "scan")
      BY <3>1, <2>1, <1>b, <1>e
    <3>3. outcome' \in {"found", "scan"}
      BY <3>1
    <3> QED BY <3>2, <3>3, <2>1, <1>d, KeepsSearch
  <2>3. CASE ~(Ends(stack, "<") /\ ~NotAngle)
    <3>1. stack' = stack /\ outcome' = outcome
      BY <1>5, <2>3 DEF Greater
    <3> QED BY <3>1, <2>1, <1>b, <1>c, <1>d, KeepsSearch
  <2> QED BY <2>2, <2>3
<1>6. CASE Semicolon
  <2> DEFINE rest == DropAngles(stack, "<")
  <2>1. /\ Read(";") /\ stack' = rest
        /\ outcome' = IF rest = <<>> THEN "failed" ELSE "scan"
    BY <1>6 DEF Semicolon
  <2>2. PICK k \in 0..Len(stack) : /\ rest = SubSeq(stack, 1, k)
                                   /\ \A j \in (k + 1)..Len(stack) : stack[j] = "<"
    BY <1>a, DropAnglesRest DEF Stacks
  <2>3. Within(rest, open)
    BY <2>1, <2>2, <1>a, <1>b, TakeAngles
  <2>4. rest # <<>> => k \in 1..Len(stack)
    BY <2>2, <1>a DEF Stacks
  <2> HIDE DEF rest
  <2>5. FromBracket => rest # <<>>
    BY <2>1, <2>3, <1>a, <1>b, <1>c, EmptyStack
  <2>6. FromBracket => Bottom(rest)
    BY <2>1, <2>2, <2>4, <2>5, <1>a, <1>b, <1>c, BottomStays DEF Bottom
  <2>7. outcome' \in {"failed", "scan"} /\ (FromBracket => outcome' = "scan")
    BY <2>1, <2>5
  <2> QED BY <2>1, <2>3, <2>6, <2>7, <1>d, KeepsSearch
<1>7. CASE EndOfLine
  <2>1. Read("newline") /\ stack' = stack /\ outcome' \in {"gave up", "scan"}
    BY <1>7 DEF EndOfLine
  <2> QED BY <2>1, <1>b, <1>c, <1>d, KeepsSearch
<1>8. CASE EndOfFile
  <2>1. /\ outcome = "scan" /\ outcome' = "gave up" /\ text' = text /\ start' = start
        /\ stack' = stack /\ open' = open /\ broken' = broken /\ Started
    BY <1>8 DEF EndOfFile, history, Started
  <2>2. Started' /\ (FromBracket' <=> FromBracket)
    BY <2>1 DEF Started, FromBracket
  <2> QED BY <2>1, <2>2, <1>c DEF Search, BracketFindsItsMate
<1> QED BY <1>1, <1>2, <1>3, <1>4, <1>5, <1>6, <1>7, <1>8,
           OpenBracketSearch, CloseBracketSearch DEF Forward

(* The way back leaves it alone.                                           *)
LEMMA BackwardSearch == TypeOK /\ Search /\ Backward => Search'
<1> SUFFICES ASSUME Search, Backward PROVE Search'
  OBVIOUS
<1>1. forward' = forward /\ history' = history
  BY DEF Backward, TurnBack, BackGreater, BackLess, BackSemicolon, BackLine, StartOfFile,
         BackCloser, BackBracket, BackOther, Back, forward, history
<1> QED BY <1>1 DEF forward, history, Search, Started, BracketFindsItsMate, FromBracket

(* So it holds in every state.                                             *)
LEMMA SearchHolds == Spec => []Search
<1>1. TypeOK /\ Search /\ [Next]_vars => Search'
  <2> SUFFICES ASSUME TypeOK, Search, [Next]_vars PROVE Search'
    OBVIOUS
  <2>1. CASE UNCHANGED vars
    BY <2>1 DEF vars, forward, history, Search, Started, BracketFindsItsMate, FromBracket
  <2> QED BY <2>1, ForwardSearch, BackwardSearch DEF Next
<1> QED BY <1>1, InitSearch, ExpressionTypes, PTL DEF Spec

(* A search from a round, square or curly bracket ends at its mate and     *)
(* fails only where a bracket does not fit, in texts of every length       *)
(* (CloseExpression).                                                      *)
THEOREM BracketsMatch == Spec => []BracketFindsItsMate
<1>1. Search => BracketFindsItsMate
  BY DEF Search
<1> QED BY <1>1, SearchHolds, PTL

-----------------------------------------------------------------------------
(* Angles in tidy texts                                                    *)

(* No angle is an operator, and from an angle the stack is what is open.   *)
TidySearch ==
  tidy =>
    /\ \A k \in 1..Len(text) : text[k] # "operator"
    /\ ~Started => nest = <<>>
    /\ FromAngle => stack = nest /\ (outcome = "found" <=> nest = <<>>) /\ outcome # "failed"

(* It holds at the start.                                                  *)
LEMMA InitTidy == Init => TidySearch
<1> SUFFICES ASSUME Init, tidy PROVE TidySearch
  BY DEF TidySearch
<1>1. text \in {<<>>, <<"a">>} /\ nest = <<>>
  BY DEF Init
<1>2. \A k \in 1..Len(text) : text[k] # "operator"
  BY <1>1
<1>3. ~Started
  BY <1>1 DEF Init, Started
<1> QED BY <1>1, <1>2, <1>3 DEF TidySearch, FromAngle

(* The kinds of characters differ.                                         *)
LEMMA Kinds ==
  /\ \A c \in Brackets : c \in Chars /\ c \notin Closers /\ c \notin Plain /\ c \notin {"<", ">", ";", "newline", "operator"}
  /\ \A c \in Closers : c \in Chars /\ c \notin Brackets /\ c \notin Plain /\ c \notin {"<", ">", ";", "newline", "operator"}
  /\ \A c \in Plain \cup {";", "newline"} :
       c \in Chars /\ c \notin Brackets /\ c \notin Closers /\ c # "<" /\ c # ">"
  /\ "<" \in Chars /\ ">" \in Chars /\ "<" \notin Closers /\ ">" \notin Closers /\ "<" \notin Brackets
  /\ ">" \notin Brackets
BY DEF Brackets, Closers, Plain, Chars

(* What a text that stays tidy says of the next character                  *)
LEMMA TidyChar ==
  ASSUME TypeOK, NEW c, Read(c), tidy'
  PROVE  /\ tidy /\ c # "operator"
         /\ c \in Closers => Ends(nest, Mate(c))
         /\ c = ">" => Ends(nest, "<") /\ ~Ends(text, "-")
         /\ c = "<" => ~Ends(text, "<")
         /\ c = "=" => ~Ends(text, ">") /\ ~Ends(text, "<")
         /\ c = ";" => ~Ends(nest, "<")
<1>1. tidy' = /\ tidy
              /\ c \in Closers => Ends(nest, Mate(c))
              /\ c = ">" => Ends(nest, "<") /\ ~Ends(text, "-")
              /\ c = "<" => ~Ends(text, "<")
              /\ c = "=" => ~Ends(text, ">") /\ ~Ends(text, "<")
              /\ c = ";" => ~Ends(nest, "<")
              /\ c # "operator"
  BY Zenon DEF Read, Follow
<1> QED BY <1>1, Zenon

(* What the next character of a tidy text does to what is open             *)
LEMMA TidyNest ==
  ASSUME TypeOK, NEW c \in Chars, Read(c), tidy'
  PROVE  /\ c \in Brackets \cup {"<"} => nest' = Append(nest, c)
         /\ c \in Closers \cup {">"} => nest' = Pop(nest)
         /\ c \in Plain \cup {";", "newline"} => nest' = nest
<1>1. nest' = CASE c \in Brackets \cup {"<"} -> Append(nest, c)
                [] c \in Closers /\ Ends(nest, Mate(c)) -> Pop(nest)
                [] c = ">" /\ Ends(nest, "<") -> Pop(nest)
                [] OTHER -> nest
  BY Zenon DEF Read, Follow
<1>2. CASE c \in Brackets \cup {"<"}
  <2>1. c \notin Closers \cup {">"} /\ c \notin Plain \cup {";", "newline"}
    BY <1>2, Kinds
  <2>2. nest' = Append(nest, c)
    BY <1>1, <1>2, <2>1, Zenon
  <2> QED BY <2>1, <2>2
<1>3. CASE c \in Closers
  <2>1. c \notin Brackets \cup {"<"} /\ c # ">" /\ c \notin Plain \cup {";", "newline"}
    BY <1>3, Kinds
  <2>2. Ends(nest, Mate(c))
    BY <1>3, TidyChar
  <2>3. nest' = Pop(nest)
    BY <1>1, <1>3, <2>1, <2>2, Zenon
  <2> QED BY <2>1, <2>3
<1>4. CASE c = ">"
  <2>1. c \notin Brackets \cup {"<"} /\ c \notin Closers /\ c \notin Plain \cup {";", "newline"}
    BY <1>4, Kinds
  <2>2. Ends(nest, "<")
    BY <1>4, TidyChar
  <2>3. nest' = Pop(nest)
    BY <1>1, <1>4, <2>1, <2>2, Zenon
  <2> QED BY <2>1, <2>3
<1>5. CASE c \in Plain \cup {";", "newline"}
  <2>1. c \notin Brackets \cup {"<"} /\ c \notin Closers \cup {">"}
    BY <1>5, Kinds
  <2>2. nest' = nest
    BY <1>1, <2>1, Zenon
  <2> QED BY <1>5, <2>1, <2>2
<1> QED BY <1>2, <1>3, <1>4, <1>5 DEF Chars

(* Where a tidy search from an angle is before the next character          *)
LEMMA TidyPlace ==
  ASSUME TypeOK, Search, TidySearch, NEW c \in Chars, Read(c), tidy'
  PROVE  /\ \A k \in 1..Len(text) : text[k] # "operator"
         /\ \A k \in 1..Len(text') : text'[k] # "operator"
         /\ FromAngle' => \/ Started /\ FromAngle /\ stack = nest /\ nest # <<>>
                          \/ ~Started /\ c = "<" /\ stack = <<>> /\ nest = <<>>
<1>1. text \in Seq(Chars) /\ Len(text) \in Nat /\ start \in Nat \ {0}
  BY TextTypes
<1>2. text' = Append(text, c) /\ start' = start /\ outcome = "scan"
  BY DEF Read
<1>3. /\ Len(text') = Len(text) + 1 /\ text'[Len(text) + 1] = c
      /\ \A i \in 1..Len(text) : text'[i] = text[i]
  BY <1>1, <1>2
<1>4. tidy /\ c # "operator"
  BY TidyChar
<1>5. \A k \in 1..Len(text) : text[k] # "operator"
  BY <1>4 DEF TidySearch
<1>6. \A k \in 1..Len(text) + 1 : k \in 1..Len(text) \/ k = Len(text) + 1
  BY <1>1
<1>7. \A k \in 1..Len(text') : text'[k] # "operator"
  BY <1>3, <1>4, <1>5, <1>6
<1>8. CASE Started
  <2>1. text'[start'] = text[start]
    BY <1>1, <1>2, <1>3, <1>8 DEF Started
  <2>2. FromAngle' => FromAngle
    BY <2>1, <1>8 DEF FromAngle
  <2>3. FromAngle => stack = nest /\ nest # <<>>
    BY <1>2, <1>4 DEF TidySearch
  <2> QED BY <1>5, <1>7, <1>8, <2>2, <2>3
<1>9. CASE ~Started
  <2>1. start = Len(text) + 1
    BY <1>1, <1>9 DEF Started, Search
  <2>2. text'[start'] = c
    BY <2>1, <1>2, <1>3
  <2>3. stack = <<>> /\ nest = <<>>
    BY <1>4, <1>9 DEF Search, TidySearch
  <2> QED BY <1>5, <1>7, <1>9, <2>2, <2>3 DEF FromAngle
<1> QED BY <1>8, <1>9

(* No word "operator" is in front of an angle of a tidy text.              *)
LEMMA NoOperator ==
  ASSUME TypeOK, \A k \in 1..Len(text) : text[k] # "operator"
  PROVE  ~AfterOperator(text) /\ (~AtLineStart(text) => ~AfterOperator(Pop(text)))
<1>1. text \in Seq(Chars) /\ Len(text) \in Nat
  BY TextTypes
<1>2. ~AfterOperator(text)
  BY DEF AfterOperator
<1>3. ASSUME text # <<>> PROVE ~AfterOperator(Pop(text))
  <2>1. /\ Len(Pop(text)) = Len(text) - 1
        /\ \A j \in 1..(Len(text) - 1) : Pop(text)[j] = text[j]
    BY <1>1, <1>3, PopRest
  <2>2. \A j \in 1..(Len(text) - 1) : j \in 1..Len(text)
    BY <1>1
  <2> QED BY <2>1, <2>2 DEF AfterOperator
<1> QED BY <1>2, <1>3 DEF AtLineStart

(* A step keeps the invariant if it does with the stack what the character *)
(* does with what is open.                                                 *)
LEMMA KeepsTidy ==
  ASSUME TypeOK, Search, TidySearch, NEW c \in Chars, Read(c),
         ASSUME tidy', FromAngle'
         PROVE  stack' = nest' /\ (outcome' = "found" <=> nest' = <<>>) /\ outcome' # "failed"
  PROVE  TidySearch'
<1>1. Started'
  BY ReadPlace
<1> SUFFICES ASSUME tidy' PROVE TidySearch'
  BY DEF TidySearch
<1>2. \A k \in 1..Len(text') : text'[k] # "operator"
  BY TidyPlace
<1>3. FromAngle' => stack' = nest' /\ (outcome' = "found" <=> nest' = <<>>) /\ outcome' # "failed"
  OBVIOUS
<1> QED BY <1>1, <1>2, <1>3 DEF TidySearch

(* What is left without the angle on top, or without angles if none is     *)
LEMMA NoAngles ==
  ASSUME NEW S, NEW s \in Seq(S), NEW angle, ~Ends(s, angle)
  PROVE  DropAngles(s, angle) = s
<1>1. PICK k \in 0..Len(s) : /\ DropAngles(s, angle) = SubSeq(s, 1, k)
                             /\ \A j \in (k + 1)..Len(s) : s[j] = angle
  BY DropAnglesRest
<1>2. Len(s) \in Nat
  OBVIOUS
<1>3. k = Len(s)
  <2> SUFFICES ASSUME k < Len(s) PROVE FALSE
    BY <1>2
  <2>1. Len(s) \in (k + 1)..Len(s) /\ s # <<>>
    BY <1>2
  <2> QED BY <2>1, <1>1 DEF Ends, Top
<1>4. SubSeq(s, 1, Len(s)) = s
  OBVIOUS
<1> QED BY <1>1, <1>3, <1>4

(* Nothing is empty after a push.                                          *)
LEMMA AppendFills ==
  ASSUME NEW S, NEW s \in Seq(S), NEW c \in S
  PROVE  Append(s, c) # <<>>
BY AppendProperties

(* Every step of the way forward keeps it.                                 *)
LEMMA ForwardTidy == TypeOK /\ Search /\ TidySearch /\ Forward => TidySearch'
<1> SUFFICES ASSUME TypeOK, Search, TidySearch, Forward PROVE TidySearch'
  OBVIOUS
<1>a. nest \in Seq(Brackets \cup {"<"}) /\ stack \in Seq(Brackets \cup {"<"})
  BY DEF TypeOK
<1>b. \A c : Read(c) => outcome = "scan"
  BY DEF Read
<1>1. ASSUME NEW c \in Chars, Refuse(c) PROVE TidySearch'
  <2>1. Read(c) /\ Refused(c)
    BY <1>1 DEF Refuse
  <2>2. ASSUME tidy' PROVE FALSE
    <3>1. c \in {"<", "="} /\ Len(text) = start /\ text[start] = "<"
      BY <2>1 DEF Refused
    <3>2. Ends(text, "<")
      BY <3>1, TextTypes DEF Ends, Top
    <3> QED BY <2>1, <2>2, <3>1, <3>2, TidyChar
  <2> QED BY <2>2 DEF TidySearch
<1>2. ASSUME NEW c \in Chars, OpenBracket(c) PROVE TidySearch'
  <2>1. Read(c) /\ c \in Brackets /\ stack' = Append(stack, c) /\ outcome' = outcome
    BY <1>2 DEF OpenBracket
  <2>2. ASSUME tidy', FromAngle'
        PROVE  stack' = nest' /\ (outcome' = "found" <=> nest' = <<>>) /\ outcome' # "failed"
    <3>1. stack = nest
      BY <2>1, <2>2, TidyPlace
    <3>2. nest' = Append(nest, c)
      BY <2>1, <2>2, TidyNest
    <3>3. Append(nest, c) # <<>>
      BY <1>a, <2>1, AppendFills
    <3> QED BY <1>b, <2>1, <3>1, <3>2, <3>3
  <2> QED BY <2>1, <2>2, KeepsTidy
<1>3. ASSUME NEW c \in Chars, CloseBracket(c) PROVE TidySearch'
  <2> DEFINE rest == DropAngles(stack, "<")
  <2>1. /\ Read(c) /\ c \in Closers
        /\ Ends(rest, Mate(c)) =>
             stack' = Pop(rest) /\ outcome' = IF Pop(rest) = <<>> THEN "found" ELSE "scan"
    BY <1>3 DEF CloseBracket, Return
  <2>2. ASSUME tidy', FromAngle'
        PROVE  stack' = nest' /\ (outcome' = "found" <=> nest' = <<>>) /\ outcome' # "failed"
    <3>1. stack = nest
      BY <2>1, <2>2, TidyPlace
    <3>2. Ends(nest, Mate(c)) /\ nest' = Pop(nest)
      BY <2>1, <2>2, TidyChar, TidyNest
    <3>3. Mate(c) # "<"
      BY DEF Mate
    <3>4. rest = nest
      BY <1>a, <3>1, <3>2, <3>3, NoAngles DEF Ends
    <3> QED BY <2>1, <3>2, <3>4
  <2> HIDE DEF rest
  <2> QED BY <2>1, <2>2, KeepsTidy
<1>4. ASSUME NEW c \in Chars, Other(c) PROVE TidySearch'
  <2>1. Read(c) /\ c \in Plain /\ outcome' = outcome /\ stack' = stack
    BY <1>4 DEF Other
  <2>2. ASSUME tidy', FromAngle'
        PROVE  stack' = nest' /\ (outcome' = "found" <=> nest' = <<>>) /\ outcome' # "failed"
    <3>1. stack = nest /\ nest # <<>>
      BY <2>1, <2>2, TidyPlace, Kinds
    <3>2. nest' = nest
      BY <2>1, <2>2, TidyNest
    <3> QED BY <1>b, <2>1, <3>1, <3>2
  <2> QED BY <2>1, <2>2, KeepsTidy
<1>5. CASE LeftShift
  <2>1. Read("<") /\ Ends(text, "<")
    BY <1>5 DEF LeftShift
  <2>2. ASSUME tidy' PROVE FALSE
    BY <2>1, <2>2, TidyChar
  <2> QED BY <2>2 DEF TidySearch
<1>6. CASE Less
  <2>1. /\ Read("<") /\ outcome' = outcome
        /\ stack' = IF AfterOperator(text) THEN stack ELSE Append(stack, "<")
    BY <1>6 DEF Less
  <2>2. ASSUME tidy', FromAngle'
        PROVE  stack' = nest' /\ (outcome' = "found" <=> nest' = <<>>) /\ outcome' # "failed"
    <3>1. stack = nest /\ \A k \in 1..Len(text) : text[k] # "operator"
      BY <2>1, <2>2, TidyPlace, Kinds
    <3>2. stack' = Append(stack, "<")
      BY <2>1, <3>1, NoOperator
    <3>3. nest' = Append(nest, "<")
      BY <2>1, <2>2, TidyNest, Kinds
    <3>4. Append(nest, "<") # <<>>
      BY <1>a, AppendFills
    <3> QED BY <1>b, <2>1, <3>1, <3>2, <3>3, <3>4
  <2> QED BY <2>1, <2>2, KeepsTidy, Kinds
<1>7. CASE Greater
  <2>1. /\ Read(">")
        /\ Ends(stack, "<") /\ ~NotAngle =>
             stack' = Pop(stack) /\ outcome' = IF Pop(stack) = <<>> THEN "found" ELSE "scan"
    BY <1>7 DEF Greater, Return
  <2>2. ASSUME tidy', FromAngle'
        PROVE  stack' = nest' /\ (outcome' = "found" <=> nest' = <<>>) /\ outcome' # "failed"
    <3>1. stack = nest /\ \A k \in 1..Len(text) : text[k] # "operator"
      BY <2>1, <2>2, TidyPlace, Kinds
    <3>2. Ends(nest, "<") /\ ~Ends(text, "-") /\ nest' = Pop(nest)
      BY <2>1, <2>2, TidyChar, TidyNest, Kinds
    <3>3. ~NotAngle
      BY <3>1, <3>2, NoOperator DEF NotAngle
    <3> QED BY <2>1, <3>1, <3>2, <3>3
  <2> QED BY <2>1, <2>2, KeepsTidy, Kinds
<1>8. CASE Semicolon
  <2> DEFINE rest == DropAngles(stack, "<")
  <2>1. /\ Read(";") /\ stack' = rest
        /\ outcome' = IF rest = <<>> THEN "failed" ELSE "scan"
    BY <1>8 DEF Semicolon
  <2>2. ASSUME tidy', FromAngle'
        PROVE  stack' = nest' /\ (outcome' = "found" <=> nest' = <<>>) /\ outcome' # "failed"
    <3>1. stack = nest /\ nest # <<>>
      BY <2>1, <2>2, TidyPlace, Kinds
    <3>2. ~Ends(nest, "<") /\ nest' = nest
      BY <2>1, <2>2, TidyChar, TidyNest, Kinds
    <3>3. rest = nest
      BY <1>a, <3>1, <3>2, NoAngles
    <3> HIDE DEF rest
    <3> QED BY <2>1, <3>1, <3>2, <3>3
  <2> HIDE DEF rest
  <2> QED BY <2>1, <2>2, KeepsTidy, Kinds
<1>9. CASE EndOfLine
  <2>1. Read("newline") /\ stack' = stack /\ outcome' = IF stack = <<>> THEN "gave up" ELSE "scan"
    BY <1>9 DEF EndOfLine
  <2>2. ASSUME tidy', FromAngle'
        PROVE  stack' = nest' /\ (outcome' = "found" <=> nest' = <<>>) /\ outcome' # "failed"
    <3>1. stack = nest /\ nest # <<>>
      BY <2>1, <2>2, TidyPlace, Kinds
    <3>2. nest' = nest
      BY <2>1, <2>2, TidyNest, Kinds
    <3> QED BY <2>1, <3>1, <3>2
  <2> QED BY <2>1, <2>2, KeepsTidy, Kinds
<1>10. CASE EndOfFile
  <2>1. /\ outcome = "scan" /\ outcome' = "gave up" /\ text' = text /\ start' = start
        /\ stack' = stack /\ nest' = nest /\ tidy' = tidy
    BY <1>10 DEF EndOfFile, history
  <2> QED BY <2>1 DEF TidySearch, Started, FromAngle
<1> QED BY <1>1, <1>2, <1>3, <1>4, <1>5, <1>6, <1>7, <1>8, <1>9, <1>10 DEF Forward

(* The way back does not touch it.                                         *)
LEMMA BackwardTidy == TidySearch /\ Backward => TidySearch'
<1> SUFFICES ASSUME TidySearch, Backward PROVE TidySearch'
  OBVIOUS
<1>1. forward' = forward /\ history' = history
  BY DEF Backward, TurnBack, BackGreater, BackLess, BackSemicolon, BackLine, StartOfFile,
         BackCloser, BackBracket, BackOther, Back, forward, history
<1> QED BY <1>1 DEF forward, history, TidySearch, Started, FromAngle

(* So it holds in every state.                                             *)
LEMMA TidySearchHolds == Spec => []TidySearch
<1>1. TypeOK /\ Search /\ TidySearch /\ [Next]_vars => TidySearch'
  <2> SUFFICES ASSUME TypeOK, Search, TidySearch, [Next]_vars PROVE TidySearch'
    OBVIOUS
  <2>1. CASE UNCHANGED vars
    BY <2>1 DEF vars, forward, history, TidySearch, Started, FromAngle
  <2> QED BY <2>1, ForwardTidy, BackwardTidy DEF Next
<1> QED BY <1>1, SearchHolds, InitTidy, ExpressionTypes, PTL DEF Spec

(* In a text whose angles can all be brackets, a search from an angle ends *)
(* where it closes among all the brackets, and never fails, in texts of    *)
(* every length (CloseExpression).                                         *)
THEOREM AnglesMatch == Spec => []AngleFindsItsMate
<1>1. TidySearch => AngleFindsItsMate
  BY DEF TidySearch, AngleFindsItsMate
<1> QED BY <1>1, TidySearchHolds, PTL

-----------------------------------------------------------------------------
(* What was open at every character                                        *)

(* The bracket that c closes *)
Partner(c) == IF c = ">" THEN "<" ELSE Mate(c)

(* What no angle is open in front of *)
Stops == {";"}

(* h says what is open after each character of t from first on, with the   *)
(* brackets B and C; o is open at the end.  After a first bracket of S it  *)
(* is never empty before.                                                  *)
History(h, t, first, o, B, C, S) ==
  /\ h \in [(first - 1)..Len(t) -> Seq(B)]
  /\ h[first - 1] = <<>> /\ h[Len(t)] = o
  /\ \A i \in first..Len(t) :
       /\ t[first] \in S /\ i < Len(t) => h[i] # <<>>
       /\ t[i] \in B => h[i] = Append(h[i - 1], t[i])
       /\ t[i] \in C => Ends(h[i - 1], Partner(t[i])) /\ h[i] = Pop(h[i - 1])
       /\ t[i] \notin B \cup C => h[i] = h[i - 1]
       /\ t[i] \in Stops => ~Ends(h[i - 1], "<")

(* Before the first bracket nothing is.                                    *)
LEMMA HistoryStarts ==
  ASSUME NEW B, NEW C, NEW S, NEW t, NEW first \in Nat \ {0}, Len(t) = first - 1
  PROVE  \E h : History(h, t, first, <<>>, B, C, S)
<1>1. (first - 1)..Len(t) = {first - 1} /\ \A i \in first..Len(t) : FALSE
  OBVIOUS
<1> DEFINE h == [i \in {first - 1} |-> <<>>]
<1>2. h \in [(first - 1)..Len(t) -> Seq(B)] /\ h[first - 1] = <<>>
  BY <1>1
<1> HIDE DEF h
<1>3. History(h, t, first, <<>>, B, C, S)
  BY <1>1, <1>2 DEF History
<1> QED BY <1>3

(* One character more                                                      *)
LEMMA HistoryGrows ==
  ASSUME NEW B, NEW C, NEW S, NEW t \in Seq(Chars), NEW c \in Chars,
         NEW first \in Nat \ {0}, Len(t) >= first - 1, NEW o, NEW p \in Seq(B),
         NEW h, History(h, t, first, o, B, C, S),
         Len(t) >= first /\ t[first] \in S => o # <<>>,
         c \in B => p = Append(o, c),
         c \in C => Ends(o, Partner(c)) /\ p = Pop(o),
         c \notin B \cup C => p = o,
         c \in Stops => ~Ends(o, "<")
  PROVE  \E g : History(g, Append(t, c), first, p, B, C, S)
<1>1. PICK n \in Nat : n = Len(t)
  OBVIOUS
<1>2. PICK u : /\ u = Append(t, c) /\ Len(u) = n + 1 /\ u[n + 1] = c
               /\ \A i \in 1..n : u[i] = t[i]
  <2>1. /\ Len(Append(t, c)) = n + 1 /\ Append(t, c)[n + 1] = c
        /\ \A i \in 1..n : Append(t, c)[i] = t[i]
    BY <1>1, AppendProperties
  <2> QED BY <2>1
<1>3. /\ h \in [(first - 1)..n -> Seq(B)]
      /\ h[first - 1] = <<>> /\ h[n] = o
      /\ \A i \in first..n :
           /\ t[first] \in S /\ i < n => h[i] # <<>>
           /\ t[i] \in B => h[i] = Append(h[i - 1], t[i])
           /\ t[i] \in C => Ends(h[i - 1], Partner(t[i])) /\ h[i] = Pop(h[i - 1])
           /\ t[i] \notin B \cup C => h[i] = h[i - 1]
           /\ t[i] \in Stops => ~Ends(h[i - 1], "<")
  BY <1>1 DEF History
<1> DEFINE G == [i \in (first - 1)..(n + 1) |-> IF i = n + 1 THEN p ELSE h[i]]
<1>4. PICK g : /\ g \in [(first - 1)..(n + 1) -> Seq(B)]
               /\ g[n + 1] = p
               /\ \A i \in (first - 1)..n : g[i] = h[i]
  <2>1. \A i \in (first - 1)..(n + 1) : i = n + 1 \/ i \in (first - 1)..n
    BY <1>1
  <2>2. /\ n + 1 \in (first - 1)..(n + 1)
        /\ \A i \in (first - 1)..n : i \in (first - 1)..(n + 1) /\ i # n + 1
    BY <1>1
  <2>3. G \in [(first - 1)..(n + 1) -> Seq(B)]
    BY <1>3, <2>1
  <2>4. G[n + 1] = p /\ \A i \in (first - 1)..n : G[i] = h[i]
    BY <2>2
  <2> HIDE DEF G
  <2> QED BY <2>3, <2>4
<1>5. n >= first - 1 /\ first - 1 \in (first - 1)..n /\ n \in (first - 1)..n
  BY <1>1
<1>6. g[first - 1] = <<>> /\ g[n] = o
  BY <1>3, <1>4, <1>5
<1>7. ASSUME NEW i \in first..n
      PROVE  /\ u[first] \in S /\ i < n + 1 => g[i] # <<>>
             /\ u[i] \in B => g[i] = Append(g[i - 1], u[i])
             /\ u[i] \in C => Ends(g[i - 1], Partner(u[i])) /\ g[i] = Pop(g[i - 1])
             /\ u[i] \notin B \cup C => g[i] = g[i - 1]
             /\ u[i] \in Stops => ~Ends(g[i - 1], "<")
  <2>1. /\ i \in (first - 1)..n /\ i - 1 \in (first - 1)..n /\ i \in 1..n /\ first \in 1..n
        /\ (i < n \/ i = n) /\ n >= first
    BY <1>1
  <2>2. g[i] = h[i] /\ g[i - 1] = h[i - 1] /\ u[i] = t[i] /\ u[first] = t[first]
    BY <1>2, <1>4, <2>1
  <2>3. u[first] \in S => g[i] # <<>>
    BY <1>1, <1>3, <2>1, <2>2
  <2> QED BY <1>3, <2>2, <2>3
<1>8. /\ u[n + 1] \in B => g[n + 1] = Append(g[n], u[n + 1])
      /\ u[n + 1] \in C => Ends(g[n], Partner(u[n + 1])) /\ g[n + 1] = Pop(g[n])
      /\ u[n + 1] \notin B \cup C => g[n + 1] = g[n]
      /\ u[n + 1] \in Stops => ~Ends(g[n], "<")
  BY <1>2, <1>4, <1>6
<1>9. /\ \A i \in first..(n + 1) : i \in first..n \/ i = n + 1
      /\ (n + 1) - 1 = n /\ ~(n + 1 < n + 1)
  BY <1>1
<1>10. \A i \in first..(n + 1) :
         /\ u[first] \in S /\ i < n + 1 => g[i] # <<>>
         /\ u[i] \in B => g[i] = Append(g[i - 1], u[i])
         /\ u[i] \in C => Ends(g[i - 1], Partner(u[i])) /\ g[i] = Pop(g[i - 1])
         /\ u[i] \notin B \cup C => g[i] = g[i - 1]
         /\ u[i] \in Stops => ~Ends(g[i - 1], "<")
  BY <1>7, <1>8, <1>9
<1>11. History(g, u, first, p, B, C, S)
  BY <1>2, <1>4, <1>6, <1>10 DEF History
<1> QED BY <1>2, <1>11

OpenHistory(h) == History(h, text, start, open, Brackets, Closers, Brackets)
NestHistory(h) ==
  History(h, text, start, nest, Brackets \cup {"<"}, Closers \cup {">"}, {"<"})

(* No neighbours make an operator *)
TidyPairs(t) ==
  \A i \in 2..Len(t) : /\ t[i] = ">" => t[i - 1] # "-"
                       /\ t[i] = "=" => t[i - 1] # ">"
                       /\ t[i] = "<" => t[i - 1] # "<"

(* What was read is a history of what is open.                             *)
Histories ==
  /\ ~broken => \E h : OpenHistory(h)
  /\ tidy => TidyPairs(text) /\ \E h : NestHistory(h)

(* Where there are no neighbours                                           *)
LEMMA NoPairs == \A t \in {<<>>, <<"a">>} : \A i \in 2..Len(t) : FALSE
<1>1. Len(<<>>) = 0 /\ Len(<<"a">>) = 1
  OBVIOUS
<1>2. \A t \in {<<>>, <<"a">>} : Len(t) = 0 \/ Len(t) = 1
  BY <1>1, Zenon
<1>3. \A n : (n = 0 \/ n = 1) => \A i \in 2..n : FALSE
  OBVIOUS
<1> QED BY <1>2, <1>3, Zenon

(* It holds at the start.                                                  *)
LEMMA InitHistories == Init => Histories
<1> SUFFICES ASSUME Init PROVE Histories
  OBVIOUS
<1>1. start \in Nat \ {0} /\ Len(text) \in Nat
  BY InitTypes, TextTypes
<1>2. Len(text) = start - 1 /\ open = <<>> /\ nest = <<>>
  BY <1>1 DEF Init
<1>3. \E h : OpenHistory(h)
  BY <1>1, <1>2, HistoryStarts DEF OpenHistory
<1>4. \E h : NestHistory(h)
  BY <1>1, <1>2, HistoryStarts DEF NestHistory
<1>5. ASSUME tidy PROVE TidyPairs(text)
  <2>1. text \in {<<>>, <<"a">>}
    BY <1>5, Zenon DEF Init
  <2>2. \A i \in 2..Len(text) : FALSE
    BY <2>1, NoPairs, Zenon
  <2> QED BY <2>2 DEF TidyPairs
<1> QED BY <1>3, <1>4, <1>5, Zenon DEF Histories

(* What a character does to what is open, if it fits                       *)
LEMMA OpenNext ==
  ASSUME TypeOK, NEW c \in Chars, Read(c), ~broken'
  PROVE  /\ ~broken
         /\ c \in Brackets => open' = Append(open, c)
         /\ c \in Closers => Ends(open, Mate(c)) /\ open' = Pop(open)
         /\ c \notin Brackets \cup Closers => open' = open
<1>1. open' = CASE c \in Brackets -> Append(open, c)
                [] c \in Closers /\ Ends(open, Mate(c)) -> Pop(open)
                [] OTHER -> open
  BY Zenon DEF Read, Follow
<1>2. broken' = (broken \/ (c \in Closers /\ ~Ends(open, Mate(c))))
  BY Zenon DEF Read, Follow
<1>3. ~broken /\ (c \in Closers => Ends(open, Mate(c)))
  BY <1>2, Zenon
<1>4. CASE c \in Brackets
  <2>1. c \notin Closers
    BY <1>4, Kinds, Zenon
  <2>2. open' = Append(open, c)
    BY <1>1, <1>4, <2>1, Zenon
  <2> QED BY <1>3, <1>4, <2>1, <2>2, Zenon
<1>5. CASE c \in Closers
  <2>1. c \notin Brackets
    BY <1>5, Kinds, Zenon
  <2>2. open' = Pop(open)
    BY <1>1, <1>3, <1>5, <2>1, Zenon
  <2> QED BY <1>3, <1>5, <2>1, <2>2, Zenon
<1>6. CASE c \notin Brackets \cup Closers
  <2>1. c \notin Brackets /\ c \notin Closers
    BY <1>6
  <2>2. open' = open
    BY <1>1, <2>1, Zenon
  <2> QED BY <1>3, <2>1, <2>2, Zenon
<1> QED BY <1>4, <1>5, <1>6, Zenon

(* Closing brackets and their partners                                     *)
LEMMA Partners ==
  /\ \A c \in Closers : Partner(c) = Mate(c) /\ Partner(c) \in Brackets
  /\ Partner(">") = "<"
  /\ Stops \cap (Brackets \cup Closers \cup {"<", ">"}) = {}
BY DEF Closers, Brackets, Partner, Mate, Stops

(* The history without the angles, one character on                        *)
LEMMA OpenHistoryNext ==
  ASSUME TypeOK, Search, NEW c \in Chars, Read(c), ~broken', \E h : OpenHistory(h)
  PROVE  \E h : OpenHistory(h)'
<1>1. PICK h : History(h, text, start, open, Brackets, Closers, Brackets)
  BY DEF OpenHistory
<1>2. /\ text \in Seq(Chars) /\ start \in Nat \ {0} /\ Len(text) >= start - 1
      /\ text' = Append(text, c) /\ start' = start /\ outcome = "scan"
  BY TextTypes DEF Search, Read
<1>3. open \in Seq(Brackets) /\ open' \in Seq(Brackets)
  BY ReadTypes, Zenon DEF TypeOK
<1>4. Len(text) >= start /\ text[start] \in Brackets => open # <<>>
  BY <1>2, StackHolds DEF FromBracket, Started
<1>5. /\ c \in Brackets => open' = Append(open, c)
      /\ c \in Closers => Ends(open, Partner(c)) /\ open' = Pop(open)
      /\ c \notin Brackets \cup Closers => open' = open
  BY OpenNext, Partners
<1>6. ~Ends(open, "<")
  <2>1. open # <<>> => Top(open) \in Brackets
    BY <1>3, StackTypes
  <2>2. "<" \notin Brackets
    BY DEF Brackets
  <2> QED BY <2>1, <2>2 DEF Ends
<1>7. \E g : History(g, Append(text, c), start, open', Brackets, Closers, Brackets)
  BY <1>1, <1>2, <1>3, <1>4, <1>5, <1>6, HistoryGrows
<1> QED BY <1>2, <1>7 DEF OpenHistory

(* The history with the angles, one character on                           *)
LEMMA NestHistoryNext ==
  ASSUME TypeOK, Search, TidySearch, NEW c \in Chars, Read(c), tidy', \E h : NestHistory(h)
  PROVE  \E h : NestHistory(h)'
<1> DEFINE B == Brackets \cup {"<"}  C == Closers \cup {">"}
<1>1. PICK h : History(h, text, start, nest, B, C, {"<"})
  BY DEF NestHistory
<1>2. /\ text \in Seq(Chars) /\ start \in Nat \ {0} /\ Len(text) >= start - 1
      /\ text' = Append(text, c) /\ start' = start /\ outcome = "scan"
  BY TextTypes DEF Search, Read
<1>3. nest \in Seq(B) /\ nest' \in Seq(B)
  BY ReadTypes, Zenon DEF TypeOK
<1>4. Len(text) >= start /\ text[start] \in {"<"} => nest # <<>>
  <2>1. tidy
    BY TidyChar, Zenon
  <2> QED BY <1>2, <2>1 DEF TidySearch, FromAngle, Started
<1>5. /\ c \in B => nest' = Append(nest, c)
      /\ c \in C => Ends(nest, Partner(c)) /\ nest' = Pop(nest)
  <2>1. c \in C => Ends(nest, Partner(c))
    <3>1. c \in Closers => Ends(nest, Partner(c))
      BY TidyChar, Partners, Zenon
    <3>2. c = ">" => Ends(nest, Partner(c))
      BY TidyChar, Partners, Zenon
    <3> QED BY <3>1, <3>2, Zenon
  <2> QED BY <2>1, TidyNest, Zenon
<1>6. c \notin B \cup C => nest' = nest
  <2>1. c \notin B \cup C => c \in Plain \cup {";", "newline"}
    BY Zenon DEF Chars
  <2> QED BY <2>1, TidyNest, Zenon
<1>7. c \in Stops => ~Ends(nest, "<")
  BY TidyChar, Zenon DEF Stops
<1> HIDE DEF B, C
<1>8. \E g : History(g, Append(text, c), start, nest', B, C, {"<"})
  BY <1>1, <1>2, <1>3, <1>4, <1>5, <1>6, <1>7, HistoryGrows
<1> QED BY <1>2, <1>8 DEF NestHistory, B, C

(* The neighbours, one character on                                        *)
LEMMA PairsGrow ==
  ASSUME NEW t \in Seq(Chars), NEW c \in Chars, TidyPairs(t),
         c = ">" => ~Ends(t, "-"), c = "=" => ~Ends(t, ">"), c = "<" => ~Ends(t, "<")
  PROVE  TidyPairs(Append(t, c))
<1>1. PICK n \in Nat : n = Len(t)
  OBVIOUS
<1>2. /\ Len(Append(t, c)) = n + 1 /\ Append(t, c)[n + 1] = c
      /\ \A i \in 1..n : Append(t, c)[i] = t[i]
  BY <1>1, AppendProperties
<1>3. PICK u : u = Append(t, c)
  OBVIOUS
<1>4. ASSUME NEW i \in 2..(n + 1)
      PROVE  /\ u[i] = ">" => u[i - 1] # "-"
             /\ u[i] = "=" => u[i - 1] # ">"
             /\ u[i] = "<" => u[i - 1] # "<"
  <2>1. i - 1 \in 1..n /\ u[i - 1] = t[i - 1]
    BY <1>1, <1>2, <1>3
  <2>2. CASE i = n + 1
    <3>1. u[i] = c /\ i - 1 = n /\ t # <<>>
      BY <1>1, <1>2, <1>3, <2>1, <2>2
    <3> QED BY <1>1, <2>1, <3>1 DEF Ends, Top
  <2>3. CASE i # n + 1
    <3>1. i \in 2..n /\ u[i] = t[i]
      BY <1>1, <1>2, <1>3, <2>3
    <3> QED BY <1>1, <2>1, <3>1 DEF TidyPairs
  <2> QED BY <2>2, <2>3
<1>5. TidyPairs(u)
  BY <1>2, <1>3, <1>4 DEF TidyPairs
<1> QED BY <1>3, <1>5

(* Every step of the way forward reads a character or ends the file.       *)
LEMMA ForwardReads == Forward => EndOfFile \/ \E c \in Chars : Read(c)
BY Kinds, Zenon DEF Forward, Refuse, OpenBracket, CloseBracket, Other, LeftShift, Less, Greater,
     Semicolon, EndOfLine

(* Every step of the way forward keeps the histories.                      *)
LEMMA ForwardHistories ==
  TypeOK /\ Search /\ TidySearch /\ Histories /\ Forward => Histories'
<1> SUFFICES ASSUME TypeOK, Search, TidySearch, Histories, Forward PROVE Histories'
  OBVIOUS
<1>1. ASSUME NEW c \in Chars, Read(c) PROVE Histories'
  <2>1. ASSUME ~broken' PROVE \E h : OpenHistory(h)'
    <3>1. ~broken
      BY <1>1, <2>1, OpenNext, Zenon
    <3>2. \E h : OpenHistory(h)
      BY <3>1, Zenon DEF Histories
    <3> QED BY <1>1, <2>1, <3>2, OpenHistoryNext, Zenon
  <2>2. ASSUME tidy' PROVE TidyPairs(text)' /\ \E h : NestHistory(h)'
    <3>1. tidy
      BY <1>1, <2>2, TidyChar, Zenon
    <3>2. TidyPairs(text) /\ \E h : NestHistory(h)
      BY <3>1, Zenon DEF Histories
    <3>3. TidyPairs(Append(text, c))
      BY <1>1, <2>2, <3>2, TextTypes, TidyChar, PairsGrow, Zenon
    <3>4. text' = Append(text, c)
      BY <1>1, Zenon DEF Read
    <3>5. TidyPairs(text')
      BY <3>3, <3>4, Zenon
    <3> QED BY <1>1, <2>2, <3>2, <3>5, NestHistoryNext, Zenon DEF TidyPairs
  <2> QED BY <2>1, <2>2, Zenon DEF Histories
<1>2. CASE EndOfFile
  <2>1. /\ text' = text /\ start' = start /\ open' = open /\ nest' = nest
        /\ broken' = broken /\ tidy' = tidy
    BY <1>2 DEF EndOfFile, history
  <2> QED BY <2>1, Zenon DEF Histories, OpenHistory, NestHistory, TidyPairs
<1> QED BY <1>1, <1>2, ForwardReads

(* The way back changes neither the text nor what is told of it.           *)
LEMMA BackwardKeeps == Backward => forward' = forward /\ history' = history
BY DEF Backward, TurnBack, BackGreater, BackLess, BackSemicolon, BackLine, StartOfFile,
       BackCloser, BackBracket, BackOther, Back, forward, history

(* So there are histories in every state.                                  *)
LEMMA HistoriesHold == Spec => []Histories
<1>1. TypeOK /\ Search /\ TidySearch /\ Histories /\ [Next]_vars => Histories'
  <2> SUFFICES ASSUME TypeOK, Search, TidySearch, Histories, [Next]_vars PROVE Histories'
    OBVIOUS
  <2>1. CASE forward' = forward /\ history' = history
    <3>1. /\ text' = text /\ start' = start /\ open' = open /\ nest' = nest
          /\ broken' = broken /\ tidy' = tidy
      BY <2>1 DEF forward, history
    <3> QED BY <3>1, Zenon DEF Histories, OpenHistory, NestHistory, TidyPairs
  <2>2. CASE UNCHANGED vars
    BY <2>1, <2>2 DEF vars
  <2> QED BY <2>1, <2>2, BackwardKeeps, ForwardHistories DEF Next
<1> QED BY <1>1, InitHistories, ExpressionTypes, SearchHolds, TidySearchHolds, PTL DEF Spec

-----------------------------------------------------------------------------
(* The way back                                                            *)

Waiting == Seq(Closers \cup {">"})

(* The brackets that the pending ones wait for                             *)
Mated(p) == [k \in 1..Len(p) |-> Partner(p[k])]

(* The mates of what is pending are as many, and angles where it is one.   *)
LEMMA MatedTypes ==
  ASSUME NEW p \in Waiting
  PROVE  /\ Mated(p) \in Stacks /\ Len(Mated(p)) = Len(p) /\ Len(p) \in Nat
         /\ \A k \in 1..Len(p) : Mated(p)[k] = Partner(p[k])
         /\ Mated(p) = <<>> <=> p = <<>>
         /\ \A k \in 1..Len(p) : Mated(p)[k] = "<" <=> p[k] = ">"
<1>1. PICK n \in Nat : n = Len(p)
  BY DEF Waiting
<1>2. \A k \in 1..n : p[k] \in Closers \cup {">"}
  BY <1>1 DEF Waiting
<1>3. \A c \in Closers \cup {">"} :
        /\ Partner(c) \in Brackets \cup {"<"}
        /\ Partner(c) = "<" <=> c = ">"
  BY DEF Partner, Mate, Closers, Brackets
<1>4. PICK m : m = Mated(p) /\ m = [k \in 1..n |-> Partner(p[k])]
  BY <1>1 DEF Mated
<1>5. m \in Seq(Brackets \cup {"<"}) /\ Len(m) = n /\ \A k \in 1..n : m[k] = Partner(p[k])
  <2>1. m \in [1..n -> Brackets \cup {"<"}] /\ \A k \in 1..n : m[k] = Partner(p[k])
    <3>1. \A k \in 1..n : Partner(p[k]) \in Brackets \cup {"<"}
      BY <1>2, <1>3, Zenon
    <3> QED BY <3>1, <1>4, Zenon
  <2>2. m \in Seq(Brackets \cup {"<"}) /\ DOMAIN m = 1..n
    BY <2>1
  <2>3. Len(m) = n
    BY <2>2, LenProperties
  <2> QED BY <2>1, <2>2, <2>3
<1>6. m = <<>> <=> p = <<>>
  BY <1>1, <1>5 DEF Waiting
<1> QED BY <1>1, <1>2, <1>3, <1>4, <1>5, <1>6 DEF Stacks

(* Pushing and popping what is pending pushes and pops its mates.          *)
LEMMA MatedAppend ==
  ASSUME NEW p \in Waiting, NEW c \in Closers \cup {">"}
  PROVE  Append(p, c) \in Waiting /\ Mated(Append(p, c)) = Append(Mated(p), Partner(c))
<1>1. PICK n \in Nat : n = Len(p)
  BY DEF Waiting
<1>2. PICK q \in Waiting : /\ q = Append(p, c) /\ Len(q) = n + 1 /\ q[n + 1] = c
                           /\ \A k \in 1..n : q[k] = p[k]
  <2>1. /\ Append(p, c) \in Waiting /\ Len(Append(p, c)) = n + 1 /\ Append(p, c)[n + 1] = c
        /\ \A k \in 1..n : Append(p, c)[k] = p[k]
    BY <1>1, AppendProperties DEF Waiting
  <2> QED BY <2>1
<1>3. PICK m \in Stacks : m = Mated(p) /\ Len(m) = n /\ \A k \in 1..n : m[k] = Partner(p[k])
  BY <1>1, MatedTypes
<1>4. PICK r \in Stacks : r = Mated(q) /\ Len(r) = n + 1 /\ \A k \in 1..(n + 1) : r[k] = Partner(q[k])
  <2>1. /\ Mated(q) \in Stacks /\ Len(Mated(q)) = n + 1
        /\ \A k \in 1..(n + 1) : Mated(q)[k] = Partner(q[k])
    BY <1>2, MatedTypes
  <2> QED BY <2>1
<1>5. Partner(c) \in Brackets \cup {"<"}
  BY Partners
<1>6. PICK a \in Stacks : /\ a = Append(m, Partner(c)) /\ Len(a) = n + 1 /\ a[n + 1] = Partner(c)
                          /\ \A k \in 1..n : a[k] = m[k]
  <2>1. /\ Append(m, Partner(c)) \in Stacks /\ Len(Append(m, Partner(c))) = n + 1
        /\ Append(m, Partner(c))[n + 1] = Partner(c)
        /\ \A k \in 1..n : Append(m, Partner(c))[k] = m[k]
    BY <1>3, <1>5, AppendProperties DEF Stacks
  <2> QED BY <2>1
<1>7. \A k \in 1..(n + 1) : k \in 1..n \/ k = n + 1
  OBVIOUS
<1>8. \A k \in 1..(n + 1) : r[k] = a[k]
  BY <1>2, <1>3, <1>4, <1>6, <1>7
<1>9. r = a
  BY <1>4, <1>6, <1>8, SeqEqual DEF Stacks
<1> QED BY <1>2, <1>3, <1>4, <1>6, <1>9

(* The mates of the lower part of what is pending                          *)
LEMMA MatedPart ==
  ASSUME NEW p \in Waiting, NEW k \in 0..Len(p)
  PROVE  SubSeq(p, 1, k) \in Waiting /\ Mated(SubSeq(p, 1, k)) = SubSeq(Mated(p), 1, k)
<1>1. PICK n \in Nat : n = Len(p)
  BY DEF Waiting
<1>2. PICK q \in Waiting : q = SubSeq(p, 1, k) /\ Len(q) = k /\ \A j \in 1..k : q[j] = p[j]
  <2>1. /\ SubSeq(p, 1, k) \in Waiting /\ Len(SubSeq(p, 1, k)) = k
        /\ \A j \in 1..k : SubSeq(p, 1, k)[j] = p[j]
    BY <1>1 DEF Waiting
  <2> QED BY <2>1
<1>3. PICK m \in Stacks : m = Mated(p) /\ Len(m) = n /\ \A j \in 1..n : m[j] = Partner(p[j])
  BY <1>1, MatedTypes
<1>4. PICK r \in Stacks : r = Mated(q) /\ Len(r) = k /\ \A j \in 1..k : r[j] = Partner(q[j])
  <2>1. Mated(q) \in Stacks /\ Len(Mated(q)) = k /\ \A j \in 1..k : Mated(q)[j] = Partner(q[j])
    BY <1>2, MatedTypes, ZenonT(40)
  <2> QED BY <2>1
<1>5. PICK a \in Stacks : a = SubSeq(m, 1, k) /\ Len(a) = k /\ \A j \in 1..k : a[j] = m[j]
  <2>1. /\ SubSeq(m, 1, k) \in Stacks /\ Len(SubSeq(m, 1, k)) = k
        /\ \A j \in 1..k : SubSeq(m, 1, k)[j] = m[j]
    BY <1>1, <1>3 DEF Stacks
  <2> QED BY <2>1
<1>6. \A j \in 1..k : j \in 1..n
  BY <1>1
<1>7. \A j \in 1..k : r[j] = a[j]
  BY <1>2, <1>3, <1>4, <1>5, <1>6
<1>8. r = a
  BY <1>4, <1>5, <1>7, SeqEqual DEF Stacks
<1> QED BY <1>2, <1>3, <1>4, <1>5, <1>8

(* The mates of what is below its top                                      *)
LEMMA MatedPop ==
  ASSUME NEW p \in Waiting, p # <<>>
  PROVE  /\ Pop(p) \in Waiting /\ Mated(Pop(p)) = Pop(Mated(p))
         /\ Top(p) \in Closers \cup {">"} /\ Top(Mated(p)) = Partner(Top(p))
<1>1. Len(p) \in Nat /\ Len(p) - 1 \in 0..Len(p) /\ Len(p) \in 1..Len(p)
  BY DEF Waiting
<1>2. Len(Mated(p)) = Len(p) /\ Mated(p)[Len(p)] = Partner(p[Len(p)])
  BY <1>1, MatedTypes
<1>3. Pop(p) \in Waiting /\ Mated(Pop(p)) = Pop(Mated(p))
  BY <1>1, <1>2, MatedPart DEF Pop
<1>4. p[Len(p)] \in Closers \cup {">"}
  BY <1>1 DEF Waiting
<1> QED BY <1>2, <1>3, <1>4 DEF Top

(* A sequence is what Pop leaves and its top.                              *)
LEMMA PopTop ==
  ASSUME NEW S, NEW s \in Seq(S), s # <<>>
  PROVE  s = Append(Pop(s), Top(s))
<1>1. PICK n \in Nat : Len(s) = n + 1
  BY EmptySeq
<1>2. PICK q \in Seq(S) : q = Pop(s) /\ Len(q) = n /\ \A j \in 1..n : q[j] = s[j]
  BY <1>1, PopRest
<1>3. s[n + 1] \in S
  BY <1>1
<1>4. PICK a \in Seq(S) : /\ a = Append(q, s[n + 1]) /\ Len(a) = n + 1 /\ a[n + 1] = s[n + 1]
                          /\ \A j \in 1..n : a[j] = q[j]
  <2>1. /\ Append(q, s[n + 1]) \in Seq(S) /\ Len(Append(q, s[n + 1])) = n + 1
        /\ Append(q, s[n + 1])[n + 1] = s[n + 1]
        /\ \A j \in 1..n : Append(q, s[n + 1])[j] = q[j]
    BY <1>2, <1>3, AppendProperties
  <2> QED BY <2>1
<1>5. \A j \in 1..(n + 1) : j \in 1..n \/ j = n + 1
  OBVIOUS
<1>6. \A j \in 1..(n + 1) : s[j] = a[j]
  BY <1>2, <1>4, <1>5
<1>7. s = a
  BY <1>1, <1>4, <1>6, SeqEqual
<1> QED BY <1>1, <1>2, <1>4, <1>7 DEF Top

(* Pop takes away what was pushed.                                         *)
LEMMA AppendPops ==
  ASSUME NEW S, NEW s \in Seq(S), NEW c \in S
  PROVE  Append(s, c) # <<>> /\ Pop(Append(s, c)) = s /\ Top(Append(s, c)) = c
<1>1. PICK a \in Seq(S) : /\ a = Append(s, c) /\ Len(a) = Len(s) + 1 /\ a[Len(s) + 1] = c
                          /\ \A j \in 1..Len(s) : a[j] = s[j]
  <2>1. /\ Append(s, c) \in Seq(S) /\ Len(Append(s, c)) = Len(s) + 1
        /\ Append(s, c)[Len(s) + 1] = c
        /\ \A j \in 1..Len(s) : Append(s, c)[j] = s[j]
    BY AppendProperties
  <2> QED BY <2>1
<1>2. Len(s) \in Nat /\ a # <<>>
  BY <1>1
<1>3. Pop(a) \in Seq(S) /\ Len(Pop(a)) = Len(s) /\ \A j \in 1..Len(s) : Pop(a)[j] = a[j]
  <2>1. /\ Pop(a) \in Seq(S) /\ Len(Pop(a)) = Len(a) - 1
        /\ \A j \in 1..(Len(a) - 1) : Pop(a)[j] = a[j]
    BY <1>2, PopRest
  <2>2. Len(a) - 1 = Len(s)
    BY <1>1, <1>2
  <2> QED BY <2>1, <2>2
<1>4. \A j \in 1..Len(s) : Pop(a)[j] = s[j]
  BY <1>1, <1>3
<1>5. Pop(a) = s
  BY <1>3, <1>4, SeqEqual
<1> QED BY <1>1, <1>2, <1>5 DEF Top

(* Where nothing is open at the end and the first character opened one:    *)
(* what a character says of what is open around it.                        *)
LEMMA HistoryAt ==
  ASSUME NEW B, NEW C, NEW S, S \subseteq B, B \cap C = {},
         NEW t, Len(t) \in Nat, NEW first \in Nat \ {0}, Len(t) >= first, t[first] \in S,
         NEW h, History(h, t, first, <<>>, B, C, S), NEW i \in first..Len(t)
  PROVE  /\ h[i] \in Seq(B) /\ h[i - 1] \in Seq(B)
         /\ h[i - 1] = <<>> <=> i = first
         /\ t[i] \in B => h[i - 1] = Pop(h[i]) /\ h[i] # <<>> /\ Top(h[i]) = t[i] /\ i < Len(t)
         /\ t[i] \in C => h[i - 1] = Append(h[i], Partner(t[i])) /\ i > first
         /\ t[i] \notin B \cup C => h[i - 1] = h[i] /\ i > first /\ i < Len(t)
         /\ t[i] \in Stops => ~Ends(h[i - 1], "<")
<1>1. PICK n \in Nat : n = Len(t)
  OBVIOUS
<1>2. /\ h \in [(first - 1)..n -> Seq(B)]
      /\ h[first - 1] = <<>> /\ h[n] = <<>>
      /\ \A j \in first..n :
           /\ j < n => h[j] # <<>>
           /\ t[j] \in B => h[j] = Append(h[j - 1], t[j])
           /\ t[j] \in C => Ends(h[j - 1], Partner(t[j])) /\ h[j] = Pop(h[j - 1])
           /\ t[j] \notin B \cup C => h[j] = h[j - 1]
           /\ t[j] \in Stops => ~Ends(h[j - 1], "<")
  BY <1>1 DEF History
<1>3. /\ i \in first..n /\ i \in (first - 1)..n /\ i - 1 \in (first - 1)..n
      /\ first \in first..n /\ first - 1 \in (first - 1)..n
      /\ (i = first \/ (i > first /\ i - 1 \in first..n /\ i - 1 < n)) /\ (i = n \/ i < n)
  BY <1>1
<1>4. h[i] \in Seq(B) /\ h[i - 1] \in Seq(B) /\ h[first - 1] \in Seq(B)
  BY <1>2, <1>3
<1>5. h[i - 1] = <<>> <=> i = first
  BY <1>2, <1>3
<1>6. t[i] \in B => h[i - 1] = Pop(h[i]) /\ h[i] # <<>> /\ Top(h[i]) = t[i] /\ i < n
  <2>1. t[i] \in B => h[i] = Append(h[i - 1], t[i])
    BY <1>2, <1>3
  <2>2. ASSUME t[i] \in B
        PROVE  h[i - 1] = Pop(h[i]) /\ h[i] # <<>> /\ Top(h[i]) = t[i]
    <3>1. PICK o \in Seq(B) : o = h[i - 1] /\ h[i] = Append(o, t[i])
      BY <1>4, <2>1, <2>2
    <3> QED BY <2>2, <3>1, AppendPops
  <2> QED BY <1>2, <1>3, <2>2
<1>7. t[i] \in C => h[i - 1] = Append(h[i], Partner(t[i])) /\ i > first
  <2>1. t[i] \in C => Ends(h[i - 1], Partner(t[i])) /\ h[i] = Pop(h[i - 1])
    BY <1>2, <1>3
  <2>2. t[i] \in C => i # first
    OBVIOUS
  <2>3. t[i] \in C => h[i - 1] = Append(h[i], Partner(t[i]))
    BY <1>4, <2>1, PopTop DEF Ends
  <2> QED BY <1>3, <2>2, <2>3
<1>8. t[i] \notin B \cup C => h[i - 1] = h[i] /\ i > first /\ i < n
  <2>1. t[i] \notin B \cup C => h[i - 1] = h[i] /\ i # first
    BY <1>2, <1>3
  <2> QED BY <1>2, <1>3, <1>5, <2>1
<1>9. t[i] \in Stops => ~Ends(h[i - 1], "<")
  BY <1>2, <1>3
<1> QED BY <1>1, <1>4, <1>5, <1>6, <1>7, <1>8, <1>9

-----------------------------------------------------------------------------
(* The way back to a bracket that is not an angle                          *)

BracketPath(h, t, first) ==
  /\ t \in Seq(Chars) /\ first \in Nat \ {0} /\ Len(t) >= first /\ t[first] \in Brackets
  /\ History(h, t, first, <<>>, Brackets, Closers, Brackets)

(* At i what is pending are the mates of what is open, with angles between *)
(* them but none at the bottom.                                            *)
OnBrackets(h, t, first, i, p) ==
  /\ i \in first..Len(t) /\ p \in Waiting
  /\ Within(Mated(p), h[i])
  /\ i = Len(t) => p = <<>>
  /\ i < Len(t) => Bottom(Mated(p))

(* What HistoryAt says without the angles                                  *)
LEMMA BracketAt ==
  ASSUME NEW h, NEW t, NEW first, BracketPath(h, t, first), NEW i \in first..Len(t)
  PROVE  /\ Len(t) \in Nat /\ first \in Nat \ {0}
         /\ h[i] \in Seq(Brackets) /\ h[i - 1] \in Seq(Brackets)
         /\ h[i - 1] = <<>> <=> i = first
         /\ t[i] \in Brackets =>
              h[i - 1] = Pop(h[i]) /\ h[i] # <<>> /\ Top(h[i]) = t[i] /\ i < Len(t)
         /\ t[i] \in Closers => h[i - 1] = Append(h[i], Mate(t[i])) /\ i > first
         /\ t[i] \notin Brackets \cup Closers => h[i - 1] = h[i] /\ i > first /\ i < Len(t)
<1>1. /\ Len(t) \in Nat /\ first \in Nat \ {0} /\ Len(t) >= first /\ t[first] \in Brackets
      /\ History(h, t, first, <<>>, Brackets, Closers, Brackets)
  BY DEF BracketPath
<1>2. Brackets \cap Closers = {} /\ Brackets \subseteq Brackets
  BY DEF Brackets, Closers
<1>3. /\ h[i] \in Seq(Brackets) /\ h[i - 1] \in Seq(Brackets)
      /\ h[i - 1] = <<>> <=> i = first
      /\ t[i] \in Brackets =>
           h[i - 1] = Pop(h[i]) /\ h[i] # <<>> /\ Top(h[i]) = t[i] /\ i < Len(t)
      /\ t[i] \in Closers => h[i - 1] = Append(h[i], Partner(t[i])) /\ i > first
      /\ t[i] \notin Brackets \cup Closers => h[i - 1] = h[i] /\ i > first /\ i < Len(t)
      /\ t[i] \in Stops => ~Ends(h[i - 1], "<")
  <2> DEFINE B == Brackets  C == Closers
  <2>1. /\ B \subseteq B /\ B \cap C = {} /\ t[first] \in B
        /\ History(h, t, first, <<>>, B, C, B)
    BY <1>1, <1>2
  <2>2. Len(t) \in Nat /\ first \in Nat \ {0} /\ Len(t) >= first /\ i \in first..Len(t)
    BY <1>1
  <2> HIDE DEF B, C
  <2>3. /\ h[i] \in Seq(B) /\ h[i - 1] \in Seq(B)
        /\ h[i - 1] = <<>> <=> i = first
        /\ t[i] \in B => h[i - 1] = Pop(h[i]) /\ h[i] # <<>> /\ Top(h[i]) = t[i] /\ i < Len(t)
        /\ t[i] \in C => h[i - 1] = Append(h[i], Partner(t[i])) /\ i > first
        /\ t[i] \notin B \cup C => h[i - 1] = h[i] /\ i > first /\ i < Len(t)
        /\ t[i] \in Stops => ~Ends(h[i - 1], "<")
    BY <2>1, <2>2, HistoryAt, ZenonT(40)
  <2> QED BY <2>3 DEF B, C
<1>4. t[i] \in Closers => Partner(t[i]) = Mate(t[i])
  BY Partners
<1> QED BY <1>1, <1>3, <1>4

(* The bottom stays when something is pushed on a bracket.                 *)
LEMMA BottomAppend ==
  ASSUME NEW s \in Stacks, NEW c \in Brackets \cup {"<"}, s = <<>> => c # "<",
         s # <<>> => Bottom(s)
  PROVE  Bottom(Append(s, c))
<1>1. PICK n \in Nat : n = Len(s)
  BY DEF Stacks
<1>2. /\ Append(s, c) # <<>> /\ Append(s, c)[n + 1] = c
      /\ \A k \in 1..n : Append(s, c)[k] = s[k]
  BY <1>1, AppendProperties DEF Stacks
<1>3. CASE s = <<>>
  BY <1>1, <1>2, <1>3 DEF Bottom
<1>4. CASE s # <<>>
  <2>1. 1 \in 1..n
    BY <1>1, <1>4 DEF Stacks
  <2> QED BY <1>2, <1>4, <2>1 DEF Bottom
<1> QED BY <1>3, <1>4

(* A closing bracket becomes pending.                                      *)
LEMMA OnCloser ==
  ASSUME NEW h, NEW t, NEW first, BracketPath(h, t, first), NEW i, NEW p,
         OnBrackets(h, t, first, i, p), t[i] \in Closers
  PROVE  OnBrackets(h, t, first, i - 1, Append(p, t[i]))
<1>1. /\ i \in first..Len(t) /\ p \in Waiting /\ Within(Mated(p), h[i])
      /\ (i = Len(t) => p = <<>>) /\ (i < Len(t) => Bottom(Mated(p)))
  BY DEF OnBrackets
<1>2. /\ Len(t) \in Nat /\ first \in Nat \ {0} /\ h[i] \in Seq(Brackets)
      /\ h[i - 1] = Append(h[i], Mate(t[i])) /\ i > first
  BY <1>1, BracketAt
<1>3. Mate(t[i]) \in Brackets /\ Partner(t[i]) = Mate(t[i])
  BY Partners
<1>4. Mated(p) \in Stacks /\ (Mated(p) = <<>> <=> p = <<>>)
  BY <1>1, MatedTypes
<1>5. Append(p, t[i]) \in Waiting /\ Mated(Append(p, t[i])) = Append(Mated(p), Mate(t[i]))
  BY <1>1, <1>3, MatedAppend
<1>6. Within(Append(Mated(p), Mate(t[i])), h[i - 1])
  BY <1>1, <1>2, <1>3, <1>4, PushBracket
<1>7. Bottom(Append(Mated(p), Mate(t[i])))
  <2>1. Mate(t[i]) # "<"
    BY <1>3 DEF Brackets
  <2>2. Mated(p) # <<>> => Bottom(Mated(p))
    BY <1>1, <1>2, <1>4
  <2> QED BY <1>3, <1>4, <2>1, <2>2, BottomAppend
<1>8. i - 1 \in first..Len(t) /\ i - 1 < Len(t)
  BY <1>1, <1>2
<1> QED BY <1>5, <1>6, <1>7, <1>8 DEF OnBrackets

(* Characters that are no such brackets: angles may be pushed and dropped. *)
LEMMA OnOther ==
  ASSUME NEW h, NEW t, NEW first, BracketPath(h, t, first), NEW i, NEW p,
         OnBrackets(h, t, first, i, p), t[i] \notin Brackets \cup Closers
  PROVE  /\ OnBrackets(h, t, first, i - 1, p)
         /\ OnBrackets(h, t, first, i - 1, Append(p, ">"))
         /\ Ends(p, ">") => Pop(p) # <<>> /\ OnBrackets(h, t, first, i - 1, Pop(p))
         /\ DropAngles(p, ">") # <<>> /\ OnBrackets(h, t, first, i - 1, DropAngles(p, ">"))
         /\ p # <<>>
<1>1. i \in first..Len(t) /\ p \in Waiting /\ Within(Mated(p), h[i])
  BY DEF OnBrackets
<1>2. /\ Len(t) \in Nat /\ first \in Nat \ {0} /\ h[i] \in Seq(Brackets)
      /\ h[i - 1] = h[i] /\ i > first /\ i < Len(t)
  BY <1>1, BracketAt
<1>3. i - 1 \in first..Len(t) /\ i - 1 < Len(t) /\ i - 1 # Len(t)
  BY <1>1, <1>2
<1>4. PICK m \in Stacks : /\ m = Mated(p) /\ Len(m) = Len(p) /\ Len(p) \in Nat
                          /\ \A k \in 1..Len(p) : m[k] = "<" <=> p[k] = ">"
  BY <1>1, MatedTypes
<1>5. Bottom(m) /\ p # <<>>
  BY <1>1, <1>2, <1>4 DEF OnBrackets, Bottom, Stacks
<1>6. ASSUME NEW q \in Waiting, Within(Mated(q), h[i]), Bottom(Mated(q))
      PROVE  OnBrackets(h, t, first, i - 1, q)
  BY <1>2, <1>3, <1>6 DEF OnBrackets
<1>7. OnBrackets(h, t, first, i - 1, p)
  BY <1>1, <1>4, <1>5, <1>6
<1>8. OnBrackets(h, t, first, i - 1, Append(p, ">"))
  <2>1. Append(p, ">") \in Waiting /\ Mated(Append(p, ">")) = Append(m, "<")
    BY <1>1, <1>4, Partners, MatedAppend
  <2>2. Within(Append(m, "<"), h[i])
    BY <1>1, <1>2, <1>4, PushAngle
  <2>3. Bottom(Append(m, "<"))
    BY <1>4, <1>5, BottomAppend DEF Bottom
  <2> QED BY <1>6, <2>1, <2>2, <2>3
<1>9. ASSUME NEW k \in 0..Len(p), \A j \in (k + 1)..Len(p) : p[j] = ">"
      PROVE  SubSeq(p, 1, k) # <<>> /\ OnBrackets(h, t, first, i - 1, SubSeq(p, 1, k))
  <2>1. \A j \in (k + 1)..Len(m) : m[j] = "<"
    BY <1>4, <1>9
  <2>2. Within(SubSeq(m, 1, k), h[i])
    BY <1>1, <1>2, <1>4, <2>1, TakeAngles
  <2>3. k >= 1 /\ k \in 1..Len(m)
    <3>1. Len(m) >= 1
      BY <1>5 DEF Bottom, Stacks
    <3>2. k # 0
      BY <1>4, <1>5, <2>1, <3>1 DEF Bottom
    <3> QED BY <1>4, <3>2
  <2>4. Bottom(SubSeq(m, 1, k))
    BY <1>5, <2>3, BottomStays DEF Bottom
  <2>5. SubSeq(p, 1, k) \in Waiting /\ Mated(SubSeq(p, 1, k)) = SubSeq(m, 1, k)
    BY <1>1, <1>4, <1>9, MatedPart
  <2>6. SubSeq(p, 1, k) # <<>>
    BY <1>1, <1>4, <1>9, <2>3 DEF Waiting
  <2> QED BY <1>6, <2>2, <2>4, <2>5, <2>6
<1>10. Ends(p, ">") => Pop(p) # <<>> /\ OnBrackets(h, t, first, i - 1, Pop(p))
  <2> SUFFICES ASSUME Ends(p, ">")
               PROVE  Pop(p) # <<>> /\ OnBrackets(h, t, first, i - 1, Pop(p))
    OBVIOUS
  <2>1. Len(p) - 1 \in 0..Len(p) /\ \A j \in (Len(p) - 1 + 1)..Len(p) : p[j] = ">"
    <3>1. Len(p) >= 1 /\ p[Len(p)] = ">"
      BY <1>1, <1>4 DEF Ends, Top, Waiting
    <3> QED BY <1>4, <3>1
  <2> QED BY <1>9, <2>1 DEF Pop
<1>11. DropAngles(p, ">") # <<>> /\ OnBrackets(h, t, first, i - 1, DropAngles(p, ">"))
  <2>1. PICK k \in 0..Len(p) : /\ DropAngles(p, ">") = SubSeq(p, 1, k)
                               /\ \A j \in (k + 1)..Len(p) : p[j] = ">"
    BY <1>1, DropAnglesRest DEF Waiting
  <2> QED BY <1>9, <2>1
<1> QED BY <1>5, <1>7, <1>8, <1>10, <1>11

(* An opening bracket is the mate of the innermost pending one that is no  *)
(* angle, and the last one ends the way where it started.                  *)
LEMMA OnBracket ==
  ASSUME NEW h, NEW t, NEW first, BracketPath(h, t, first), NEW i, NEW p,
         OnBrackets(h, t, first, i, p), t[i] \in Brackets,
         NEW rest, rest = DropAngles(p, ">")
  PROVE  /\ rest # <<>> /\ Mate(Top(rest)) = t[i]
         /\ Pop(rest) = <<>> => i = first
         /\ Pop(rest) # <<>> => OnBrackets(h, t, first, i - 1, Pop(rest))
<1>1. i \in first..Len(t) /\ p \in Waiting /\ Within(Mated(p), h[i])
  BY DEF OnBrackets
<1>2. /\ Len(t) \in Nat /\ first \in Nat \ {0}
      /\ h[i] \in Seq(Brackets) /\ h[i - 1] \in Seq(Brackets)
      /\ h[i - 1] = <<>> <=> i = first
      /\ h[i - 1] = Pop(h[i]) /\ h[i] # <<>> /\ Top(h[i]) = t[i] /\ i < Len(t)
  BY <1>1, BracketAt
<1>3. PICK m \in Stacks : /\ m = Mated(p) /\ Len(m) = Len(p) /\ Len(p) \in Nat
                          /\ \A k \in 1..Len(p) : m[k] = "<" <=> p[k] = ">"
  BY <1>1, MatedTypes
<1>4. Bottom(m)
  BY <1>1, <1>2, <1>3 DEF OnBrackets
<1>5. PICK k \in 0..Len(p) : /\ rest = SubSeq(p, 1, k)
                             /\ k > 0 => p[k] # ">"
                             /\ \A j \in (k + 1)..Len(p) : p[j] = ">"
  BY <1>1, DropAnglesRest DEF Waiting
<1>6. PICK r \in Stacks : r = SubSeq(m, 1, k) /\ Len(r) = k /\ \A j \in 1..k : r[j] = m[j]
  <2>1. /\ SubSeq(m, 1, k) \in Stacks /\ Len(SubSeq(m, 1, k)) = k
        /\ \A j \in 1..k : SubSeq(m, 1, k)[j] = m[j]
    BY <1>3 DEF Stacks
  <2> QED BY <2>1
<1>7. rest \in Waiting /\ Mated(rest) = r
  BY <1>1, <1>3, <1>5, <1>6, MatedPart
<1>8. Within(r, h[i])
  <2>1. \A j \in (k + 1)..Len(m) : m[j] = "<"
    BY <1>3, <1>5
  <2> QED BY <1>1, <1>2, <1>3, <1>6, <2>1, TakeAngles
<1>9. k >= 1
  <2>1. Len(m) >= 1
    BY <1>4 DEF Bottom, Stacks
  <2>2. k # 0
    BY <1>3, <1>4, <1>5, <2>1 DEF Bottom
  <2> QED BY <2>2
<1>10. r # <<>> /\ rest # <<>> /\ Top(r) # "<" /\ Bottom(r)
  <2>1. k \in 1..Len(p) /\ k \in 1..k /\ 1 \in 1..k /\ k = Len(r)
    BY <1>3, <1>6, <1>9
  <2>2. r # <<>> /\ rest # <<>>
    <3>1. r # <<>>
      BY <1>3, <1>6, <1>9
    <3> QED BY <1>7, <3>1, MatedTypes
  <2>3. Top(r) # "<"
    BY <1>3, <1>5, <1>6, <2>1 DEF Top
  <2>4. r[1] # "<"
    BY <1>4, <1>6, <2>1 DEF Bottom
  <2> QED BY <2>2, <2>3, <2>4 DEF Bottom
<1>11. Top(h[i]) = Top(r) /\ Within(Pop(r), h[i - 1])
  BY <1>2, <1>6, <1>8, <1>10, PopBracket, ZenonT(40)
<1>12. /\ Pop(rest) \in Waiting /\ Mated(Pop(rest)) = Pop(r)
       /\ Top(rest) \in Closers \cup {">"} /\ Top(r) = Partner(Top(rest))
  BY <1>7, <1>10, MatedPop
<1>13. Mate(Top(rest)) = t[i]
  <2>1. Top(rest) # ">"
    BY <1>10, <1>12, Partners
  <2> QED BY <1>2, <1>11, <1>12, <2>1 DEF Partner
<1>14. ASSUME Pop(rest) = <<>> PROVE i = first
  <2>1. Pop(r) = <<>>
    BY <1>12, <1>14, MatedTypes
  <2>2. h[i - 1] = <<>>
    BY <1>2, <1>11, <2>1, EmptyStack
  <2> QED BY <1>2, <2>2
<1>15. ASSUME Pop(rest) # <<>> PROVE OnBrackets(h, t, first, i - 1, Pop(rest))
  <2>1. Pop(r) # <<>> /\ Pop(r) \in Stacks
    BY <1>12, <1>15, MatedTypes
  <2>2. Bottom(Pop(r))
    BY <1>6, <1>10, <2>1, PopBottom
  <2>3. h[i - 1] # <<>>
    BY <1>2, <1>11, <2>1, <2>2, BottomOpen
  <2>4. i - 1 \in first..Len(t) /\ i - 1 # Len(t)
    BY <1>1, <1>2, <2>3
  <2> QED BY <1>11, <1>12, <2>2, <2>4 DEF OnBrackets
<1> QED BY <1>10, <1>13, <1>14, <1>15

-----------------------------------------------------------------------------
(* The way back to an angle of a tidy text                                 *)

AnglePath(h, t, first) ==
  /\ t \in Seq(Chars) /\ first \in Nat \ {0} /\ Len(t) >= first /\ t[first] = "<"
  /\ History(h, t, first, <<>>, Brackets \cup {"<"}, Closers \cup {">"}, {"<"})

(* At i what is pending are the mates of all that is open.                 *)
OnAngles(h, t, first, i, p) ==
  /\ i \in first..Len(t) /\ p \in Waiting /\ Mated(p) = h[i]

(* What HistoryAt says with the angles                                     *)
LEMMA AngleAt ==
  ASSUME NEW h, NEW t, NEW first, AnglePath(h, t, first), NEW i \in first..Len(t)
  PROVE  /\ Len(t) \in Nat /\ first \in Nat \ {0}
         /\ h[i] \in Stacks /\ h[i - 1] \in Stacks
         /\ h[i - 1] = <<>> <=> i = first
         /\ t[i] \in Brackets \cup {"<"} =>
              h[i - 1] = Pop(h[i]) /\ h[i] # <<>> /\ Top(h[i]) = t[i] /\ i < Len(t)
         /\ t[i] \in Closers \cup {">"} => h[i - 1] = Append(h[i], Partner(t[i])) /\ i > first
         /\ t[i] \notin Brackets \cup {"<"} \cup Closers \cup {">"} =>
              h[i - 1] = h[i] /\ i > first /\ i < Len(t)
         /\ t[i] \in Stops => ~Ends(h[i - 1], "<")
<1> DEFINE B == Brackets \cup {"<"}  C == Closers \cup {">"}  S == {"<"}
<1>1. /\ Len(t) \in Nat /\ first \in Nat \ {0} /\ Len(t) >= first /\ t[first] \in S
      /\ History(h, t, first, <<>>, B, C, S)
  BY DEF AnglePath
<1>2. B \cap C = {} /\ S \subseteq B
  BY DEF Brackets, Closers
<1> HIDE DEF B, C, S
<1>3. /\ h[i] \in Seq(B) /\ h[i - 1] \in Seq(B)
      /\ h[i - 1] = <<>> <=> i = first
      /\ t[i] \in B => h[i - 1] = Pop(h[i]) /\ h[i] # <<>> /\ Top(h[i]) = t[i] /\ i < Len(t)
      /\ t[i] \in C => h[i - 1] = Append(h[i], Partner(t[i])) /\ i > first
      /\ t[i] \notin B \cup C => h[i - 1] = h[i] /\ i > first /\ i < Len(t)
      /\ t[i] \in Stops => ~Ends(h[i - 1], "<")
  BY <1>1, <1>2, HistoryAt, ZenonT(40)
<1> QED BY <1>1, <1>3 DEF B, C, Stacks

(* A closing bracket or angle becomes pending.                             *)
LEMMA AngleOnCloser ==
  ASSUME NEW h, NEW t, NEW first, AnglePath(h, t, first), NEW i, NEW p,
         OnAngles(h, t, first, i, p), t[i] \in Closers \cup {">"}
  PROVE  OnAngles(h, t, first, i - 1, Append(p, t[i]))
<1>1. i \in first..Len(t) /\ p \in Waiting /\ Mated(p) = h[i]
  BY DEF OnAngles
<1>2. /\ Len(t) \in Nat /\ first \in Nat \ {0}
      /\ h[i - 1] = Append(h[i], Partner(t[i])) /\ i > first
  BY <1>1, AngleAt
<1>3. Append(p, t[i]) \in Waiting /\ Mated(Append(p, t[i])) = Append(Mated(p), Partner(t[i]))
  BY <1>1, MatedAppend
<1>4. i - 1 \in first..Len(t)
  BY <1>1, <1>2
<1> QED BY <1>1, <1>2, <1>3, <1>4 DEF OnAngles

(* An opening bracket or angle is the mate of the innermost pending one.   *)
LEMMA AngleOnOpener ==
  ASSUME NEW h, NEW t, NEW first, AnglePath(h, t, first), NEW i, NEW p,
         OnAngles(h, t, first, i, p), t[i] \in Brackets \cup {"<"}
  PROVE  /\ p # <<>> /\ Partner(Top(p)) = t[i]
         /\ t[i] = "<" <=> Ends(p, ">")
         /\ t[i] \in Brackets => DropAngles(p, ">") = p /\ Mate(Top(p)) = t[i]
         /\ Pop(p) = <<>> => i = first
         /\ Pop(p) # <<>> => OnAngles(h, t, first, i - 1, Pop(p))
<1>1. i \in first..Len(t) /\ p \in Waiting /\ Mated(p) = h[i]
  BY DEF OnAngles
<1>2. /\ Len(t) \in Nat /\ first \in Nat \ {0} /\ (h[i - 1] = <<>> <=> i = first)
      /\ h[i - 1] = Pop(h[i]) /\ h[i] # <<>> /\ Top(h[i]) = t[i]
  BY <1>1, AngleAt
<1>3. p # <<>>
  BY <1>1, <1>2, MatedTypes
<1>4. /\ Pop(p) \in Waiting /\ Mated(Pop(p)) = h[i - 1]
      /\ Top(p) \in Closers \cup {">"} /\ t[i] = Partner(Top(p))
  BY <1>1, <1>2, <1>3, MatedPop
<1>5. t[i] = "<" <=> Top(p) = ">"
  <2>1. Top(p) \in Closers => Partner(Top(p)) \in Brackets
    BY Partners
  <2>2. "<" \notin Brackets
    BY DEF Brackets
  <2> QED BY <1>4, <2>1, <2>2, Partners
<1>6. t[i] \in Brackets => DropAngles(p, ">") = p /\ Mate(Top(p)) = t[i]
  <2>1. t[i] \in Brackets => Top(p) # ">"
    BY <1>5 DEF Brackets
  <2>2. Top(p) # ">" => Partner(Top(p)) = Mate(Top(p))
    BY DEF Partner
  <2>3. Top(p) # ">" => DropAngles(p, ">") = p
    BY <1>1, NoAngles DEF Ends, Waiting
  <2> QED BY <1>4, <2>1, <2>2, <2>3
<1>7. Pop(p) = <<>> <=> h[i - 1] = <<>>
  BY <1>4, MatedTypes
<1>8. ASSUME Pop(p) # <<>> PROVE OnAngles(h, t, first, i - 1, Pop(p))
  <2>1. i - 1 \in first..Len(t)
    BY <1>1, <1>2, <1>7, <1>8
  <2> QED BY <1>4, <2>1 DEF OnAngles
<1> QED BY <1>2, <1>3, <1>4, <1>5, <1>6, <1>7, <1>8 DEF Ends

(* Other characters leave what is pending.                                 *)
LEMMA AngleOnOther ==
  ASSUME NEW h, NEW t, NEW first, AnglePath(h, t, first), NEW i, NEW p,
         OnAngles(h, t, first, i, p), t[i] \notin Brackets \cup {"<"} \cup Closers \cup {">"}
  PROVE  /\ OnAngles(h, t, first, i - 1, p) /\ p # <<>>
         /\ t[i] \in Stops => DropAngles(p, ">") = p
<1>1. i \in first..Len(t) /\ p \in Waiting /\ Mated(p) = h[i]
  BY DEF OnAngles
<1>2. /\ Len(t) \in Nat /\ first \in Nat \ {0} /\ (h[i - 1] = <<>> <=> i = first)
      /\ h[i - 1] = h[i] /\ i > first /\ i < Len(t)
      /\ t[i] \in Stops => ~Ends(h[i - 1], "<")
  BY <1>1, AngleAt
<1>3. p # <<>>
  BY <1>1, <1>2, MatedTypes
<1>4. t[i] \in Stops => DropAngles(p, ">") = p
  <2>1. Top(p) \in Closers \cup {">"} /\ Top(h[i]) = Partner(Top(p)) /\ h[i] # <<>>
    BY <1>1, <1>2, <1>3, MatedPop
  <2>2. t[i] \in Stops => ~Ends(p, ">")
    BY <1>2, <2>1, Partners DEF Ends
  <2> QED BY <1>1, <2>2, NoAngles DEF Waiting
<1>5. i - 1 \in first..Len(t)
  BY <1>1, <1>2
<1> QED BY <1>1, <1>2, <1>3, <1>4, <1>5 DEF OnAngles

-----------------------------------------------------------------------------
(* The steps of the way back                                               *)

(* What a line up to a place ends in                                       *)
LEMMA LineEnds ==
  ASSUME TypeOK, NEW i \in 0..Len(text)
  PROVE  /\ \A x : Ends(Line(i), x) => i >= 1 /\ text[i] = x
         /\ AfterOperator(Line(i)) => i >= 1 /\ text[i] \in {"operator", "blank"}
         /\ AfterOperator(Line(i)) => \E k \in 1..Len(text) : text[k] = "operator"
<1>1. text \in Seq(Chars) /\ Len(text) \in Nat
  BY TextTypes
<1>2. PICK s \in Seq(Chars) : s = Line(i) /\ Len(s) = i /\ \A k \in 1..i : s[k] = text[k]
  <2>1. /\ SubSeq(text, 1, i) \in Seq(Chars) /\ Len(SubSeq(text, 1, i)) = i
        /\ \A k \in 1..i : SubSeq(text, 1, i)[k] = text[k]
    BY <1>1
  <2> QED BY <2>1 DEF Line
<1>3. ASSUME NEW x, Ends(s, x) PROVE i >= 1 /\ text[i] = x
  <2>1. s # <<>> /\ s[i] = x
    BY <1>2, <1>3 DEF Ends, Top
  <2>2. i >= 1
    BY <1>1, <1>2, <2>1
  <2> QED BY <1>1, <1>2, <2>1, <2>2
<1>4. ASSUME AfterOperator(s)
      PROVE  /\ i >= 1 /\ text[i] \in {"operator", "blank"}
             /\ \E k \in 1..Len(text) : text[k] = "operator"
  <2>1. PICK k \in 1..i : s[k] = "operator" /\ \A j \in (k + 1)..i : s[j] = "blank"
    BY <1>2, <1>4 DEF AfterOperator
  <2>2. k \in 1..Len(text) /\ i >= 1 /\ i \in 1..i /\ (k = i \/ i \in (k + 1)..i)
    BY <1>1, <2>1
  <2>3. text[k] = "operator" /\ s[i] = text[i]
    BY <1>2, <2>1, <2>2
  <2> QED BY <2>1, <2>2, <2>3
<1> QED BY <1>2, <1>3, <1>4

(* The two characters that a skip passes are no brackets.                  *)
LEMMA Skipped ==
  ASSUME TypeOK, at > 0, SkipGreater \/ Ends(Line(at - 1), "<")
  PROVE  text[at - 1] \notin Brackets \cup Closers
<1>1. at - 1 \in 0..Len(text)
  <2>1. at \in 0..Len(text) /\ Len(text) \in Nat
    BY TextTypes, Zenon DEF TypeOK
  <2> QED BY <2>1
<1>2. PICK s : s = Line(at - 1)
  OBVIOUS
<1>3. /\ \A x : Ends(s, x) => text[at - 1] = x
      /\ AfterOperator(s) => text[at - 1] \in {"operator", "blank"}
  BY <1>1, <1>2, LineEnds
<1>4. Ends(s, "-") \/ Ends(s, "blank") \/ AfterOperator(s) \/ Ends(s, "<")
  BY <1>2 DEF SkipGreater
<1>5. text[at - 1] \in {"-", "blank", "operator", "<"}
  BY <1>3, <1>4
<1> QED BY <1>5 DEF Brackets, Closers

(* Nothing is skipped in a tidy text.                                      *)
LEMMA NotSkipped ==
  ASSUME TypeOK, at > 0, TidyPairs(text), \A k \in 1..Len(text) : text[k] # "operator"
  PROVE  /\ text[at] = ">" => ~SkipGreater
         /\ text[at] = "<" => ~Ends(Line(at - 1), "<")
<1>1. PICK n \in Nat : n = Len(text)
  BY TextTypes
<1>2. at \in 1..n /\ at - 1 \in 0..n
  <2>1. at \in 0..n
    BY <1>1, Zenon DEF TypeOK
  <2> QED BY <1>1, <2>1
<1>3. PICK s : s = Line(at - 1)
  OBVIOUS
<1>4. /\ \A x : Ends(s, x) => at - 1 >= 1 /\ text[at - 1] = x
      /\ ~AfterOperator(s)
  BY <1>1, <1>2, <1>3, LineEnds
<1>5. \A i \in 2..n : /\ text[i] = ">" => text[i - 1] # "-"
                      /\ text[i] = "=" => text[i - 1] # ">"
                      /\ text[i] = "<" => text[i - 1] # "<"
  BY <1>1 DEF TidyPairs
<1>6. text[at] = "<" => ~Ends(s, "<")
  BY <1>2, <1>4, <1>5
<1>7. text[at] = ">" => ~Ends(s, "-")
  BY <1>2, <1>4, <1>5
<1>8. text[at] = ">" /\ at + 2 <= n => text[at + 1] # "="
  <2>1. at + 2 <= n => at + 1 \in 2..n /\ (at + 1) - 1 = at
    BY <1>2
  <2> QED BY <1>5, <2>1
<1> QED BY <1>1, <1>3, <1>4, <1>6, <1>7, <1>8 DEF SkipGreater

(* Every step back from the mate of a bracket stays on the path or ends.   *)
LEMMA BracketStep ==
  ASSUME TypeOK, origin = "scan", NEW h, BracketPath(h, text, start),
         OnBrackets(h, text, start, at, pending), Backward
  PROVE  \/ origin' = "scan" /\ OnBrackets(h, text, start, at', pending')
         \/ origin' = "found" /\ at' + 1 = start
<1> DEFINE Done == \/ origin' = "scan" /\ OnBrackets(h, text, start, at', pending')
                   \/ origin' = "found" /\ at' + 1 = start
<1>1. at \in start..Len(text) /\ start \in Nat \ {0} /\ Len(text) \in Nat /\ at > 0
  BY TextTypes DEF OnBrackets
<1>2. text[at] \notin Brackets \cup Closers =>
        /\ OnBrackets(h, text, start, at - 1, pending)
        /\ OnBrackets(h, text, start, at - 1, Append(pending, ">"))
        /\ Ends(pending, ">") =>
             Pop(pending) # <<>> /\ OnBrackets(h, text, start, at - 1, Pop(pending))
        /\ DropAngles(pending, ">") # <<>>
        /\ OnBrackets(h, text, start, at - 1, DropAngles(pending, ">"))
        /\ pending # <<>>
  BY OnOther
<1>3. \A c \in Plain \cup {"<", ">", "newline"} \cup Stops : c \notin Brackets \cup Closers
  BY Kinds, Partners
<1>4. ASSUME text[at] \notin Brackets \cup Closers, text[at - 1] \notin Brackets \cup Closers
      PROVE  OnBrackets(h, text, start, at - 2, pending)
  <2>1. OnBrackets(h, text, start, (at - 1) - 1, pending)
    BY <1>2, <1>4, OnOther
  <2>2. (at - 1) - 1 = at - 2
    BY <1>1
  <2> QED BY <2>1, <2>2
<1>5. CASE BackGreater
  <2>1. /\ text[at] = ">" /\ origin' = "scan"
        /\ \/ SkipGreater /\ at' = at - 2 /\ pending' = pending
           \/ at' = at - 1 /\ pending' = Append(pending, ">")
    BY <1>5 DEF BackGreater, Back
  <2>2. text[at] \notin Brackets \cup Closers
    BY <1>3, <2>1
  <2>3. SkipGreater => OnBrackets(h, text, start, at - 2, pending)
    BY <1>1, <1>4, <2>2, Skipped
  <2> QED BY <1>2, <2>1, <2>2, <2>3
<1>6. CASE BackLess
  <2>1. /\ text[at] = "<"
        /\ \/ Ends(Line(at - 1), "<") /\ at' = at - 2 /\ pending' = pending /\ origin' = "scan"
           \/ /\ at' = at - 1 /\ Ends(pending, ">") /\ pending' = Pop(pending)
              /\ origin' = IF Pop(pending) = <<>> THEN "found" ELSE "scan"
           \/ at' = at - 1 /\ pending' = pending /\ origin' = "scan"
    BY <1>6 DEF BackLess, Back, ReturnStart
  <2>2. text[at] \notin Brackets \cup Closers
    BY <1>3, <2>1
  <2>3. Ends(Line(at - 1), "<") => OnBrackets(h, text, start, at - 2, pending)
    BY <1>1, <1>4, <2>2, Skipped
  <2> QED BY <1>2, <2>1, <2>2, <2>3
<1>7. CASE BackSemicolon
  <2>1. /\ text[at] \in Stops /\ at' = at - 1 /\ pending' = DropAngles(pending, ">")
        /\ DropAngles(pending, ">") # <<>> => origin' = "scan"
    BY <1>7, Zenon DEF BackSemicolon, Back, Stops
  <2> QED BY <1>2, <1>3, <2>1
<1>8. CASE BackLine
  <2>1. /\ text[at] = "newline" /\ at' = at - 1 /\ pending' = pending
        /\ pending # <<>> => origin' = "scan"
    BY <1>8 DEF BackLine, Back
  <2> QED BY <1>2, <1>3, <2>1
<1>9. ASSUME NEW c \in Chars, BackCloser(c) PROVE Done
  <2>1. /\ text[at] \in Closers /\ at' = at - 1 /\ pending' = Append(pending, text[at])
        /\ origin' = "scan"
    BY <1>9 DEF BackCloser, Back
  <2> QED BY <2>1, OnCloser
<1>10. ASSUME NEW c \in Chars, BackBracket(c) PROVE Done
  <2>1. PICK rest : rest = DropAngles(pending, ">")
    OBVIOUS
  <2>2. /\ text[at] \in Brackets /\ at' = at - 1
        /\ rest # <<>> /\ Mate(Top(rest)) = text[at] =>
             /\ pending' = Pop(rest)
             /\ origin' = IF Pop(rest) = <<>> THEN "found" ELSE "scan"
    BY <1>10, <2>1 DEF BackBracket, Back, ReturnStart
  <2>3. /\ rest # <<>> /\ Mate(Top(rest)) = text[at]
        /\ Pop(rest) = <<>> => at = start
        /\ Pop(rest) # <<>> => OnBrackets(h, text, start, at - 1, Pop(rest))
    BY <2>1, <2>2, OnBracket
  <2> QED BY <1>1, <2>2, <2>3
<1>11. ASSUME NEW c \in Chars, BackOther(c) PROVE Done
  <2>1. text[at] \in Plain /\ at' = at - 1 /\ pending' = pending /\ origin' = "scan"
    BY <1>11 DEF BackOther, Back
  <2> QED BY <1>2, <1>3, <2>1
<1>12. ~TurnBack /\ ~StartOfFile
  <2>1. at # 0 /\ "scan" # "none"
    BY <1>1
  <2> QED BY <2>1, Zenon DEF TurnBack, StartOfFile
<1> QED BY <1>5, <1>6, <1>7, <1>8, <1>9, <1>10, <1>11, <1>12 DEF Backward

(* The same for an angle of a tidy text                                    *)
LEMMA AngleStep ==
  ASSUME TypeOK, origin = "scan", NEW h, AnglePath(h, text, start),
         OnAngles(h, text, start, at, pending), TidyPairs(text),
         \A k \in 1..Len(text) : text[k] # "operator", Backward
  PROVE  \/ origin' = "scan" /\ OnAngles(h, text, start, at', pending')
         \/ origin' = "found" /\ at' + 1 = start
<1> DEFINE Done == \/ origin' = "scan" /\ OnAngles(h, text, start, at', pending')
                   \/ origin' = "found" /\ at' + 1 = start
           Angular == Brackets \cup {"<"} \cup Closers \cup {">"}
<1>1. at \in start..Len(text) /\ start \in Nat \ {0} /\ Len(text) \in Nat /\ at > 0
  BY TextTypes DEF OnAngles
<1>2. text[at] \notin Angular =>
        /\ OnAngles(h, text, start, at - 1, pending) /\ pending # <<>>
        /\ text[at] \in Stops => DropAngles(pending, ">") = pending
  BY AngleOnOther
<1>3. text[at] \in Brackets \cup {"<"} =>
        /\ pending # <<>>
        /\ text[at] = "<" <=> Ends(pending, ">")
        /\ text[at] \in Brackets =>
             DropAngles(pending, ">") = pending /\ Mate(Top(pending)) = text[at]
        /\ Pop(pending) = <<>> => at = start
        /\ Pop(pending) # <<>> => OnAngles(h, text, start, at - 1, Pop(pending))
  BY AngleOnOpener
<1>4. text[at] \in Closers \cup {">"} =>
        OnAngles(h, text, start, at - 1, Append(pending, text[at]))
  BY AngleOnCloser
<1>5. \A c \in Plain \cup {"newline"} \cup Stops : c \notin Angular
  BY Kinds, Partners
<1>6. CASE BackGreater
  <2>1. /\ text[at] = ">" /\ origin' = "scan"
        /\ ~SkipGreater => at' = at - 1 /\ pending' = Append(pending, text[at])
    BY <1>6 DEF BackGreater, Back
  <2>2. ~SkipGreater
    BY <1>1, <2>1, NotSkipped
  <2> QED BY <1>4, <2>1, <2>2
<1>7. CASE BackLess
  <2>1. /\ text[at] = "<"
        /\ ~Ends(Line(at - 1), "<") /\ Ends(pending, ">") =>
             /\ at' = at - 1 /\ pending' = Pop(pending)
             /\ origin' = IF Pop(pending) = <<>> THEN "found" ELSE "scan"
    BY <1>7 DEF BackLess, Back, ReturnStart
  <2>2. ~Ends(Line(at - 1), "<")
    BY <1>1, <2>1, NotSkipped
  <2> QED BY <1>1, <1>3, <2>1, <2>2
<1>8. CASE BackSemicolon
  <2>1. /\ text[at] \in Stops /\ at' = at - 1 /\ pending' = DropAngles(pending, ">")
        /\ DropAngles(pending, ">") # <<>> => origin' = "scan"
    BY <1>8, Zenon DEF BackSemicolon, Back, Stops
  <2> QED BY <1>2, <1>5, <2>1
<1>9. CASE BackLine
  <2>1. /\ text[at] = "newline" /\ at' = at - 1 /\ pending' = pending
        /\ pending # <<>> => origin' = "scan"
    BY <1>9 DEF BackLine, Back
  <2> QED BY <1>2, <1>5, <2>1
<1>10. ASSUME NEW c \in Chars, BackCloser(c) PROVE Done
  <2>1. /\ text[at] \in Closers /\ at' = at - 1 /\ pending' = Append(pending, text[at])
        /\ origin' = "scan"
    BY <1>10 DEF BackCloser, Back
  <2> QED BY <1>4, <2>1
<1>11. ASSUME NEW c \in Chars, BackBracket(c) PROVE Done
  <2>1. PICK rest : rest = DropAngles(pending, ">")
    OBVIOUS
  <2>2. /\ text[at] \in Brackets /\ at' = at - 1
        /\ rest # <<>> /\ Mate(Top(rest)) = text[at] =>
             /\ pending' = Pop(rest)
             /\ origin' = IF Pop(rest) = <<>> THEN "found" ELSE "scan"
    BY <1>11, <2>1 DEF BackBracket, Back, ReturnStart
  <2>3. /\ rest # <<>> /\ Mate(Top(rest)) = text[at]
        /\ Pop(rest) = <<>> => at = start
        /\ Pop(rest) # <<>> => OnAngles(h, text, start, at - 1, Pop(rest))
    BY <1>3, <2>1, <2>2
  <2> QED BY <1>1, <2>2, <2>3
<1>12. ASSUME NEW c \in Chars, BackOther(c) PROVE Done
  <2>1. text[at] \in Plain /\ at' = at - 1 /\ pending' = pending /\ origin' = "scan"
    BY <1>12 DEF BackOther, Back
  <2> QED BY <1>2, <1>5, <2>1
<1>13. ~TurnBack /\ ~StartOfFile
  <2>1. at # 0 /\ "scan" # "none"
    BY <1>1
  <2> QED BY <2>1, Zenon DEF TurnBack, StartOfFile
<1> QED BY <1>6, <1>7, <1>8, <1>9, <1>10, <1>11, <1>12, <1>13 DEF Backward

-----------------------------------------------------------------------------
(* The invariant of the way back                                           *)

(* Only a mate that was found is gone back from, and what is pending on    *)
(* the way are the mates of what was open there.                           *)
WayBack ==
  /\ origin # "none" => outcome = "found"
  /\ FromBracket /\ origin = "scan" =>
       \E h : BracketPath(h, text, start) /\ OnBrackets(h, text, start, at, pending)
  /\ FromAngle /\ tidy /\ origin = "scan" =>
       \E h : AnglePath(h, text, start) /\ OnAngles(h, text, start, at, pending)
  /\ BackToTheStart

(* Nobody is on the way back at the start.                                 *)
LEMMA InitWayBack == Init => WayBack
BY DEF Init, WayBack, BackToTheStart

(* Nobody goes back before the end was found.                              *)
LEMMA ForwardWayBack == WayBack /\ Forward => WayBack'
<1> SUFFICES ASSUME WayBack, Forward PROVE WayBack'
  OBVIOUS
<1>1. outcome = "scan" /\ origin' = origin
  <2>1. \A c : Read(c) => outcome = "scan" /\ origin' = origin
    BY DEF Read, backward
  <2>2. EndOfFile => outcome = "scan" /\ origin' = origin
    BY DEF EndOfFile, backward
  <2> QED BY <2>1, <2>2, ForwardReads
<1>2. origin' = "none"
  BY <1>1 DEF WayBack
<1> QED BY <1>2 DEF WayBack, BackToTheStart

(* At the end that was found nothing is pending yet.                       *)
LEMMA NothingPending == <<>> \in Waiting /\ Mated(<<>>) = <<>> /\ Within(<<>>, <<>>)
<1>1. <<>> \in Waiting
  BY DEF Waiting
<1>2. Mated(<<>>) = <<>>
  BY <1>1, MatedTypes
<1>3. Places(<<>>, <<>>, <<>>)
  BY DEF Places
<1> QED BY <1>1, <1>2, <1>3 DEF Within

(* The way back from the mate of a bracket begins on the path.             *)
LEMMA TurnBackBracket ==
  ASSUME TypeOK, Search, Histories, FromBracket, outcome = "found"
  PROVE  \E h : BracketPath(h, text, start) /\ OnBrackets(h, text, start, Len(text), <<>>)
<1>1. open = <<>> /\ ~broken
  BY Zenon DEF Search, BracketFindsItsMate
<1>2. PICK h : History(h, text, start, open, Brackets, Closers, Brackets)
  BY <1>1, Zenon DEF Histories, OpenHistory
<1>3. text \in Seq(Chars) /\ Len(text) \in Nat /\ start \in Nat \ {0}
  BY TextTypes
<1>4. Len(text) >= start /\ text[start] \in Brackets
  BY DEF FromBracket, Started
<1>5. h[Len(text)] = <<>>
  BY <1>1, <1>2 DEF History
<1>6. BracketPath(h, text, start)
  BY <1>1, <1>2, <1>3, <1>4 DEF BracketPath
<1>7. OnBrackets(h, text, start, Len(text), <<>>)
  BY <1>3, <1>4, <1>5, NothingPending DEF OnBrackets
<1> QED BY <1>6, <1>7

(* The same for an angle of a tidy text                                    *)
LEMMA TurnBackAngle ==
  ASSUME TypeOK, TidySearch, Histories, FromAngle, tidy, outcome = "found"
  PROVE  \E h : AnglePath(h, text, start) /\ OnAngles(h, text, start, Len(text), <<>>)
<1>1. nest = <<>>
  BY Zenon DEF TidySearch
<1>2. PICK h : History(h, text, start, <<>>, Brackets \cup {"<"}, Closers \cup {">"}, {"<"})
  BY <1>1, Zenon DEF Histories, NestHistory
<1>3. text \in Seq(Chars) /\ Len(text) \in Nat /\ start \in Nat \ {0}
  BY TextTypes, Zenon
<1>4. Len(text) >= start /\ text[start] = "<"
  BY Zenon DEF FromAngle, Started
<1>5. h[Len(text)] = <<>>
  BY <1>2, Zenon DEF History
<1>6. AnglePath(h, text, start)
  BY <1>2, <1>3, <1>4, Zenon DEF AnglePath
<1>7. Len(text) \in start..Len(text)
  BY <1>3, <1>4, SMT
<1>8. OnAngles(h, text, start, Len(text), <<>>)
  BY <1>5, <1>7, NothingPending, Zenon DEF OnAngles
<1> QED BY <1>6, <1>8, Zenon

(* Every step of the way back keeps the invariant.                         *)
LEMMA BackwardWayBack ==
  TypeOK /\ Search /\ TidySearch /\ Histories /\ WayBack /\ Backward => WayBack'
<1> SUFFICES ASSUME TypeOK, Search, TidySearch, Histories, WayBack, Backward PROVE WayBack'
  OBVIOUS
<1>1. forward' = forward /\ history' = history
  BY BackwardKeeps
<1>2. text' = text /\ start' = start /\ outcome' = outcome /\ tidy' = tidy
  BY <1>1, Zenon DEF forward, history
<1>3. (FromBracket' <=> FromBracket) /\ (FromAngle' <=> FromAngle)
  BY <1>2, Zenon DEF FromBracket, FromAngle, Started
<1>4. outcome = "found"
  <2>1. TurnBack \/ origin = "scan"
    BY Zenon DEF Backward, BackGreater, BackLess, BackSemicolon, BackLine, StartOfFile,
       BackCloser, BackBracket, BackOther, Back
  <2> QED BY <2>1 DEF TurnBack, WayBack
<1>5. ASSUME FromBracket
      PROVE  \/ /\ origin' = "scan"
                /\ \E h : BracketPath(h, text, start) /\ OnBrackets(h, text, start, at', pending')
             \/ origin' = "found" /\ at' + 1 = start
  <2>1. CASE TurnBack
    BY <1>4, <1>5, <2>1, TurnBackBracket DEF TurnBack
  <2>2. CASE origin = "scan"
    <3>1. PICK h : BracketPath(h, text, start) /\ OnBrackets(h, text, start, at, pending)
      BY <1>5, <2>2, Zenon DEF WayBack
    <3> QED BY <2>2, <3>1, BracketStep
  <2> QED BY <2>1, <2>2, Zenon DEF Backward, BackGreater, BackLess, BackSemicolon, BackLine,
             StartOfFile, BackCloser, BackBracket, BackOther, Back
<1>6. ASSUME FromAngle, tidy
      PROVE  \/ /\ origin' = "scan"
                /\ \E h : AnglePath(h, text, start) /\ OnAngles(h, text, start, at', pending')
             \/ origin' = "found" /\ at' + 1 = start
  <2>1. CASE TurnBack
    <3>1. origin' = "scan" /\ at' = Len(text) /\ pending' = <<>>
      BY <2>1, Zenon DEF TurnBack
    <3>2. \E h : AnglePath(h, text, start) /\ OnAngles(h, text, start, Len(text), <<>>)
      BY <1>4, <1>6, TurnBackAngle, Zenon
    <3> QED BY <3>1, <3>2, Zenon
  <2>2. CASE origin = "scan"
    <3>1. PICK h : AnglePath(h, text, start) /\ OnAngles(h, text, start, at, pending)
      BY <1>6, <2>2, Zenon DEF WayBack
    <3>2. TidyPairs(text) /\ \A k \in 1..Len(text) : text[k] # "operator"
      BY <1>6, Zenon DEF Histories, TidySearch
    <3> QED BY <2>2, <3>1, <3>2, AngleStep, Zenon
  <2> QED BY <2>1, <2>2, Zenon DEF Backward, BackGreater, BackLess, BackSemicolon, BackLine,
             StartOfFile, BackCloser, BackBracket, BackOther, Back
<1>7. BackToTheStart'
  <2>1. FromBracket => origin' = "scan" \/ (origin' = "found" /\ at' + 1 = start)
    BY <1>5, Zenon
  <2>2. FromAngle /\ tidy => origin' = "scan" \/ (origin' = "found" /\ at' + 1 = start)
    BY <1>6, Zenon
  <2> QED BY <1>2, <1>3, <2>1, <2>2, Zenon DEF BackToTheStart
<1>8. FromBracket /\ origin' = "scan" =>
        \E h : BracketPath(h, text, start) /\ OnBrackets(h, text, start, at', pending')
  <2>1. "scan" # "found"
    OBVIOUS
  <2> QED BY <1>5, <2>1, Zenon
<1>9. FromAngle /\ tidy /\ origin' = "scan" =>
        \E h : AnglePath(h, text, start) /\ OnAngles(h, text, start, at', pending')
  <2>1. "scan" # "found"
    OBVIOUS
  <2> QED BY <1>6, <2>1, Zenon
<1> QED BY <1>2, <1>3, <1>4, <1>7, <1>8, <1>9, Zenon DEF WayBack

(* The way back from the end that was found leads to the bracket the       *)
(* search started from, in texts of every length: always from a bracket    *)
(* that is not an angle, and from an angle in a tidy text                  *)
(* (ReverseCloseExpression).                                               *)
THEOREM BackAtTheStart == Spec => []BackToTheStart
<1>1. TypeOK /\ Search /\ TidySearch /\ Histories /\ WayBack /\ [Next]_vars => WayBack'
  <2> SUFFICES ASSUME TypeOK, Search, TidySearch, Histories, WayBack, [Next]_vars
               PROVE  WayBack'
    OBVIOUS
  <2>1. CASE UNCHANGED vars
    <3>1. /\ text' = text /\ start' = start /\ outcome' = outcome /\ tidy' = tidy
          /\ at' = at /\ pending' = pending /\ origin' = origin
      BY <2>1, Zenon DEF vars, forward, backward, history
    <3> QED BY <3>1, Zenon DEF WayBack, BackToTheStart, FromBracket, FromAngle, Started
  <2> QED BY <2>1, ForwardWayBack, BackwardWayBack DEF Next
<1>2. WayBack => BackToTheStart
  BY DEF WayBack
<1> QED BY <1>1, <1>2, InitWayBack, ExpressionTypes, SearchHolds, TidySearchHolds, HistoriesHold,
           PTL DEF Spec

-----------------------------------------------------------------------------
(* _GetTextInside                                                          *)

matching == Inside!matching_punctuation
Wanted(o) == [i \in 1..Len(o) |-> matching[o[i]]]
Inner(o, n) == [stack |-> Wanted(o), position |-> n, failed |-> FALSE]

(* The closing brackets fit like their mates.                              *)
LEMMA MatchingMates ==
  /\ \A c \in Brackets : matching[c] \in Closers /\ Mate(matching[c]) = c
  /\ \A c \in Closers : Mate(c) \in Brackets /\ matching[Mate(c)] = c
  /\ Inside!closing_punctuation = Closers /\ DOMAIN matching = Brackets
  /\ Brackets \cap Closers = {}
BY DEF matching, Inside!matching_punctuation, Inside!closing_punctuation, Brackets, Closers, Mate

(* What is wanted next is the mate of the bracket that is innermost.       *)
LEMMA WantedNext ==
  ASSUME NEW o \in Seq(Brackets), o # <<>>
  PROVE  /\ Wanted(o) # <<>> /\ Wanted(o) \in Seq(Closers) /\ Len(Wanted(o)) = Len(o)
         /\ Top(o) \in Brackets /\ Wanted(o)[Len(Wanted(o))] = matching[Top(o)]
<1>1. Len(o) \in Nat \ {0}
  BY EmptySeq
<1>2. \A i \in 1..Len(o) : o[i] \in Brackets /\ matching[o[i]] \in Closers
  BY MatchingMates
<1>3. Wanted(o) \in Seq(Closers) /\ Len(Wanted(o)) = Len(o)
  BY <1>1, <1>2 DEF Wanted
<1>4. Wanted(o) # <<>>
  BY <1>1, <1>3
<1>5. Len(o) \in 1..Len(o)
  BY <1>1
<1>6. Wanted(o)[Len(o)] = matching[Top(o)]
  BY <1>5 DEF Wanted, Top
<1> QED BY <1>2, <1>3, <1>4, <1>5, <1>6 DEF Top

(* What is wanted when a bracket opens                                     *)
LEMMA WantedPush ==
  ASSUME NEW o \in Seq(Brackets), NEW c \in Brackets
  PROVE  Append(Wanted(o), matching[c]) = Wanted(Append(o, c))
<1>1. PICK k \in Nat : k = Len(o)
  OBVIOUS
<1>2. PICK p \in Seq(Brackets) : /\ p = Append(o, c) /\ Len(p) = k + 1 /\ p[k + 1] = c
                                 /\ \A i \in 1..k : p[i] = o[i]
  <2>1. /\ Append(o, c) \in Seq(Brackets) /\ Len(Append(o, c)) = k + 1 /\ Append(o, c)[k + 1] = c
        /\ \A i \in 1..k : Append(o, c)[i] = o[i]
    BY <1>1, AppendProperties
  <2> QED BY <2>1
<1>3. PICK w : w = Wanted(o) /\ w \in Seq(Closers) /\ Len(w) = k /\ \A i \in 1..k : w[i] = matching[o[i]]
  <2>1. \A i \in 1..k : o[i] \in Brackets /\ matching[o[i]] \in Closers
    BY <1>1, MatchingMates
  <2>2. Wanted(o) = [i \in 1..k |-> matching[o[i]]]
    BY <1>1 DEF Wanted
  <2>3. /\ Wanted(o) \in Seq(Closers) /\ Len(Wanted(o)) = k
        /\ \A i \in 1..k : Wanted(o)[i] = matching[o[i]]
    BY <2>1, <2>2
  <2> QED BY <2>3
<1>4. matching[c] \in Closers
  BY MatchingMates
<1>5. Append(w, matching[c]) = [i \in 1..(k + 1) |-> IF i = k + 1 THEN matching[c] ELSE w[i]]
  BY <1>1, <1>3, <1>4
<1>6. \A i \in 1..(k + 1) : (IF i = k + 1 THEN matching[c] ELSE w[i]) = matching[p[i]]
  <2>1. \A i \in 1..(k + 1) : i = k + 1 \/ i \in 1..k
    BY <1>1
  <2> QED BY <1>2, <1>3, <2>1
<1>7. Wanted(p) = [i \in 1..(k + 1) |-> matching[p[i]]]
  BY <1>2 DEF Wanted
<1>8. Append(w, matching[c]) = Wanted(p)
  BY <1>5, <1>6, <1>7
<1> QED BY <1>2, <1>3, <1>8, Zenon

(* What is wanted when the innermost one closes                            *)
LEMMA WantedPop ==
  ASSUME NEW o \in Seq(Brackets), o # <<>>
  PROVE  Inside!Front(Wanted(o)) = Wanted(Pop(o))
<1>1. PICK k \in Nat : k + 1 = Len(o)
  <2>1. Len(o) \in Nat \ {0}
    BY EmptySeq
  <2> QED BY <2>1
<1>2. Len(Pop(o)) = k /\ \A i \in 1..k : Pop(o)[i] = o[i]
  BY <1>1 DEF Pop
<1>3. Len(Wanted(o)) = k + 1 /\ \A i \in 1..(k + 1) : Wanted(o)[i] = matching[o[i]]
  BY <1>1, WantedNext DEF Wanted
<1>4. Inside!Front(Wanted(o)) = [i \in 1..k |-> matching[o[i]]]
  <2>1. (k + 1) - 1 = k /\ \A i \in 1..k : i \in 1..(k + 1)
    BY <1>1
  <2>2. Inside!Front(Wanted(o)) = [i \in 1..k |-> Wanted(o)[i]]
    BY <1>1, <1>3, <2>1, WantedNext DEF Inside!Front
  <2> QED BY <1>3, <2>1, <2>2
<1>5. Wanted(Pop(o)) = [i \in 1..k |-> matching[o[i]]]
  BY <1>2 DEF Wanted
<1> QED BY <1>4, <1>5

(* One turn of the loop does with what is wanted what the text does with   *)
(* what is open.                                                           *)
LEMMA TurnOpen ==
  ASSUME NEW o \in Seq(Brackets), o # <<>>, NEW n \in Nat, NEW c \in Chars
  PROVE  /\ c \in Brackets => Inside!Turn(Inner(o, n), c) = Inner(Append(o, c), n + 1)
         /\ c \in Closers /\ Ends(o, Mate(c)) => Inside!Turn(Inner(o, n), c) = Inner(Pop(o), n + 1)
         /\ c \in Closers /\ ~Ends(o, Mate(c)) => Inside!Turn(Inner(o, n), c).failed = TRUE
         /\ c \notin Brackets \cup Closers => Inside!Turn(Inner(o, n), c) = Inner(o, n + 1)
<1>1. PICK w \in Seq(Closers) : /\ w = Wanted(o) /\ w # <<>> /\ Len(w) = Len(o)
                                /\ w[Len(w)] = matching[Top(o)]
  BY WantedNext
<1>2. Len(o) \in Nat \ {0} /\ Top(o) \in Brackets
  BY WantedNext, EmptySeq
<1>3. Inner(o, n) = [stack |-> w, position |-> n, failed |-> FALSE]
  BY <1>1 DEF Inner
<1> DEFINE r == [stack |-> w, position |-> n, failed |-> FALSE]
<1>4. Inside!Turn(r, c) = Inside!ReadOn(r, c)
  <2>1. ~r.failed /\ r.stack = w
    OBVIOUS
  <2> HIDE DEF r
  <2> QED BY <1>1, <2>1, Zenon DEF Inside!Turn
<1>5. c \in Closers /\ Ends(o, Mate(c)) <=> c = w[Len(w)]
  <2>1. Ends(o, Mate(c)) <=> Mate(c) = Top(o)
    BY DEF Ends
  <2> QED BY <1>1, <1>2, <2>1, MatchingMates
<1>6. /\ Inside!Last(r.stack) = w[Len(w)]
      /\ Inside!closing_punctuation = Closers /\ DOMAIN Inside!matching_punctuation = Brackets
      /\ w[Len(w)] \in Closers
  BY <1>1, <1>2, MatchingMates DEF Inside!Last, matching
<1>7. /\ r.stack = w
      /\ [r EXCEPT !.failed = TRUE].failed = TRUE
      /\ \A v : Inside!Advance(r, v) = [stack |-> v, position |-> n + 1, failed |-> FALSE]
  <2>1. r.position = n /\ r.stack = w
    OBVIOUS
  <2>2. [r EXCEPT !.failed = TRUE].failed = TRUE
    BY Zenon
  <2> HIDE DEF r
  <2> QED BY <2>1, <2>2, Zenon DEF Inside!Advance
<1> HIDE DEF r
<1>8. CASE c = w[Len(w)]
  <2>1. Inside!ReadOn(r, c) = Inside!Advance(r, Inside!Front(w))
    BY <1>6, <1>7, <1>8, MatchingMates, Zenon DEF Inside!ReadOn
  <2>2. Inside!Front(w) = Wanted(Pop(o))
    BY <1>1, WantedPop
  <2>3. Inside!Turn(r, c) = Inner(Pop(o), n + 1)
    BY <1>4, <1>7, <2>1, <2>2, Zenon DEF Inner
  <2> QED BY <1>3, <1>5, <1>6, <1>8, <2>3, MatchingMates, Zenon DEF r
<1>9. CASE c \in Closers /\ c # w[Len(w)]
  <2>1. Inside!ReadOn(r, c) = [r EXCEPT !.failed = TRUE]
    BY <1>6, <1>7, <1>9, MatchingMates, Zenon DEF Inside!ReadOn
  <2>2. Inside!Turn(r, c).failed = TRUE
    BY <1>4, <1>7, <2>1
  <2> QED BY <1>3, <1>5, <1>9, <2>2, MatchingMates, Zenon DEF r
<1>10. CASE c \in Brackets
  <2>0. c # w[Len(w)] /\ c \notin Closers
    BY <1>6, <1>10, MatchingMates
  <2>1. Inside!ReadOn(r, c) = Inside!Advance(r, Append(w, matching[c]))
    <3>1. Inside!ReadOn(r, c) = Inside!Push(r, c)
      BY <1>6, <1>10, <2>0, Zenon DEF Inside!ReadOn
    <3> QED BY <1>7, <3>1, Zenon DEF Inside!Push, matching
  <2>2. Append(w, matching[c]) = Wanted(Append(o, c))
    BY <1>1, <1>10, WantedPush
  <2>3. Inside!Turn(r, c) = Inner(Append(o, c), n + 1)
    BY <1>4, <1>7, <2>1, <2>2, Zenon DEF Inner
  <2> QED BY <1>3, <1>10, <2>3, MatchingMates, Zenon DEF r
<1>11. CASE c \notin Brackets \cup Closers
  <2>0. c # w[Len(w)] /\ c \notin Closers /\ c \notin Brackets
    BY <1>6, <1>11
  <2>1. Inside!ReadOn(r, c) = Inside!Advance(r, w)
    BY <1>6, <1>7, <2>0, Zenon DEF Inside!ReadOn
  <2>2. Inside!Turn(r, c) = Inner(o, n + 1)
    BY <1>1, <1>4, <1>7, <2>1, Zenon DEF Inner
  <2> QED BY <1>3, <1>11, <2>2, Zenon DEF r
<1> QED BY <1>8, <1>9, <1>10, <1>11, Zenon

(* The loop has one bracket to begin with.                                 *)
First(c, n) == [stack |-> <<matching[c]>>, position |-> n, failed |-> FALSE]

(* The first bracket of a search is the innermost one of a stack of one. *)
LEMMA FirstIsInner ==
  ASSUME NEW c \in Brackets, NEW n
  PROVE  First(c, n) = Inner(<<c>>, n)
<1>1. <<matching[c]>> = [i \in 1..1 |-> matching[c]]
  OBVIOUS
<1>2. Len(<<c>>) = 1 /\ \A i \in 1..1 : <<c>>[i] = c
  OBVIOUS
<1>3. Wanted(<<c>>) = [i \in 1..1 |-> matching[c]]
  BY <1>2 DEF Wanted
<1> QED BY <1>1, <1>3, Zenon DEF First, Inner

(* g holds what the loop knows after each character from first on.         *)
Reads(g, t, first) ==
  /\ g = [n \in first..Len(t) |-> g[n]]
  /\ g[first] = First(t[first], first)
  /\ \A n \in (first + 1)..Len(t) : g[n] = Inside!Turn(g[n - 1], t[n])

(* What holds that is what Reading tells.                                  *)
LEMMA ReadingIs ==
  ASSUME NEW t, NEW k \in Nat, k = Len(t), NEW first \in 1..k, NEW g, Reads(g, t, first)
  PROVE  Inside!Reading(t, first)[k] = g[k]
<1> DEFINE Is(f) == f = [n \in first..k |-> IF n = first THEN First(t[first], first)
                                            ELSE Inside!Turn(f[n - 1], t[n])]
<1> DEFINE r == Inside!Reading(t, first)
<1>1. Is(g)
  <2>1. \A n \in first..k : n = first \/ n \in (first + 1)..k
    OBVIOUS
  <2>2. \A n \in first..k : g[n] = IF n = first THEN First(t[first], first)
                                   ELSE Inside!Turn(g[n - 1], t[n])
    BY <2>1 DEF Reads
  <2>3. g = [n \in first..k |-> g[n]]
    BY DEF Reads
  <2> QED BY <2>2, <2>3
<1>2. r = CHOOSE f : Is(f)
  BY Zenon DEF Inside!Reading, First, matching
<1>3. Is(r)
  <2> HIDE DEF Is, r
  <2> QED BY <1>1, <1>2
<1> HIDE DEF r
<1>4. \A n \in first..k : r[n] = IF n = first THEN First(t[first], first)
                                 ELSE Inside!Turn(r[n - 1], t[n])
  <2>1. r = [n \in first..k |-> IF n = first THEN First(t[first], first)
                               ELSE Inside!Turn(r[n - 1], t[n])]
    BY <1>3
  <2> QED BY <2>1
<1> DEFINE T == {n \in first..k : r[n] # g[n]}
<1>5. T = {}
  <2> SUFFICES ASSUME T # {} PROVE FALSE
    OBVIOUS
  <2>1. T \subseteq Nat
    OBVIOUS
  <2>2. PICK n \in T : \A y \in T : n <= y
    <3> HIDE DEF T
    <3> QED BY <2>1, LeastNatural
  <2>3. n \in (first + 1)..k /\ n # first /\ n \in first..k
    BY <1>4, <2>2 DEF Reads
  <2>4. n - 1 \in first..k /\ ~(n - 1 \in T)
    BY <2>2, <2>3
  <2>5. r[n - 1] = g[n - 1]
    BY <2>4
  <2>6. r[n] = g[n]
    BY <1>4, <2>3, <2>5 DEF Reads
  <2> QED BY <2>2, <2>6
<1>6. k \in first..k
  OBVIOUS
<1> QED BY <1>5, <1>6 DEF r

(* One character more is one turn of the loop more.                        *)
LEMMA ReadsGrow ==
  ASSUME NEW t \in Seq(Chars), NEW c \in Chars, NEW k \in Nat, k = Len(t), NEW first \in 1..k,
         NEW g, Reads(g, t, first)
  PROVE  \E f : /\ Reads(f, Append(t, c), first)
                /\ f[k + 1] = Inside!Turn(g[k], c)
<1>1. PICK u : /\ u = Append(t, c) /\ Len(u) = k + 1 /\ u[k + 1] = c
               /\ \A i \in 1..k : u[i] = t[i]
  <2>1. /\ Len(Append(t, c)) = k + 1 /\ Append(t, c)[k + 1] = c
        /\ \A i \in 1..k : Append(t, c)[i] = t[i]
    BY AppendProperties
  <2> QED BY <2>1
<1> DEFINE f == [n \in first..(k + 1) |-> IF n = k + 1 THEN Inside!Turn(g[k], c) ELSE g[n]]
<1>2. /\ f = [n \in first..(k + 1) |-> f[n]]
      /\ f[k + 1] = Inside!Turn(g[k], c)
      /\ \A n \in first..k : f[n] = g[n]
  <2>1. k + 1 \in first..(k + 1) /\ \A n \in first..k : n \in first..(k + 1) /\ n # k + 1
    OBVIOUS
  <2> QED BY <2>1
<1> HIDE DEF f
<1>3. first \in first..k /\ first \in 1..k /\ k \in first..k
  OBVIOUS
<1>4. f[first] = First(u[first], first)
  BY <1>1, <1>2, <1>3 DEF Reads
<1>5. ASSUME NEW n \in (first + 1)..(k + 1) PROVE f[n] = Inside!Turn(f[n - 1], u[n])
  <2>1. CASE n = k + 1
    <3>1. n - 1 = k
      BY <2>1
    <3> QED BY <1>1, <1>2, <1>3, <2>1, <3>1
  <2>2. CASE n # k + 1
    <3>1. n \in (first + 1)..k /\ n \in first..k /\ n - 1 \in first..k /\ n \in 1..k
      BY <2>2
    <3> QED BY <1>1, <1>2, <3>1 DEF Reads
  <2> QED BY <2>1, <2>2
<1>6. Reads(f, u, first)
  BY <1>1, <1>2, <1>4, <1>5 DEF Reads
<1> QED BY <1>1, <1>2, <1>6

(* The first bracket                                                       *)
LEMMA ReadsStart ==
  ASSUME NEW t \in Seq(Chars), NEW c \in Chars, NEW first \in Nat, Len(t) + 1 = first
  PROVE  \E f : Reads(f, Append(t, c), first) /\ f[first] = First(c, first)
<1>1. PICK u : u = Append(t, c) /\ Len(u) = first /\ u[first] = c
  <2>1. Len(Append(t, c)) = first /\ Append(t, c)[first] = c
    BY AppendProperties
  <2> QED BY <2>1
<1> DEFINE f == [n \in first..first |-> First(c, first)]
<1>2. f = [n \in first..first |-> f[n]] /\ f[first] = First(c, first)
  OBVIOUS
<1>3. \A n \in (first + 1)..first : FALSE
  OBVIOUS
<1> HIDE DEF f
<1>4. Reads(f, u, first)
  BY <1>1, <1>2, <1>3 DEF Reads
<1> QED BY <1>1, <1>2, <1>4

(* After each character the loop wants the mates of what is open, or has   *)
(* failed because a bracket did not fit.                                   *)
InsideRead ==
  FromBracket =>
    \E g : /\ Reads(g, text, start)
           /\ broken => g[Len(text)].failed = TRUE
           /\ ~broken => g[Len(text)] = Inner(open, Len(text))

(* What a character does to the open brackets                              *)
LEMMA OpenAfter ==
  ASSUME NEW c \in Chars, Read(c), ~broken
  PROVE  /\ c \in Brackets => open' = Append(open, c) /\ ~broken'
         /\ c \in Closers /\ Ends(open, Mate(c)) => open' = Pop(open) /\ ~broken'
         /\ c \in Closers /\ ~Ends(open, Mate(c)) => broken'
         /\ c \notin Brackets \cup Closers => open' = open /\ ~broken'
<1>1. open' = CASE c \in Brackets -> Append(open, c)
                [] c \in Closers /\ Ends(open, Mate(c)) -> Pop(open)
                [] OTHER -> open
  BY Zenon DEF Read, Follow
<1>2. broken' <=> broken \/ (c \in Closers /\ ~Ends(open, Mate(c)))
  BY Zenon DEF Read, Follow
<1>3. ~(c \in Brackets /\ c \in Closers)
  BY MatchingMates
<1> QED BY <1>1, <1>2, <1>3, Zenon

(* It is kept by a character.                                              *)
LEMMA ReadInside ==
  ASSUME TypeOK, Search, InsideRead, NEW c \in Chars, Read(c)
  PROVE  InsideRead'
<1>1. /\ text \in Seq(Chars) /\ start \in Nat \ {0} /\ Len(text) >= start - 1
      /\ open \in Seq(Brackets)
  BY TextTypes DEF TypeOK, Search
<1>2. PICK k \in Nat : k = Len(text)
  BY <1>1
<1>3. text' = Append(text, c) /\ start' = start /\ outcome = "scan"
  BY DEF Read
<1>4. Len(text') = k + 1
  BY <1>1, <1>2, <1>3, AppendProperties
<1>5. ~broken
  BY <1>3, Zenon DEF Search
<1>6. CASE Started
  <2> SUFFICES ASSUME FromBracket PROVE InsideRead'
    <3>1. FromBracket' <=> FromBracket
      BY <1>6, ReadPlace
    <3> QED BY <3>1, Zenon DEF InsideRead
  <2>1. open # <<>>
    BY <1>3, StackHolds
  <2>2. PICK g : Reads(g, text, start) /\ g[k] = Inner(open, k)
    <3>1. PICK g : Reads(g, text, start) /\ (~broken => g[Len(text)] = Inner(open, Len(text)))
      BY Zenon DEF InsideRead
    <3>2. g[k] = Inner(open, k)
      BY <1>2, <1>5, <3>1, Zenon
    <3> QED BY <3>1, <3>2, Zenon
  <2>3. start \in 1..k
    BY <1>1, <1>2, <1>6 DEF Started
  <2>4. PICK f : Reads(f, text', start) /\ f[k + 1] = Inside!Turn(Inner(open, k), c)
    BY <1>1, <1>2, <1>3, <2>2, <2>3, ReadsGrow
  <2>5. /\ c \in Brackets => f[k + 1] = Inner(Append(open, c), k + 1)
        /\ c \in Closers /\ Ends(open, Mate(c)) => f[k + 1] = Inner(Pop(open), k + 1)
        /\ c \in Closers /\ ~Ends(open, Mate(c)) => f[k + 1].failed = TRUE
        /\ c \notin Brackets \cup Closers => f[k + 1] = Inner(open, k + 1)
    BY <1>1, <1>2, <2>1, <2>4, TurnOpen, Zenon
  <2>6. broken' => f[k + 1].failed = TRUE
    BY <1>5, <2>5, OpenAfter, Zenon
  <2>7. ~broken' => f[k + 1] = Inner(open', k + 1)
    BY <1>5, <2>5, OpenAfter, Zenon
  <2> QED BY <1>3, <1>4, <2>4, <2>6, <2>7, Zenon DEF InsideRead, Inner, Wanted
<1>7. CASE ~Started
  <2> SUFFICES ASSUME c \in Brackets PROVE InsideRead'
    <3>1. FromBracket' <=> c \in Brackets
      BY <1>7, ReadPlace DEF FromBracket
    <3> QED BY <3>1, Zenon DEF InsideRead
  <2>1. Len(text) + 1 = start /\ start = k + 1
    BY <1>1, <1>2, <1>7 DEF Started
  <2>2. PICK f : Reads(f, text', start) /\ f[k + 1] = First(c, k + 1)
    BY <1>1, <1>3, <2>1, ReadsStart
  <2>3. open' = <<c>> /\ ~broken'
    <3>1. open' = Append(open, c) /\ ~broken'
      BY <1>5, OpenAfter, Zenon
    <3>2. open = <<>>
      BY <1>7 DEF Search
    <3>3. Append(<<>>, c) = <<c>>
      OBVIOUS
    <3> QED BY <3>1, <3>2, <3>3, Zenon
  <2>4. f[k + 1] = Inner(<<c>>, k + 1)
    BY <2>2, FirstIsInner
  <2> QED BY <1>3, <1>4, <2>2, <2>3, <2>4, Zenon DEF InsideRead
<1> QED BY <1>6, <1>7, Zenon

(* It holds in every state.                                                *)
LEMMA InsideReadHolds == Spec => []InsideRead
<1>1. Init => InsideRead
  <2> SUFFICES ASSUME Init PROVE ~Started
    BY Zenon DEF InsideRead, FromBracket
  <2>1. Len(text) \in Nat /\ start = Len(text) + 1
    BY InitTypes, TextTypes DEF Init
  <2> QED BY <2>1 DEF Started
<1>2. TypeOK /\ Search /\ InsideRead /\ [Next]_vars => InsideRead'
  <2> SUFFICES ASSUME TypeOK, Search, InsideRead, [Next]_vars PROVE InsideRead'
    OBVIOUS
  <2>1. ASSUME text' = text, start' = start, open' = open, broken' = broken
        PROVE  InsideRead'
    BY <2>1, Zenon DEF InsideRead, FromBracket, Started, Reads, First, Inner, Wanted
  <2>2. CASE Forward
    <3>1. CASE EndOfFile
      BY <2>1, <3>1, Zenon DEF EndOfFile, history
    <3> QED BY <2>2, <3>1, ForwardReads, ReadInside
  <2>3. CASE Backward
    <3>1. forward' = forward /\ history' = history
      BY <2>3, BackwardKeeps
    <3> QED BY <2>1, <3>1, Zenon DEF forward, history
  <2>4. CASE UNCHANGED vars
    BY <2>1, <2>4, Zenon DEF vars, forward, history
  <2> QED BY <2>2, <2>3, <2>4 DEF Next
<1> QED BY <1>1, <1>2, ExpressionTypes, SearchHolds, PTL DEF Spec

(* From a round, square or curly bracket _GetTextInside and                *)
(* CloseExpression find the same end or none, in texts of every length.    *)
THEOREM TextsInsideMatch == Spec => []TextsInsideAgree
<1>1. TypeOK /\ Search /\ InsideRead => TextsInsideAgree
  <2> SUFFICES ASSUME TypeOK, Search, InsideRead, FromBracket
               PROVE  Inside!ClosingPosition(text, start) = IF outcome = "found" THEN Len(text) ELSE 0
    BY DEF TextsInsideAgree
  <2>1. PICK k \in Nat : k = Len(text)
    BY TextTypes
  <2>2. start \in 1..k
    BY <2>1, TextTypes DEF FromBracket, Started
  <2>3. PICK g : /\ Reads(g, text, start)
                 /\ broken => g[k].failed = TRUE
                 /\ ~broken => g[k] = Inner(open, k)
    <3>1. PICK g : /\ Reads(g, text, start)
                   /\ broken => g[Len(text)].failed = TRUE
                   /\ ~broken => g[Len(text)] = Inner(open, Len(text))
      BY Zenon DEF InsideRead
    <3>2. (broken => g[k].failed = TRUE) /\ (~broken => g[k] = Inner(open, k))
      BY <2>1, <3>1, Zenon
    <3> QED BY <3>1, <3>2, Zenon
  <2>4. Inside!Reading(text, start)[k] = g[k]
    BY <2>1, <2>2, <2>3, ReadingIs
  <2>5. Inside!ClosingPosition(text, start) =
          IF g[k].failed \/ g[k].stack # <<>> THEN 0 ELSE g[k].position
    BY <2>1, <2>4, Zenon DEF Inside!ClosingPosition
  <2>6. Inner(open, k).stack = Wanted(open) /\ Inner(open, k).position = k /\ ~Inner(open, k).failed
    BY DEF Inner
  <2>7. CASE outcome = "found"
    <3>1. open = <<>> /\ ~broken
      BY <2>7 DEF Search, BracketFindsItsMate
    <3>2. Wanted(<<>>) = <<>>
      BY DEF Wanted
    <3> QED BY <2>1, <2>3, <2>5, <2>6, <2>7, <3>1, <3>2, Zenon
  <2>8. CASE outcome = "failed"
    <3>1. broken
      BY <2>8, Zenon DEF Search, BracketFindsItsMate
    <3>2. g[k].failed
      BY <2>3, <3>1, Zenon
    <3> QED BY <2>5, <2>8, <3>2, Zenon
  <2>9. CASE outcome \notin {"found", "failed"}
    <3>1. open # <<>> /\ ~broken
      BY <2>9 DEF Search, BracketFindsItsMate
    <3>2. Wanted(open) # <<>>
      BY <3>1, WantedNext DEF TypeOK
    <3> QED BY <2>3, <2>5, <2>6, <2>9, <3>1, <3>2, Zenon
  <2> QED BY <2>7, <2>8, <2>9, Zenon
<1> QED BY <1>1, ExpressionTypes, SearchHolds, InsideReadHolds, PTL
===============================================================================

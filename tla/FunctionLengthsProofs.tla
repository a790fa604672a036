------------------------- MODULE FunctionLengthsProofs -------------------------
(***************************************************************************)
(* The type invariant of FunctionLengths; that a function that is too long *)
(* is printed whatever --verbose is: the level of the report is the        *)
(* logarithm that the trigger was made of; and that the reports are those  *)
(* of the functions of the file: between two lines the counter holds the   *)
(* lines of the function that is open, and no two functions are open.      *)
(***************************************************************************)
EXTENDS FunctionLengths, FiniteSetTheorems, WellFoundedInduction, TLAPS

-----------------------------------------------------------------------------
(* Why the count is that of the function                                   *)

(* The function that starts on line n has not ended before the next line.  *)
OpenSince(n) ==
  /\ Starts(n) /\ HasBody(n)
  /\ \A m \in (n + 1)..(linenum - 1) :
       IF Starts(m) THEN ~HasBody(m) ELSE ~lines[m].closes

(* What is counted are the lines of the function that is open, if any is.  *)
Counting ==
  IF in_a_function
  THEN \E n \in 1..(linenum - 1) :
         /\ OpenSince(n)
         /\ current_function = lines[n].starts
         /\ lines_in_function = Size(n, linenum)
  ELSE \A n \in 1..(linenum - 1) : ~OpenSince(n)

(* The inductive invariant: reports are of lines that were read.           *)
LengthsInv == Counting /\ (\A r \in reports : r.line < linenum) /\ LongFunctionsReported

-----------------------------------------------------------------------------
(* Lemmas *)

(* The level exists if the function is as long as its base, and is at      *)
(* least v if it is as long as 2^v times the base.  It tells the size to a *)
(* factor of two.                                                          *)
LEMMA LevelOfSize ==
  ASSUME NEW size \in Nat, NEW function, NEW v \in 0..5,
         size > BaseTrigger(function) * TwoTo(v)
  PROVE  LET level == ErrorLevel(size, function)
             base == BaseTrigger(function)
         IN /\ level \in 0..5
            /\ level >= v
            /\ TwoTo(level) * base <= size
            /\ level < 5 => size < TwoTo(level + 1) * base
<1> DEFINE q == size \div BaseTrigger(function)
<1> DEFINE P(k) == TwoTo(k) <= q /\ (k < 5 => q < TwoTo(k + 1))
<1>1. BaseTrigger(function) \in {250, 400}
  BY DEF BaseTrigger, TEST_TRIGGER, NORMAL_TRIGGER
<1>2. q \in Nat /\ q >= TwoTo(v)
  <2>1. TwoTo(v) \in {1, 2, 4, 8, 16, 32}
    BY SMT DEF TwoTo
  <2>2. CASE BaseTrigger(function) = 250
    BY <2>1, <2>2, SMT
  <2>3. CASE BaseTrigger(function) = 400
    BY <2>1, <2>3, SMT
  <2> QED BY <1>1, <2>2, <2>3
<1> HIDE DEF q
<1>3. \E k \in 0..5 : P(k)
  <2>1. q >= 1
    BY <1>2, SMT DEF TwoTo
  <2>2. CASE q >= 32
    BY <2>2, <1>2, SMT DEF TwoTo
  <2>3. CASE q < 32
    <3>1. P(0) \/ P(1) \/ P(2) \/ P(3) \/ P(4)
      BY <2>1, <2>3, <1>2, SMT DEF TwoTo
    <3> QED BY <3>1
  <2> QED BY <2>2, <2>3, <1>2, SMT
<1>4. ErrorLevel(size, function) = CHOOSE k \in 0..5 : P(k)
  BY DEF ErrorLevel, q
<1> DEFINE level == ErrorLevel(size, function)
<1>5. level \in 0..5 /\ P(level)
  BY <1>3, <1>4
<1> HIDE DEF level
<1>6. level >= v
  BY <1>5, <1>2, SMT DEF TwoTo
<1>7. /\ TwoTo(level) * BaseTrigger(function) <= size
      /\ level < 5 => size < TwoTo(level + 1) * BaseTrigger(function)
  <2>1. TwoTo(level) \in Nat /\ (level < 5 => TwoTo(level + 1) \in Nat)
    BY <1>5, SMT DEF TwoTo
  <2>2. CASE BaseTrigger(function) = 250
    BY <1>5, <2>1, <2>2, SMT DEF q
  <2>3. CASE BaseTrigger(function) = 400
    BY <1>5, <2>1, <2>3, SMT DEF q
  <2> QED BY <1>1, <2>2, <2>3
<1> QED BY <1>5, <1>6, <1>7 DEF level

(* TypeOK of every file: the counts are numbers, no function is counted    *)
(* without a name, and reports are of lines of the file.                   *)
THEOREM TypesOfLengths == Spec => []TypeOK
<1>1. Init => TypeOK
  <2> SUFFICES ASSUME Init PROVE TypeOK
    OBVIOUS
  <2>1. lines \in Seq(Lines) /\ Len(lines) = 0
    BY DEF Init
  <2>2. in_a_function \in BOOLEAN
    BY Zenon DEF Init
  <2> QED BY <2>1, <2>2 DEF Init, TypeOK
<1>2. TypeOK /\ [Next]_vars => TypeOK'
  <2> SUFFICES ASSUME TypeOK, [Next]_vars PROVE TypeOK'
    OBVIOUS
  <2> USE VerbosityAssumption, LineAssumption DEF TypeOK, state
  <2>0. Len(lines) \in Nat
    OBVIOUS
  <2>1. CASE Write
    <3> USE <2>1 DEF Write
    <3>1. PICK line \in Lines : lines' = Append(lines, line)
      OBVIOUS
    <3>2. lines' \in Seq(Lines) /\ Len(lines') = Len(lines) + 1
      BY <3>1
    <3> QED BY <2>0, <3>2
  <2>2. CASE ProcessFile
    BY <2>0, <2>2 DEF ProcessFile
  <2> DEFINE line == lines[linenum]
  <2>3. ASSUME NextLine
        PROVE  /\ linenum' \in 0..(Len(lines') + 1) /\ lines' \in Seq(Lines)
               /\ linenum \in 1..Len(lines') /\ lines' = lines
               /\ line \in [starts : {"no", "plain", "test"},
                            holds : {"end", "brace", "neither"}, closes : BOOLEAN, times : Nat]
    BY <2>0, <2>3 DEF NextLine
  <2>4. CASE StartFunction
    <3> USE <2>4, <2>3 DEF StartFunction, NextLine
    <3>1. line.starts \in {"plain", "test"}
      BY DEF Starts
    <3>2. /\ in_a_function' \in BOOLEAN /\ lines_in_function' \in Nat
          /\ current_function' \in {"no", "plain", "test"}
          /\ in_a_function' => current_function' # "no"
      <4>1. CASE HasBody(linenum)
        <5>1. in_a_function' = TRUE /\ lines_in_function' = 0 /\ current_function' = line.starts
          BY <4>1, Zenon DEF Begin
        <5> QED BY <3>1, <5>1
      <4>2. CASE ~HasBody(linenum)
        <5>1. UNCHANGED <<in_a_function, lines_in_function, current_function>>
          BY <4>2, Zenon
        <5> QED BY <5>1
      <4> QED BY <4>1, <4>2
    <3>3. reports' \subseteq [check : {"size", "body"}, line : 1..Len(lines'), level : 0..5]
      BY SMT
    <3> QED BY <3>2, <3>3
  <2>5. CASE EndFunction
    <3> USE <2>5, <2>3 DEF EndFunction, NextLine
    <3>1. /\ in_a_function' = FALSE /\ lines_in_function' \in Nat
          /\ current_function' \in {"no", "plain", "test"}
      BY DEF End
    <3>2. ASSUME lines_in_function > Trigger(current_function)
          PROVE  ErrorLevel(lines_in_function, current_function) \in 0..5
      BY <3>2, LevelOfSize DEF Trigger
    <3>3. reports' \subseteq [check : {"size", "body"}, line : 1..Len(lines'), level : 0..5]
      BY <3>2, SMT DEF Check
    <3> QED BY <3>1, <3>3
  <2>6. CASE CountLine
    <3> USE <2>6, <2>3 DEF CountLine, NextLine
    <3>1. /\ in_a_function' = in_a_function /\ lines_in_function' \in Nat
          /\ current_function' = current_function
      <4>1. line.times \in Nat
        OBVIOUS
      <4> QED BY <4>1, SMT DEF Count
    <3> QED BY <3>1
  <2>7. CASE UNCHANGED vars
    BY <2>7 DEF vars
  <2> QED BY <2>1, <2>2, <2>4, <2>5, <2>6, <2>7 DEF Next
<1> QED BY <1>1, <1>2, PTL DEF Spec

(* What Check reports is printed at every level of --verbose the usage     *)
(* text allows, for every file.                                            *)
THEOREM LongFunctionsArePrinted == Spec => []AlwaysPrinted
<1>1. Init => AlwaysPrinted
  BY DEF Init, AlwaysPrinted
<1>2. TypeOK /\ AlwaysPrinted /\ [Next]_vars => AlwaysPrinted'
  <2> SUFFICES ASSUME TypeOK, AlwaysPrinted, [Next]_vars PROVE AlwaysPrinted'
    OBVIOUS
  <2>0. verbose_level \in 0..5 /\ lines_in_function \in Nat
    BY VerbosityAssumption DEF TypeOK
  <2>1. CASE StartFunction
    BY <2>0, <2>1 DEF AlwaysPrinted, StartFunction, NextLine
  <2>2. CASE EndFunction
    <3> USE <2>2 DEF EndFunction, NextLine
    <3>1. ASSUME lines_in_function > Trigger(current_function)
          PROVE  ErrorLevel(lines_in_function, current_function) >= verbose_level
      BY <2>0, <3>1, LevelOfSize DEF Trigger
    <3> QED BY <3>1 DEF Check, AlwaysPrinted
  <2>3. CASE UNCHANGED <<verbose_level, reports>>
    BY <2>3 DEF AlwaysPrinted
  <2>4. CASE Write \/ ProcessFile \/ CountLine \/ UNCHANGED vars
    BY <2>3, <2>4 DEF Write, ProcessFile, CountLine, NextLine, vars
  <2> QED BY <2>1, <2>2, <2>4 DEF Next
<1> QED BY <1>1, <1>2, TypesOfLengths, PTL DEF Spec

-----------------------------------------------------------------------------
(* Sums of lines                                                           *)

(* Every non-empty set of numbers has a least element.                     *)
LEMMA LeastNatural ==
  ASSUME NEW T, T \subseteq Nat, T # {}
  PROVE  \E x \in T : \A y \in T : x <= y
<1> DEFINE R == {p \in Nat \X Nat : p[1] < p[2]}
<1>1. IsWellFoundedOn(R, Nat)
  BY NatLessThanWellFounded DEF OpToRel
<1>2. PICK x \in T : \A y \in T : ~(<<y, x>> \in R)
  <2> HIDE DEF R
  <2> QED BY <1>1, WFMin
<1>3. \A y \in T : ~(y < x)
  BY <1>2
<1> QED BY <1>3, SMT

(* f holds the sums of t up to n.                                          *)
Sums(f, t, n) ==
  /\ f \in [0..n -> Nat]
  /\ f[0] = 0
  /\ \A m \in 1..n : f[m] = f[m - 1] + t[m]

(* There are sums of any number of numbers.                                *)
LEMMA SumsExist ==
  ASSUME NEW L \in Nat, NEW t \in [1..L -> Nat]
  PROVE  \E f : Sums(f, t, L)
<1> DEFINE T == {n \in 0..L : \A f : ~Sums(f, t, n)}
<1> SUFFICES ASSUME ~\E f : Sums(f, t, L) PROVE FALSE
  OBVIOUS
<1>1. L \in T
  OBVIOUS
<1>2. PICK n \in T : \A y \in T : n <= y
  <2>1. T \subseteq Nat
    OBVIOUS
  <2>2. L \in T
    BY <1>1
  <2> HIDE DEF T
  <2> QED BY <2>1, <2>2, LeastNatural
<1>3. n \in 0..L /\ \A f : ~Sums(f, t, n)
  BY <1>2
<1>4. n # 0
  <2> DEFINE f == [m \in {0} |-> 0]
  <2>1. f \in [0..0 -> Nat] /\ f[0] = 0 /\ \A m \in 1..0 : FALSE
    OBVIOUS
  <2> HIDE DEF f
  <2>2. Sums(f, t, 0)
    BY <2>1 DEF Sums
  <2> QED BY <1>3, <2>2
<1>5. n - 1 \in 0..L /\ n - 1 \in Nat /\ n \in 1..L
  BY <1>3, <1>4
<1>6. ~(n - 1 \in T)
  BY <1>2, <1>5
<1>7. PICK g : Sums(g, t, n - 1)
  BY <1>5, <1>6
<1>8. /\ g \in [0..(n - 1) -> Nat] /\ g[0] = 0
      /\ \A m \in 1..(n - 1) : g[m] = g[m - 1] + t[m]
  BY <1>7 DEF Sums
<1>9. g[n - 1] \in Nat /\ t[n] \in Nat
  BY <1>5, <1>8
<1> DEFINE f == [m \in 0..n |-> IF m = n THEN g[n - 1] + t[n] ELSE g[m]]
<1>10. /\ f \in [0..n -> Nat] /\ f[n] = g[n - 1] + t[n]
       /\ \A m \in 0..(n - 1) : f[m] = g[m]
  <2>1. \A m \in 0..n : m = n \/ m \in 0..(n - 1)
    BY <1>5
  <2>2. n \in 0..n /\ \A m \in 0..(n - 1) : m \in 0..n /\ m # n
    BY <1>5
  <2> QED BY <1>8, <1>9, <2>1, <2>2
<1> HIDE DEF f, T
<1>11. Sums(f, t, n)
  <2>1. f[0] = 0
    BY <1>5, <1>8, <1>10
  <2>2. ASSUME NEW m \in 1..n PROVE f[m] = f[m - 1] + t[m]
    <3>1. m - 1 \in 0..(n - 1) /\ (m = n \/ (m \in 1..(n - 1) /\ m \in 0..(n - 1)))
      BY <1>5
    <3> QED BY <1>8, <1>10, <3>1
  <2> QED BY <1>10, <2>1, <2>2 DEF Sums
<1> QED BY <1>3, <1>11

(* The lines counted up to one are such sums.                              *)
LEMMA CountedSums ==
  ASSUME TypeOK
  PROVE  Len(lines) \in Nat /\ Sums(Counted, Weight, Len(lines))
<1>1. lines \in Seq(Lines)
  BY DEF TypeOK
<1>2. PICK L \in Nat : L = Len(lines)
  BY <1>1
<1>3. Weight \in [1..L -> Nat]
  <2>1. \A m \in 1..L : lines[m].times \in Nat
    BY <1>1, <1>2, LineAssumption
  <2> QED BY <1>2, <2>1 DEF Weight
<1> DEFINE IsCount(f) == f = [m \in 0..L |-> IF m = 0 THEN 0 ELSE f[m - 1] + Weight[m]]
<1>4. PICK g : Sums(g, Weight, L)
  BY <1>3, SumsExist
<1>5. IsCount(g)
  <2>1. g \in [0..L -> Nat] /\ g[0] = 0 /\ \A m \in 1..L : g[m] = g[m - 1] + Weight[m]
    BY <1>4 DEF Sums
  <2>2. \A m \in 0..L : m = 0 \/ m \in 1..L
    OBVIOUS
  <2>3. \A m \in 0..L : g[m] = IF m = 0 THEN 0 ELSE g[m - 1] + Weight[m]
    BY <2>1, <2>2
  <2> QED BY <2>1, <2>3
<1>6. IsCount(Counted)
  <2>1. Counted = CHOOSE f : IsCount(f)
    BY <1>2 DEF Counted
  <2> HIDE DEF IsCount
  <2> QED BY <1>5, <2>1
<1> HIDE DEF IsCount
<1>7. /\ Counted = [m \in DOMAIN Counted |-> Counted[m]] /\ DOMAIN Counted = 0..L
      /\ Counted[0] = 0
      /\ \A m \in 1..L : Counted[m] = Counted[m - 1] + Weight[m]
  <2>1. Counted = [m \in 0..L |-> IF m = 0 THEN 0 ELSE Counted[m - 1] + Weight[m]]
    BY <1>6 DEF IsCount
  <2> QED BY <2>1
<1>8. \A m \in 0..L : Counted[m] \in Nat
  <2> DEFINE T == {m \in 0..L : Counted[m] \notin Nat}
  <2> SUFFICES ASSUME T # {} PROVE FALSE
    OBVIOUS
  <2>1. T \subseteq Nat
    OBVIOUS
  <2>2. PICK n \in T : \A y \in T : n <= y
    <3> HIDE DEF T
    <3> QED BY <2>1, LeastNatural
  <2>3. n \in 1..L /\ n - 1 \in 0..L
    BY <1>7, <2>2
  <2>4. Counted[n - 1] \in Nat
    BY <2>2, <2>3
  <2> QED BY <1>3, <1>7, <2>2, <2>3, <2>4
<1>9. Counted \in [0..L -> Nat]
  BY <1>7, <1>8
<1> QED BY <1>2, <1>7, <1>9 DEF Sums

-----------------------------------------------------------------------------
(* Where functions begin and end                                           *)

Begins == {n \in 1..Len(lines) : Starts(n) /\ HasBody(n)}
Closings == {n \in 1..Len(lines) : ~Starts(n) /\ lines[n].closes}

(* Neither set has a line behind n and ahead of c.                         *)
Between(n, c) == \A m \in (n + 1)..(c - 1) : m \notin Begins /\ m \notin Closings

(* A line of the file is what LineAssumption says of it.                   *)
LEMMA LineIsOne ==
  ASSUME TypeOK, NEW n \in 1..Len(lines)
  PROVE  /\ lines[n].starts \in {"no", "plain", "test"}
         /\ lines[n].closes \in BOOLEAN
         /\ lines[n].times \in Nat
<1>1. lines[n] \in Lines
  BY DEF TypeOK
<1> QED BY <1>1, LineAssumption

(* A line does not end what is open unless it begins or closes something.  *)
LEMMA PassesLine ==
  ASSUME TypeOK, NEW m \in 1..Len(lines)
  PROVE  (IF Starts(m) THEN ~HasBody(m) ELSE ~lines[m].closes)
           <=> m \notin Begins /\ m \notin Closings
BY Zenon DEF Begins, Closings

(* Nor do several.                                                         *)
LEMMA PassesLines ==
  ASSUME TypeOK, NEW n \in 1..Len(lines), NEW c \in 0..(Len(lines) + 1)
  PROVE  (\A m \in (n + 1)..(c - 1) : IF Starts(m) THEN ~HasBody(m) ELSE ~lines[m].closes)
           <=> Between(n, c)
<1>1. Len(lines) \in Nat
  BY DEF TypeOK
<1>2. \A m \in (n + 1)..(c - 1) : m \in 1..Len(lines)
  BY <1>1
<1> QED BY <1>2, PassesLine, Zenon DEF Between

(* Functions and what is open, told with the two sets.                     *)
LEMMA OpenInSets ==
  ASSUME TypeOK, NEW n \in 1..Len(lines)
  PROVE  /\ OpenSince(n) <=> n \in Begins /\ Between(n, linenum)
         /\ \A c \in 1..Len(lines) :
              Function(n, c) <=> n < c /\ n \in Begins /\ c \in Closings /\ Between(n, c)
<1>1. Len(lines) \in Nat /\ linenum \in 0..(Len(lines) + 1)
  BY DEF TypeOK
<1>2. n \in Begins <=> Starts(n) /\ HasBody(n)
  BY DEF Begins
<1>4. OpenSince(n) <=> n \in Begins /\ Between(n, linenum)
  BY <1>1, <1>2, PassesLines, Zenon DEF OpenSince
<1>5. ASSUME NEW c \in 1..Len(lines)
      PROVE  Function(n, c) <=> n < c /\ n \in Begins /\ c \in Closings /\ Between(n, c)
  <2>1. c \in Closings <=> ~Starts(c) /\ lines[c].closes
    BY Zenon DEF Closings
  <2>2. c \in 0..(Len(lines) + 1)
    BY <1>1
  <2>3. (\A m \in (n + 1)..(c - 1) : IF Starts(m) THEN ~HasBody(m) ELSE ~lines[m].closes)
          <=> Between(n, c)
    BY <2>2, PassesLines
  <2> QED BY <1>2, <2>1, <2>3, Zenon DEF Function
<1> QED BY <1>4, <1>5

(* A line begins a function or closes one, not both.                       *)
LEMMA BeginsOrCloses ==
  \A n : ~(n \in Begins /\ n \in Closings)
BY Zenon DEF Begins, Closings

(* What is said of lines of a file stays so while the file does.           *)
LEMMA FileStays ==
  ASSUME lines' = lines, verbose_level' = verbose_level
  PROVE  /\ Begins' = Begins
         /\ Closings' = Closings
         /\ Counted' = Counted
         /\ \A n : (Starts(n)' <=> Starts(n)) /\ (HasBody(n)' <=> HasBody(n))
         /\ \A n, c : Function(n, c)' <=> Function(n, c)
         /\ \A n, c : Size(n, c)' = Size(n, c)
         /\ \A n : Trigger(lines[n].starts)' = Trigger(lines[n].starts)
<1>1. \A n : (Starts(n)' <=> Starts(n)) /\ (HasBody(n)' <=> HasBody(n))
  BY Zenon DEF Starts, HasBody, BodyStarts
<1>2. Begins' = Begins /\ Closings' = Closings
  BY <1>1, Zenon DEF Begins, Closings
<1>3. Weight' = Weight
  BY Zenon DEF Weight, Starts
<1>4. Counted' = Counted
  BY <1>3, Zenon DEF Counted
<1>5. \A n, c : Size(n, c)' = Size(n, c)
  BY <1>4, Zenon DEF Size
<1>6. \A n, c : Function(n, c)' <=> Function(n, c)
  BY <1>1, Zenon DEF Function
<1>7. \A n : Trigger(lines[n].starts)' = Trigger(lines[n].starts)
  BY Zenon DEF Trigger, BaseTrigger
<1> QED BY <1>1, <1>2, <1>4, <1>5, <1>6, <1>7

(* The sizes of what is open when a line is read.                          *)
LEMMA SizeGrows ==
  ASSUME TypeOK, linenum \in 1..Len(lines)
  PROVE  /\ Size(linenum, linenum + 1) = 0
         /\ \A n \in 1..(linenum - 1) :
              /\ Size(n, linenum) \in Int
              /\ Size(n, linenum + 1) = Size(n, linenum)
                   + (IF Starts(linenum) THEN 0 ELSE lines[linenum].times)
<1>1. PICK L \in Nat : L = Len(lines)
  BY CountedSums
<1>2. /\ Counted \in [0..L -> Nat]
      /\ \A m \in 1..L : Counted[m] = Counted[m - 1] + Weight[m]
  BY <1>1, CountedSums DEF Sums
<1>3. Weight[linenum] = IF Starts(linenum) THEN 0 ELSE lines[linenum].times
  BY DEF Weight
<1>4. Weight[linenum] \in Nat
  BY <1>3, LineIsOne
<1>5. linenum \in 1..L /\ (linenum + 1) - 1 = linenum
  BY <1>1
<1>6. Size(linenum, linenum + 1) = 0
  BY <1>2, <1>5 DEF Size
<1>7. ASSUME NEW n \in 1..(linenum - 1)
      PROVE  /\ Size(n, linenum) \in Int
             /\ Size(n, linenum + 1) = Size(n, linenum) + Weight[linenum]
  <2>1. n \in 0..L /\ linenum - 1 \in 0..L /\ linenum \in 0..L
    BY <1>5
  <2>2. Counted[n] \in Nat /\ Counted[linenum - 1] \in Nat
        /\ Counted[linenum] = Counted[linenum - 1] + Weight[linenum]
    BY <1>2, <1>5, <2>1
  <2> QED BY <1>4, <1>5, <2>2 DEF Size
<1> QED BY <1>3, <1>6, <1>7

-----------------------------------------------------------------------------
(* The inductive invariant                                                 *)

(* There is nothing to tell of the empty file.                             *)
LEMMA InitLengths == Init => LengthsInv
<1> SUFFICES ASSUME Init PROVE LengthsInv
  OBVIOUS
<1>1. linenum = 0 /\ reports = {} /\ (\A n \in 1..(linenum - 1) : FALSE)
  BY DEF Init
<1>2. ~in_a_function
  BY Zenon DEF Init
<1>3. Counting
  BY <1>1, <1>2, Zenon DEF Counting
<1>4. LongFunctionsReported
  BY <1>1, Zenon DEF LongFunctionsReported
<1> QED BY <1>1, <1>3, <1>4, Zenon DEF LengthsInv

(* Before the first line is read there is nothing to tell.                 *)
LEMMA NothingRead ==
  ASSUME TypeOK, LengthsInv, linenum = 0, linenum' \in {0, 1}, UNCHANGED <<state, reports>>
  PROVE  LengthsInv'
<1>1. reports = {}
  <2>1. ASSUME NEW r \in reports PROVE FALSE
    <3>1. r.line < 0
      BY <2>1 DEF LengthsInv
    <3>2. r.line \in Nat
      <4>1. Len(lines) \in Nat
        BY DEF TypeOK
      <4> QED BY <2>1, <4>1 DEF TypeOK
    <3> QED BY <3>1, <3>2
  <2> QED BY <2>1
<1>2. reports' = {}
  BY <1>1
<1>3. ~in_a_function
  <2>1. \A n \in 1..(linenum - 1) : FALSE
    OBVIOUS
  <2> QED BY <2>1, Zenon DEF LengthsInv, Counting
<1>4. in_a_function' = in_a_function
  BY Zenon DEF state
<1>5. \A n \in 1..(linenum' - 1) : FALSE
  <2>1. PICK k \in {0, 1} : k = linenum'
    OBVIOUS
  <2>2. \A n \in 1..(k - 1) : FALSE
    BY SMT
  <2> QED BY <2>1, <2>2, Zenon
<1>6. Counting'
  BY <1>3, <1>4, <1>5, Zenon DEF Counting
<1>7. LongFunctionsReported'
  BY <1>2, <1>5, Zenon DEF LongFunctionsReported
<1> QED BY <1>2, <1>6, <1>7, Zenon DEF LengthsInv

(* A function that is open stays open over a line that begins and closes   *)
(* nothing, and what begins on the line is open behind it.                 *)
LEMMA OpenAfterLine ==
  ASSUME TypeOK, NextLine
  PROVE  /\ \A n \in 1..(linenum - 1) :
              OpenSince(n)' <=> OpenSince(n) /\ linenum \notin Begins /\ linenum \notin Closings
         /\ \A n \in {linenum} : OpenSince(n)' <=> n \in Begins
<1> USE DEF NextLine
<1>1. PICK L \in Nat : L = Len(lines)
  BY DEF TypeOK
<1>2. PICK l \in 1..L : l = linenum
  BY <1>1
<1>3. PICK B, E : B = Begins /\ E = Closings
  OBVIOUS
<1>5. ASSUME NEW n \in 1..l
      PROVE  /\ OpenSince(n) <=> n \in B /\ \A m \in (n + 1)..(l - 1) : m \notin B /\ m \notin E
             /\ OpenSince(n)' <=> n \in B /\ \A m \in (n + 1)..l : m \notin B /\ m \notin E
  <2>1. n \in 1..Len(lines)
    BY <1>1, <1>2
  <2>2. OpenSince(n) <=> n \in Begins /\ Between(n, linenum)
    BY <2>1, OpenInSets
  <2>3. linenum + 1 \in 0..(Len(lines) + 1) /\ linenum' = linenum + 1
    BY <1>1, <1>2
  <2>4. OpenSince(n)' <=> n \in Begins /\ Between(n, linenum + 1)
    <3>1. OpenSince(n)' <=>
            /\ Starts(n) /\ HasBody(n)
            /\ \A m \in (n + 1)..((linenum + 1) - 1) :
                 IF Starts(m) THEN ~HasBody(m) ELSE ~lines[m].closes
      BY <2>3, FileStays, Zenon DEF OpenSince
    <3>2. n \in Begins <=> Starts(n) /\ HasBody(n)
      BY <2>1, Zenon DEF Begins
    <3> QED BY <2>1, <2>3, <3>1, <3>2, PassesLines, Zenon
  <2>5. Between(n, linenum) <=> \A m \in (n + 1)..(l - 1) : m \notin B /\ m \notin E
    BY <1>2, <1>3, Zenon DEF Between
  <2>6. Between(n, linenum + 1) <=> \A m \in (n + 1)..l : m \notin B /\ m \notin E
    <3>1. (linenum + 1) - 1 = l
      BY <1>2
    <3> QED BY <1>3, <3>1, Zenon DEF Between
  <2>7. n \in Begins <=> n \in B
    BY <1>3
  <2>8. OpenSince(n) <=> n \in B /\ \A m \in (n + 1)..(l - 1) : m \notin B /\ m \notin E
    BY <2>2, <2>5, <2>7, Zenon
  <2>9. OpenSince(n)' <=> n \in B /\ \A m \in (n + 1)..l : m \notin B /\ m \notin E
    BY <2>4, <2>6, <2>7, Zenon
  <2> QED BY <2>8, <2>9, Zenon
<1>6. ASSUME NEW n \in 1..(linenum - 1)
      PROVE  OpenSince(n)' <=> OpenSince(n) /\ linenum \notin Begins /\ linenum \notin Closings
  <2>1. n \in 1..l
    BY <1>2
  <2>2. (\A m \in (n + 1)..l : m \notin B /\ m \notin E)
          <=> /\ \A m \in (n + 1)..(l - 1) : m \notin B /\ m \notin E
              /\ l \notin B /\ l \notin E
    <3>1. l \in (n + 1)..l /\ \A m \in (n + 1)..l : m = l \/ m \in (n + 1)..(l - 1)
      BY <1>2
    <3>2. \A m \in (n + 1)..(l - 1) : m \in (n + 1)..l
      BY <1>2
    <3> QED BY <3>1, <3>2, Zenon
  <2> QED BY <1>2, <1>3, <1>5, <2>1, <2>2, Zenon
<1>7. ASSUME NEW n \in {linenum} PROVE OpenSince(n)' <=> n \in Begins
  <2>1. n \in 1..l /\ \A m \in (n + 1)..l : FALSE
    BY <1>2
  <2> QED BY <1>3, <1>5, <2>1, Zenon
<1> QED BY <1>6, <1>7, Zenon

(* Counting behind a line, told with the file and the line.                *)
LEMMA CountingTold ==
  ASSUME TypeOK, NextLine
  PROVE  Counting' <=>
           IF in_a_function'
           THEN \E n \in 1..linenum : /\ OpenSince(n)'
                                      /\ current_function' = lines[n].starts
                                      /\ lines_in_function' = Size(n, linenum + 1)
           ELSE \A n \in 1..linenum : ~OpenSince(n)'
<1> USE DEF NextLine
<1>1. linenum' = linenum + 1 /\ linenum' - 1 = linenum
  BY DEF TypeOK
<1>2. Counted' = Counted
  BY FileStays
<1>3. \A n : Size(n, linenum)' = Size(n, linenum + 1)
  BY <1>1, <1>2, Zenon DEF Size
<1> QED BY <1>1, <1>3, Zenon DEF Counting

(* What is read behind the lines that were.                                *)
LEMMA LinesRead ==
  ASSUME TypeOK, NextLine
  PROVE  /\ \A n \in 1..linenum : n = linenum \/ n \in 1..(linenum - 1)
         /\ \A n \in 1..(linenum - 1) : n \in 1..linenum
         /\ linenum \in 1..linenum
<1>1. linenum \in Nat /\ linenum >= 1
  BY DEF TypeOK, NextLine
<1> QED BY <1>1

(* On a line that neither begins nor closes a function what is open stays  *)
(* open, and its size grows by what was counted.                           *)
LEMMA CountedOn ==
  ASSUME TypeOK, Counting, NextLine, linenum \notin Begins, linenum \notin Closings,
         in_a_function' = in_a_function, current_function' = current_function,
         in_a_function => lines_in_function' = lines_in_function
                            + (IF Starts(linenum) THEN 0 ELSE lines[linenum].times)
  PROVE  Counting'
<1>1. linenum \in 1..Len(lines)
  BY DEF NextLine
<1>2. \A n \in 1..(linenum - 1) : OpenSince(n)' <=> OpenSince(n)
  BY OpenAfterLine, Zenon
<1>3. \A n \in {linenum} : ~OpenSince(n)'
  BY OpenAfterLine, Zenon
<1>4. CASE in_a_function
  <2>1. PICK n \in 1..(linenum - 1) :
          /\ OpenSince(n)
          /\ current_function = lines[n].starts
          /\ lines_in_function = Size(n, linenum)
    BY <1>4, Zenon DEF Counting
  <2>2. lines_in_function' = Size(n, linenum + 1)
    BY <1>1, <1>4, <2>1, SizeGrows, Zenon
  <2> QED BY <1>2, <1>4, <2>1, <2>2, CountingTold, LinesRead, Zenon
<1>5. CASE ~in_a_function
  <2>1. \A n \in 1..(linenum - 1) : ~OpenSince(n)
    BY <1>5, Zenon DEF Counting
  <2>2. \A n \in 1..linenum : ~OpenSince(n)'
    BY <1>2, <1>3, <2>1, LinesRead, Zenon
  <2> QED BY <1>5, <2>2, CountingTold, Zenon
<1> QED BY <1>4, <1>5, Zenon

(* Counting is kept by every line that is read.                            *)
LEMMA CountingKept ==
  ASSUME TypeOK, Counting, StartFunction \/ EndFunction \/ CountLine
  PROVE  Counting'
<1>0. NextLine /\ linenum \in 1..Len(lines) /\ lines_in_function \in Nat
  BY Zenon DEF StartFunction, EndFunction, CountLine, NextLine, TypeOK
<1>1. CASE StartFunction /\ HasBody(linenum)
  <2>1. linenum \in Begins
    BY <1>0, <1>1, Zenon DEF StartFunction, Begins
  <2>2. /\ in_a_function' = TRUE /\ lines_in_function' = 0
        /\ current_function' = lines[linenum].starts
    BY <1>1, Zenon DEF StartFunction, Begin
  <2>3. \A n \in {linenum} : OpenSince(n)'
    BY <1>0, <2>1, OpenAfterLine, Zenon
  <2>4. Size(linenum, linenum + 1) = 0
    BY <1>0, SizeGrows
  <2> QED BY <1>0, <2>2, <2>3, <2>4, CountingTold, LinesRead, Zenon
<1>2. CASE StartFunction /\ ~HasBody(linenum)
  <2>1. linenum \notin Begins /\ linenum \notin Closings /\ Starts(linenum)
    BY <1>0, <1>2, Zenon DEF StartFunction, Begins, Closings
  <2>2. UNCHANGED <<in_a_function, lines_in_function, current_function>>
    BY <1>2, Zenon DEF StartFunction, state
  <2>3. lines_in_function' = lines_in_function
                               + (IF Starts(linenum) THEN 0 ELSE lines[linenum].times)
    <3>1. lines_in_function' = lines_in_function + 0
      BY <1>0, <2>2
    <3> QED BY <2>1, <3>1, Zenon
  <2> QED BY <1>0, <2>1, <2>2, <2>3, CountedOn, Zenon
<1>3. CASE EndFunction
  <2>1. linenum \notin Begins /\ linenum \in Closings
    BY <1>0, <1>3, Zenon DEF EndFunction, Begins, Closings
  <2>2. in_a_function' = FALSE
    BY <1>3, Zenon DEF EndFunction, End
  <2>3. \A n \in 1..linenum : ~OpenSince(n)'
    BY <1>0, <2>1, OpenAfterLine, LinesRead, Zenon
  <2> QED BY <1>0, <2>2, <2>3, CountingTold, Zenon
<1>4. CASE CountLine
  <2>1. linenum \notin Begins /\ linenum \notin Closings /\ ~Starts(linenum)
    BY <1>0, <1>4, Zenon DEF CountLine, Begins, Closings
  <2>2. /\ in_a_function' = in_a_function /\ current_function' = current_function
        /\ in_a_function => lines_in_function' = lines_in_function + lines[linenum].times
    BY <1>4, Zenon DEF CountLine, Count
  <2> QED BY <1>0, <2>1, <2>2, CountedOn, Zenon
<1> QED BY <1>1, <1>2, <1>3, <1>4, Zenon

-----------------------------------------------------------------------------
(* The reports                                                             *)

(* No two functions are open: the later one would have ended the earlier.  *)
LEMMA OneIsOpen ==
  ASSUME TypeOK, linenum \in 1..Len(lines),
         NEW n \in 1..(linenum - 1), NEW m \in 1..(linenum - 1), OpenSince(n), OpenSince(m)
  PROVE  n = m
<1>1. n \in 1..Len(lines) /\ m \in 1..Len(lines)
  BY DEF TypeOK
<1>2. n \in Begins /\ m \in Begins /\ Between(n, linenum) /\ Between(m, linenum)
  BY <1>1, OpenInSets, Zenon
<1>3. m \notin (n + 1)..(linenum - 1) /\ n \notin (m + 1)..(linenum - 1)
  BY <1>2, Zenon DEF Between
<1> QED BY <1>3

(* A line closes the function that is open ahead of it.                    *)
LEMMA ClosedIsOpen ==
  ASSUME TypeOK, linenum \in 1..Len(lines), NEW c \in {linenum}, NEW n \in 1..c
  PROVE  Function(n, c) <=> n \in 1..(linenum - 1) /\ OpenSince(n) /\ c \in Closings
<1>1. n \in 1..Len(lines) /\ c \in 1..Len(lines) /\ (n < c <=> n \in 1..(linenum - 1))
  BY DEF TypeOK
<1> QED BY <1>1, OpenInSets, Zenon

(* A line that is read adds reports of that line only.                     *)
LEMMA ReportsStay ==
  ASSUME TypeOK, NextLine, NEW new, reports' = reports \cup new,
         \A r \in new : r.line = linenum, NEW c \in 1..(linenum - 1), ReportedAt(c)
  PROVE  ReportedAt(c)'
<1> DEFINE long == {n \in 1..c : Function(n, c) /\ Size(n, c) > Trigger(lines[n].starts)}
<1> DEFINE here == {r \in reports : r.check = "size" /\ r.line = c}
<1>0. lines' = lines /\ verbose_level' = verbose_level
  BY DEF NextLine
<1>1. long' = long
  BY <1>0, FileStays, Zenon
<1>2. here' = here
  <2>1. linenum # c
    BY DEF NextLine
  <2> QED BY <2>1
<1>3. \A n : Size(n, c)' = Size(n, c) /\ BaseTrigger(lines[n].starts)' = BaseTrigger(lines[n].starts)
  BY <1>0, FileStays, Zenon DEF BaseTrigger
<1> QED BY <1>0, <1>1, <1>2, <1>3, Zenon DEF ReportedAt

(* What is reported on the line that is read.                              *)
LEMMA ReportedHere ==
  ASSUME TypeOK, Counting, \A r \in reports : r.line < linenum, NextLine,
         NEW new, reports' = reports \cup new,
         \/ /\ linenum \notin Closings
            /\ \A r \in new : r.check # "size"
         \/ /\ linenum \in Closings
            /\ IF in_a_function /\ lines_in_function > Trigger(current_function)
               THEN new = {[check |-> "size", line |-> linenum,
                            level |-> ErrorLevel(lines_in_function, current_function)]}
               ELSE new = {},
         NEW c \in {linenum}
  PROVE  ReportedAt(c)'
<1> DEFINE long == {n \in 1..c : Function(n, c) /\ Size(n, c) > Trigger(lines[n].starts)}
<1> DEFINE here == {r \in new : r.check = "size" /\ r.line = c}
<1>0. lines' = lines /\ verbose_level' = verbose_level /\ linenum \in 1..Len(lines)
  BY DEF NextLine
<1>1. \A r \in reports : r.line # c
  <2>1. \A r \in reports : r.line \in Int
    BY DEF TypeOK
  <2>2. c \in Int
    BY DEF TypeOK
  <2> QED BY <2>1, <2>2
<1>2. {r \in reports' : r.check = "size" /\ r.line = c} = here
  BY <1>1
<1>3. /\ {n \in 1..c : Function(n, c)' /\ Size(n, c)' > Trigger(lines[n].starts)'} = long
      /\ \A n : Size(n, c)' = Size(n, c) /\ BaseTrigger(lines[n].starts)' = BaseTrigger(lines[n].starts)
  BY <1>0, FileStays, Zenon DEF BaseTrigger
<1>4. SUFFICES
        /\ Cardinality(here) = Cardinality(long)
        /\ \A n \in long, r \in here :
             /\ TwoTo(r.level) * BaseTrigger(lines[n].starts) <= Size(n, c)
             /\ r.level < 5 => Size(n, c) < TwoTo(r.level + 1) * BaseTrigger(lines[n].starts)
  BY <1>2, <1>3, Zenon DEF ReportedAt
<1>5. \A n \in 1..c :
        Function(n, c) <=> n \in 1..(linenum - 1) /\ OpenSince(n) /\ c \in Closings
  BY <1>0, ClosedIsOpen
<1> HIDE DEF here, long
<1>6. CASE here = {} /\ long = {}
  BY <1>6, FS_EmptySet
<1>7. CASE linenum \notin Closings
  <2>1. here = {}
    BY <1>7 DEF here
  <2>2. long = {}
    BY <1>5, <1>7, Zenon DEF long
  <2> QED BY <1>6, <2>1, <2>2
<1>8. CASE linenum \in Closings /\ ~in_a_function
  <2>1. here = {}
    <3>1. new = {}
      BY <1>8, Zenon
    <3> QED BY <3>1 DEF here
  <2>2. long = {}
    BY <1>5, <1>8, Zenon DEF long, Counting
  <2> QED BY <1>6, <2>1, <2>2
<1>9. CASE linenum \in Closings /\ in_a_function
  <2>1. PICK n \in 1..(linenum - 1) :
          /\ OpenSince(n)
          /\ current_function = lines[n].starts
          /\ lines_in_function = Size(n, linenum)
    BY <1>9, Zenon DEF Counting
  <2>2. \A m \in 1..c : Function(m, c) <=> m = n
    <3>1. n \in 1..c
      BY <1>0, <2>1 DEF TypeOK
    <3>2. \A m \in 1..(linenum - 1) : OpenSince(m) <=> m = n
      BY <1>0, <2>1, OneIsOpen, Zenon
    <3> QED BY <1>5, <1>9, <3>1, <3>2, Zenon
  <2>3. n \in 1..c /\ Size(n, c) = lines_in_function /\ lines_in_function \in Nat
    BY <2>1 DEF TypeOK
  <2>4. CASE lines_in_function > Trigger(current_function)
    <3> DEFINE size == [check |-> "size", line |-> linenum,
                        level |-> ErrorLevel(lines_in_function, current_function)]
    <3>1. here = {size}
      <4>1. new = {size}
        BY <1>9, <2>4, Zenon
      <4> QED BY <4>1 DEF here
    <3>2. long = {n}
      BY <2>1, <2>2, <2>3, <2>4, Zenon DEF long
    <3>3. Cardinality(here) = 1 /\ Cardinality(long) = 1
      BY <3>1, <3>2, FS_Singleton
    <3>4. verbose_level \in 0..5
      BY VerbosityAssumption DEF TypeOK
    <3>5. LET level == ErrorLevel(lines_in_function, current_function)
              base == BaseTrigger(current_function)
          IN /\ TwoTo(level) * base <= lines_in_function
             /\ level < 5 => lines_in_function < TwoTo(level + 1) * base
      BY <2>3, <2>4, <3>4, LevelOfSize DEF Trigger
    <3>6. size.level = ErrorLevel(lines_in_function, current_function)
      OBVIOUS
    <3> HIDE DEF size
    <3> QED BY <2>1, <2>3, <3>1, <3>2, <3>3, <3>5, <3>6, Zenon
  <2>5. CASE ~(lines_in_function > Trigger(current_function))
    <3>1. here = {}
      <4>1. new = {}
        BY <1>9, <2>5, Zenon
      <4> QED BY <4>1 DEF here
    <3>2. long = {}
      BY <2>1, <2>2, <2>3, <2>5, Zenon DEF long
    <3> QED BY <1>6, <3>1, <3>2
  <2> QED BY <2>4, <2>5, Zenon
<1> QED BY <1>7, <1>8, <1>9, Zenon

(* What is said of a missing body is true behind the line it is said on.   *)
LEMMA BodiesMissing ==
  ASSUME TypeOK, LongFunctionsReported, NextLine, NEW new, reports' = reports \cup new,
         \A r \in new : r.check = "body" => r.line = linenum /\ BodyStarts(linenum) = {}
  PROVE  \A r \in reports' : r.check = "body" =>
           \A m \in r.line..Len(lines) : lines[m].holds = "neither"
<1>1. \A r \in reports : r.check = "body" =>
        \A m \in r.line..Len(lines) : lines[m].holds = "neither"
  BY Zenon DEF LongFunctionsReported
<1>2. ASSUME BodyStarts(linenum) = {}
      PROVE  \A m \in linenum..Len(lines) : lines[m].holds = "neither"
  BY <1>2 DEF BodyStarts
<1> QED BY <1>1, <1>2

(* LengthsInv is kept by a line that adds such reports.                    *)
LEMMA LineKept ==
  ASSUME TypeOK, LengthsInv, Counting', NextLine, NEW new, reports' = reports \cup new,
         \A r \in new : /\ r.line = linenum
                        /\ r.check = "body" => BodyStarts(linenum) = {},
         \/ /\ linenum \notin Closings
            /\ \A r \in new : r.check # "size"
         \/ /\ linenum \in Closings
            /\ IF in_a_function /\ lines_in_function > Trigger(current_function)
               THEN new = {[check |-> "size", line |-> linenum,
                            level |-> ErrorLevel(lines_in_function, current_function)]}
               ELSE new = {}
  PROVE  LengthsInv'
<1>1. /\ Counting /\ (\A r \in reports : r.line < linenum) /\ LongFunctionsReported
      /\ \A c \in 1..(linenum - 1) : ReportedAt(c)
  BY Zenon DEF LengthsInv, LongFunctionsReported
<1>2. \A c \in 1..(linenum - 1) : ReportedAt(c)'
  BY <1>1, ReportsStay, Zenon
<1>3. \A c \in {linenum} : ReportedAt(c)'
  BY <1>1, ReportedHere, Zenon
<1>4. linenum' - 1 = linenum /\ lines' = lines /\ linenum' = linenum + 1 /\ linenum \in Nat
  BY DEF TypeOK, NextLine
<1>5. \A c \in 1..(linenum' - 1) : ReportedAt(c)'
  BY <1>2, <1>3, <1>4, LinesRead, Zenon
<1>6. LongFunctionsReported'
  BY <1>1, <1>4, <1>5, BodiesMissing, Zenon DEF LongFunctionsReported
<1>7. \A r \in reports' : r.line < linenum'
  <2>1. \A r \in reports : r.line \in Int
    BY DEF TypeOK
  <2> QED BY <1>1, <1>4, <2>1
<1> QED BY <1>6, <1>7, Zenon DEF LengthsInv

(* LengthsInv of every file: in a function, the lines counted are those    *)
(* read since it started; outside, no function is open.                    *)
THEOREM LengthsInvHolds == Spec => []LengthsInv
<1>1. TypeOK /\ LengthsInv /\ [Next]_vars => LengthsInv'
  <2> SUFFICES ASSUME TypeOK, LengthsInv, [Next]_vars PROVE LengthsInv'
    OBVIOUS
  <2>1. Counting
    BY Zenon DEF LengthsInv
  <2>2. CASE Write \/ ProcessFile
    <3>1. linenum = 0 /\ linenum' \in {0, 1} /\ UNCHANGED <<state, reports>>
      BY <2>2 DEF Write, ProcessFile
    <3> QED BY <3>1, NothingRead
  <2>3. CASE StartFunction
    <3> DEFINE new == IF BodyStarts(linenum) = {}
                      THEN {[check |-> "body", line |-> linenum, level |-> 5]} ELSE {}
    <3>1. NextLine /\ reports' = reports \cup new
      BY <2>3, Zenon DEF StartFunction
    <3>2. linenum \notin Closings
      BY <2>3, Zenon DEF StartFunction, Closings
    <3>3. \A r \in new : /\ r.line = linenum /\ r.check # "size"
                         /\ r.check = "body" => BodyStarts(linenum) = {}
      OBVIOUS
    <3>4. Counting'
      BY <2>1, <2>3, CountingKept, Zenon
    <3> HIDE DEF new
    <3> QED BY <3>1, <3>2, <3>3, <3>4, LineKept, Zenon
  <2>4. CASE EndFunction
    <3> DEFINE size == [check |-> "size", line |-> linenum,
                        level |-> ErrorLevel(lines_in_function, current_function)]
    <3> DEFINE new == IF in_a_function /\ lines_in_function > Trigger(current_function)
                      THEN {size} ELSE {}
    <3>1. NextLine /\ reports' = reports \cup new
      BY <2>4, Zenon DEF EndFunction, Check
    <3>2. linenum \in Closings
      BY <2>4, Zenon DEF EndFunction, NextLine, Closings
    <3>3. size.line = linenum /\ size.check # "body"
      OBVIOUS
    <3>4. \A r \in new : r = size
      BY Zenon
    <3>5. \A r \in new : /\ r.line = linenum
                         /\ r.check = "body" => BodyStarts(linenum) = {}
      BY <3>3, <3>4, Zenon
    <3>6. Counting'
      BY <2>1, <2>4, CountingKept, Zenon
    <3>7. IF in_a_function /\ lines_in_function > Trigger(current_function)
          THEN new = {size} ELSE new = {}
      BY Zenon
    <3> QED BY <3>1, <3>2, <3>5, <3>6, <3>7, LineKept, Zenon
  <2>5. CASE CountLine
    <3>1. NextLine /\ reports' = reports
      BY <2>5, Zenon DEF CountLine
    <3>2. linenum \notin Closings
      BY <2>5, Zenon DEF CountLine, Closings
    <3>3. Counting'
      BY <2>1, <2>5, CountingKept, Zenon
    <3>4. PICK new : new = {}
      OBVIOUS
    <3>5. reports' = reports \cup new /\ \A r \in new : FALSE
      BY <3>1, <3>4
    <3> QED BY <3>1, <3>2, <3>3, <3>5, LineKept, Zenon
  <2>6. CASE UNCHANGED vars
    <3>1. /\ lines' = lines /\ verbose_level' = verbose_level /\ linenum' = linenum
          /\ reports' = reports /\ in_a_function' = in_a_function
          /\ lines_in_function' = lines_in_function /\ current_function' = current_function
      BY <2>6, Zenon DEF vars, state
    <3>2. \A n : OpenSince(n)' <=> OpenSince(n)
      BY <3>1, FileStays, Zenon DEF OpenSince
    <3>3. \A n : Size(n, linenum)' = Size(n, linenum)
      BY <3>1, FileStays, Zenon DEF Size
    <3>4. Counting'
      BY <2>1, <3>1, <3>2, <3>3, Zenon DEF Counting
    <3>5. ASSUME NEW c, ReportedAt(c) PROVE ReportedAt(c)'
      <4> DEFINE long == {n \in 1..c : Function(n, c) /\ Size(n, c) > Trigger(lines[n].starts)}
      <4> DEFINE here == {r \in reports : r.check = "size" /\ r.line = c}
      <4>1. long' = long
        BY <3>1, FileStays, Zenon
      <4>2. here' = here
        BY <3>1
      <4>3. \A n : /\ Size(n, c)' = Size(n, c)
                   /\ BaseTrigger(lines[n].starts)' = BaseTrigger(lines[n].starts)
        BY <3>1, FileStays, Zenon DEF BaseTrigger
      <4> QED BY <3>1, <3>5, <4>1, <4>2, <4>3, Zenon DEF ReportedAt
    <3>6. LongFunctionsReported'
      BY <3>1, <3>5, Zenon DEF LengthsInv, LongFunctionsReported
    <3> QED BY <3>1, <3>4, <3>6, Zenon DEF LengthsInv
  <2> QED BY <2>2, <2>3, <2>4, <2>5, <2>6 DEF Next
<1> QED BY <1>1, InitLengths, TypesOfLengths, PTL DEF Spec

(* LongFunctionsReported of every file: the reports of a line are those of *)
(* the function it closes, if that is longer than the trigger.             *)
THEOREM LongFunctionsAreReported == Spec => []LongFunctionsReported
<1>1. LengthsInv => LongFunctionsReported
  BY Zenon DEF LengthsInv
<1> QED BY <1>1, LengthsInvHolds, PTL
===============================================================================

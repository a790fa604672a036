-------------------------- MODULE NestingStateProofs --------------------------
(***************************************************************************)
(* The stack of NestingState is that of the lines that count, however      *)
(* conditionals are nested: every checkpoint on pp_stack is the stack of a *)
(* prefix of the text, and an #else or #endif that goes back to it leaves  *)
(* out exactly the lines behind that prefix.                               *)
(*                                                                         *)
(* On texts it is also their nesting.  Update looks no deeper than at the  *)
(* innermost block, and what a line means changes no more than that of the *)
(* scopes: whatever is below, a line does on a text what it does on the    *)
(* small text of the innermost block alone.  That the stack and the scopes *)
(* of a text match is therefore kept by every line that keeps it on the    *)
(* small texts, which are finitely many (LinesMean).                       *)
(***************************************************************************)
EXTENDS NestingTexts, SequenceTheorems, FiniteSetTheorems, WellFoundedInduction, TLAPS

Texts == Seq(DOMAIN Source)

(* The first a lines of a text *)
Start(t, a) == SubSeq(t, 1, a)

(* The first lines of a text are a text.                                 *)
LEMMA StartIsText ==
  ASSUME NEW t \in Texts, NEW a \in 0..Len(t)
  PROVE  /\ Start(t, a) \in Texts
         /\ Len(Start(t, a)) = a
         /\ \A k \in 1..a : Start(t, a)[k] = t[k]
BY SMT DEF Start, Texts

(* Every non-empty set of numbers has a least element *)
LEMMA LeastNatural ==
  ASSUME NEW T, T \subseteq Nat, T # {}
  PROVE  \E x \in T : \A y \in T : x <= y
<1> DEFINE R == {p \in Nat \X Nat : p[1] < p[2]}
<1>1. IsWellFoundedOn(R, Nat)
  BY NatLessThanWellFounded DEF OpToRel
<1>2. PICK x \in T : \A y \in T : ~(<<y, x>> \in R)
  <2> HIDE DEF R
  <2> QED BY <1>1, WFMin
<1>3. \A y \in T : ~(y < x)
  BY <1>2
<1> QED BY <1>3, SMT

(* What holds at a and goes on from each number to the next holds up to b *)
LEMMA Upwards ==
  ASSUME NEW T, NEW a \in Nat, NEW b \in Nat, a \in T,
         \A k \in a..(b - 1) : k \in T => k + 1 \in T
  PROVE  \A k \in a..b : k \in T
<1> DEFINE F == {k \in a..b : k \notin T}
<1> SUFFICES ASSUME F # {} PROVE FALSE
  OBVIOUS
<1>1. F \subseteq Nat
  OBVIOUS
<1>2. PICK k \in F : \A l \in F : k <= l
  <2> HIDE DEF F
  <2> QED BY <1>1, LeastNatural
<1>3. k \in a..b /\ k \notin T /\ k # a
  BY <1>2
<1>4. k - 1 \in a..(b - 1) /\ (k - 1) + 1 = k /\ k - 1 \in a..b
  BY <1>3
<1>5. k - 1 \in T
  BY <1>2, <1>4
<1>6. (k - 1) + 1 \in T
  BY <1>4, <1>5
<1> QED BY <1>3, <1>4, <1>6

-----------------------------------------------------------------------------
(* Balance                                                                 *)

(* The lines of a kind from i to j *)
Having(t, kind, i, j) == {k \in i..j : Source[t[k]].pp = kind}

(* How many lines have a directive, with one line more.                  *)
LEMMA HavingNext ==
  ASSUME NEW t, NEW kind, NEW i \in Nat, NEW j \in Nat, i <= j + 1
  PROVE  /\ IsFiniteSet(Having(t, kind, i, j))
         /\ Cardinality(Having(t, kind, i, j)) \in Nat
         /\ Cardinality(Having(t, kind, i, j + 1)) =
              Cardinality(Having(t, kind, i, j)) + (IF Source[t[j + 1]].pp = kind THEN 1 ELSE 0)
<1>1. IsFiniteSet(Having(t, kind, i, j))
  <2>1. IsFiniteSet(i..j)
    BY FS_Interval
  <2>2. Having(t, kind, i, j) \subseteq i..j
    BY DEF Having
  <2> QED BY <2>1, <2>2, FS_Subset
<1>2. Cardinality(Having(t, kind, i, j)) \in Nat
  BY <1>1, FS_CardinalityType
<1>3. j + 1 \notin Having(t, kind, i, j)
  BY DEF Having
<1>4. CASE Source[t[j + 1]].pp = kind
  <2>1. Having(t, kind, i, j + 1) = Having(t, kind, i, j) \cup {j + 1}
    BY <1>4 DEF Having
  <2>2. Cardinality(Having(t, kind, i, j) \cup {j + 1}) = Cardinality(Having(t, kind, i, j)) + 1
    BY <1>1, <1>3, FS_AddElement
  <2> QED BY <1>1, <1>2, <1>4, <2>1, <2>2
<1>5. CASE Source[t[j + 1]].pp # kind
  <2>1. Having(t, kind, i, j + 1) = Having(t, kind, i, j)
    <3>1. \A k \in i..(j + 1) : k = j + 1 \/ k \in i..j
      OBVIOUS
    <3>2. i..j \subseteq i..(j + 1)
      OBVIOUS
    <3> QED BY <1>5, <3>1, <3>2 DEF Having
  <2> QED BY <1>1, <1>2, <1>5, <2>1
<1> QED BY <1>4, <1>5

(* What one more line adds *)
Adds(line) == IF line.pp = "if" THEN 1 ELSE IF line.pp = "endif" THEN -1 ELSE 0

(* The balance with one line more.                                       *)
LEMMA BalanceNext ==
  ASSUME NEW t, NEW i \in Nat, NEW j \in Nat, i <= j + 1
  PROVE  /\ Balance(t, i, j) \in Int
         /\ Balance(t, i, j + 1) = Balance(t, i, j) + Adds(Source[t[j + 1]])
<1>1. \A k \in Nat : Balance(t, i, k) =
        Cardinality(Having(t, "if", i, k)) - Cardinality(Having(t, "endif", i, k))
  BY DEF Balance, Having
<1> DEFINE line == Source[t[j + 1]]
<1>2. \A kind : /\ Cardinality(Having(t, kind, i, j)) \in Nat
                /\ Cardinality(Having(t, kind, i, j + 1)) =
                     Cardinality(Having(t, kind, i, j)) + (IF line.pp = kind THEN 1 ELSE 0)
  BY HavingNext
<1>3. j + 1 \in Nat
  OBVIOUS
<1> HIDE DEF line
<1>4. Balance(t, i, j + 1) = Balance(t, i, j) + Adds(line)
  BY <1>1, <1>2, <1>3, SMT DEF Adds
<1> QED BY <1>1, <1>2, <1>4 DEF line

(* Nothing is between a line and the one in front of it *)
LEMMA BalanceOfNone ==
  ASSUME NEW t, NEW i \in Nat \ {0}
  PROVE  Balance(t, i, i - 1) = 0
<1>1. i..(i - 1) = {}
  OBVIOUS
<1>2. {k \in i..(i - 1) : Source[t[k]].pp = "if"} = {} /\ {k \in i..(i - 1) : Source[t[k]].pp = "endif"} = {}
  BY <1>1
<1>3. Cardinality({}) = 0
  BY FS_EmptySet
<1>4. Balance(t, i, i - 1) = Cardinality({}) - Cardinality({})
  BY <1>2, Zenon DEF Balance
<1> QED BY <1>3, <1>4, SMT

(* From i to k it is what it is ahead of c and what it is from there *)
LEMMA BalanceSum ==
  ASSUME NEW t, NEW i \in Nat \ {0}, NEW c \in Nat, i < c, NEW n \in Nat, c - 1 <= n
  PROVE  Balance(t, i, n) = Balance(t, i, c - 1) + Balance(t, c, n)
<1> DEFINE Holds(k) == Balance(t, i, k) = Balance(t, i, c - 1) + Balance(t, c, k)
           T == {k \in (c - 1)..n : ~Holds(k)}
<1>1. ASSUME NEW k \in Nat, c - 1 <= k PROVE Balance(t, i, k) \in Int /\ Balance(t, c, k) \in Int
  <2>1. i <= k + 1 /\ c <= k + 1
    BY <1>1
  <2> QED BY <2>1, BalanceNext
<1>2. Holds(c - 1)
  <2>1. Balance(t, c, c - 1) = 0
    BY BalanceOfNone
  <2>2. c - 1 \in Nat
    OBVIOUS
  <2> QED BY <1>1, <2>1, <2>2
<1>3. ASSUME NEW k \in (c - 1)..n, Holds(k), k < n PROVE Holds(k + 1)
  <2>1. k \in Nat /\ i <= k + 1 /\ c <= k + 1
    OBVIOUS
  <2>2. /\ Balance(t, i, k + 1) = Balance(t, i, k) + Adds(Source[t[k + 1]])
        /\ Balance(t, c, k + 1) = Balance(t, c, k) + Adds(Source[t[k + 1]])
    BY <2>1, BalanceNext
  <2>3. Adds(Source[t[k + 1]]) \in Int
    BY DEF Adds
  <2>4. Balance(t, i, c - 1) \in Int /\ Balance(t, c, k) \in Int
    BY <1>1, <2>1
  <2> QED BY <1>3, <2>2, <2>3, <2>4
<1> HIDE DEF Holds
<1>4. T = {}
  <2> SUFFICES ASSUME T # {} PROVE FALSE
    OBVIOUS
  <2>1. T \subseteq Nat
    OBVIOUS
  <2>2. PICK k \in T : \A l \in T : k <= l
    <3> HIDE DEF T
    <3> QED BY <2>1, LeastNatural
  <2>3. k # c - 1
    BY <1>2, <2>2
  <2>4. k - 1 \in (c - 1)..n /\ k - 1 < n /\ (k - 1) + 1 = k
    BY <2>2, <2>3
  <2>5. Holds(k - 1)
    BY <2>2, <2>4
  <2>6. Holds(k)
    BY <1>3, <2>4, <2>5
  <2> QED BY <2>2, <2>6
<1>5. n \in (c - 1)..n
  OBVIOUS
<1> QED BY <1>4, <1>5 DEF Holds

(* A conditional is balanced by one at its #if *)
LEMMA BalanceAtIf ==
  ASSUME NEW t, NEW i \in Nat \ {0}, Source[t[i]].pp = "if"
  PROVE  Balance(t, i, i) = 1
<1>1. i - 1 \in Nat /\ (i - 1) + 1 = i
  OBVIOUS
<1>2. Balance(t, i, i - 1) = 0
  BY BalanceOfNone
<1>3. Balance(t, i, (i - 1) + 1) = Balance(t, i, i - 1) + Adds(Source[t[(i - 1) + 1]])
  BY <1>1, BalanceNext
<1> QED BY <1>1, <1>2, <1>3 DEF Adds

(* As long as it is open the balance is positive *)
LEMMA OpenBalance ==
  ASSUME NEW t, NEW i \in Nat \ {0}, Source[t[i]].pp = "if", NEW n \in Nat, IsOpen(t, i, n),
         NEW m \in i..n
  PROVE  Balance(t, i, m) \in Nat /\ Balance(t, i, m) > 0
<1> DEFINE T == {k \in i..n : ~(Balance(t, i, k) > 0)}
<1>1. \A k \in i..n : Balance(t, i, k) \in Int
  BY BalanceNext
<1>2. T = {}
  <2> SUFFICES ASSUME T # {} PROVE FALSE
    OBVIOUS
  <2>1. T \subseteq Nat
    OBVIOUS
  <2>2. PICK k \in T : \A l \in T : k <= l
    <3> HIDE DEF T
    <3> QED BY <2>1, LeastNatural
  <2>3. k # i
    BY <2>2, BalanceAtIf
  <2>4. k - 1 \in i..n /\ k - 1 \in Nat /\ (k - 1) + 1 = k /\ i <= (k - 1) + 1
    BY <2>2, <2>3
  <2>5. Balance(t, i, k - 1) > 0
    BY <2>2, <2>4
  <2>6. Balance(t, i, (k - 1) + 1) = Balance(t, i, k - 1) + Adds(Source[t[(k - 1) + 1]])
    BY <2>4, BalanceNext
  <2>7. Source[t[k]].pp = "endif"
    BY <1>1, <2>2, <2>4, <2>5, <2>6 DEF Adds
  <2>8. Balance(t, i, k) > 0
    BY <2>2, <2>7 DEF IsOpen
  <2> QED BY <2>2, <2>8
<1> QED BY <1>1, <1>2

(* What ends a conditional is an #endif, with a balance of zero *)
LEMMA OpenNext ==
  ASSUME NEW t, NEW i \in Nat \ {0}, NEW n \in Nat, i <= n + 1
  PROVE  IsOpen(t, i, n + 1) <=>
           IsOpen(t, i, n) /\ (Source[t[n + 1]].pp = "endif" => Balance(t, i, n + 1) > 0)
<1>1. \A k \in i..(n + 1) : k = n + 1 \/ k \in i..n
  OBVIOUS
<1>2. n + 1 \in i..(n + 1) /\ i..n \subseteq i..(n + 1)
  OBVIOUS
<1> QED BY <1>1, <1>2 DEF IsOpen

(* What is open up to a line was open up to the lines in front of it.    *)
LEMMA OpenBefore ==
  ASSUME NEW t, NEW i \in Nat, NEW a \in Nat, NEW b \in Nat, a <= b, IsOpen(t, i, b)
  PROVE  IsOpen(t, i, a)
<1>1. i..a \subseteq i..b
  OBVIOUS
<1> QED BY <1>1 DEF IsOpen

-----------------------------------------------------------------------------
(* The start of a text                                                     *)

(* has the balances and the conditionals of the text, *)
LEMMA StartAlike ==
  ASSUME NEW t \in Texts, NEW a \in 0..Len(t), NEW i \in Nat \ {0}, NEW j \in Nat, j <= a
  PROVE  /\ Balance(Start(t, a), i, j) = Balance(t, i, j)
         /\ IsOpen(Start(t, a), i, j) <=> IsOpen(t, i, j)
<1> DEFINE u == Start(t, a)
<1>1. \A k \in 1..a : u[k] = t[k]
  BY StartIsText
<1> HIDE DEF u
<1>2. ASSUME NEW k \in Nat, k <= a PROVE Balance(u, i, k) = Balance(t, i, k)
  <2>1. \A l \in i..k : u[l] = t[l]
    BY <1>1, <1>2
  <2>2. \A kind : {l \in i..k : Source[u[l]].pp = kind} = {l \in i..k : Source[t[l]].pp = kind}
    BY <2>1
  <2> QED BY <2>2, Zenon DEF Balance
<1>3. \A k \in i..j : u[k] = t[k] /\ Balance(u, i, k) = Balance(t, i, k)
  BY <1>1, <1>2
<1>4. IsOpen(u, i, j) <=> IsOpen(t, i, j)
  BY <1>3, Zenon DEF IsOpen
<1> QED BY <1>2, <1>4 DEF u

(* and those of their branches that are in it.                             *)
LEMMA StartElses ==
  ASSUME NEW t \in Texts, NEW a \in 0..Len(t), NEW i \in Nat \ {0}
  PROVE  Elses(Start(t, a), i) = {j \in Elses(t, i) : j <= a}
<1> DEFINE u == Start(t, a)
<1>1. Len(u) = a /\ \A k \in 1..a : u[k] = t[k]
  BY StartIsText
<1>2. \A j \in i..a : /\ Balance(u, i, j) = Balance(t, i, j)
                      /\ IsOpen(u, i, j) <=> IsOpen(t, i, j)
                      /\ u[j] = t[j]
  BY <1>1, StartAlike
<1>3. Len(t) \in Nat /\ a \in Nat
  BY DEF Texts
<1> HIDE DEF u
<1>4. \A j : j \in i..Len(u) <=> j \in i..Len(t) /\ j <= a
  BY <1>1, <1>3
<1>5. Elses(u, i) = {j \in Elses(t, i) : j <= a}
  BY <1>1, <1>2, <1>4, Zenon DEF Elses
<1> QED BY <1>5 DEF u

(* The conditionals of the first lines of a text are those that start    *)
(* there.                                                                *)
LEMMA StartConditionals ==
  ASSUME NEW t \in Texts, NEW a \in 0..Len(t)
  PROVE  Conditionals(Start(t, a)) = {i \in Conditionals(t) : i <= a}
<1>1. Len(Start(t, a)) = a /\ \A k \in 1..a : Start(t, a)[k] = t[k]
  BY StartIsText
<1>2. Len(t) \in Nat
  BY DEF Texts
<1> QED BY <1>1, <1>2 DEF Conditionals

-----------------------------------------------------------------------------
(* The lines that do not count                                             *)

(* When a line is in another branch of a conditional.                    *)
LEMMA InBranches ==
  ASSUME NEW t, NEW i, NEW m
  PROVE  m \in BranchesOf(t, i) <=>
           \E j \in Elses(t, i) :
             IF IsOpen(t, i, Len(t)) THEN m \in i..(j - 1) ELSE m \in j..Len(t) /\ IsOpen(t, i, m)
<1>1. CASE IsOpen(t, i, Len(t))
  <2>1. BranchesOf(t, i) = UNION {i..(j - 1) : j \in Elses(t, i)}
    BY <1>1 DEF BranchesOf
  <2> QED BY <1>1, <2>1
<1>2. CASE ~IsOpen(t, i, Len(t))
  <2>1. BranchesOf(t, i) = UNION {{n \in j..Len(t) : IsOpen(t, i, n)} : j \in Elses(t, i)}
    BY <1>2 DEF BranchesOf
  <2> QED BY <1>2, <2>1
<1> QED BY <1>1, <1>2

(* A line does not count if some conditional has it in another branch.   *)
LEMMA InOtherBranches ==
  ASSUME NEW t, NEW m
  PROVE  m \in OtherBranches(t) <=> \E i \in Conditionals(t) : m \in BranchesOf(t, i)
BY Zenon DEF OtherBranches

(* The branches of a conditional are behind its #if.                     *)
LEMMA BranchIsBehind ==
  ASSUME NEW t \in Texts, NEW i \in Conditionals(t), NEW m, m \in BranchesOf(t, i)
  PROVE  m \in i..Len(t)
<1>1. PICK j \in Elses(t, i) :
        IF IsOpen(t, i, Len(t)) THEN m \in i..(j - 1) ELSE m \in j..Len(t) /\ IsOpen(t, i, m)
  BY InBranches
<1>2. j \in i..Len(t) /\ Len(t) \in Nat /\ i \in 1..Len(t)
  BY DEF Elses, Texts, Conditionals
<1> QED BY <1>1, <1>2

(* What is behind line a does not change what counts of conditional i: it  *)
(* is over by then, or stays as it is, or ends without an #else before.    *)
Settled(t, i, a) ==
  \/ ~IsOpen(t, i, a)
  \/ IsOpen(t, i, Len(t)) /\ \A j \in Elses(t, i) : j <= a
  \/ ~IsOpen(t, i, Len(t)) /\ \A j \in Elses(t, i) : j > a

(* A conditional that is settled at a line has the same branches in the  *)
(* text up to there.                                                     *)
LEMMA SettledBranches ==
  ASSUME NEW t \in Texts, NEW a \in 0..Len(t), NEW i \in Conditionals(t), i <= a, Settled(t, i, a),
         NEW m \in 1..a
  PROVE  m \in BranchesOf(t, i) <=> m \in BranchesOf(Start(t, a), i)
<1> DEFINE u == Start(t, a)
<1>1. i \in Nat \ {0} /\ a \in Nat /\ Len(t) \in Nat /\ Len(u) = a /\ a <= Len(t) /\ m \in Nat /\ m <= a
  BY StartIsText DEF Texts, Conditionals
<1>2. Elses(u, i) = {j \in Elses(t, i) : j <= a}
  BY <1>1, StartElses
<1>3. \A j \in Elses(t, i) : j \in Nat /\ j <= Len(t) /\ IsOpen(t, i, j)
  BY <1>1 DEF Elses
<1>4. (IsOpen(u, i, a) <=> IsOpen(t, i, a)) /\ (IsOpen(u, i, m) <=> IsOpen(t, i, m))
  BY <1>1, StartAlike
<1>5. IsOpen(t, i, Len(t)) => IsOpen(t, i, a)
  BY <1>1, OpenBefore
<1> HIDE DEF u
<1>6. CASE ~IsOpen(t, i, a)
  <2>1. \A j \in Elses(t, i) : j <= a
    <3> SUFFICES ASSUME NEW j \in Elses(t, i), ~(j <= a) PROVE FALSE
      OBVIOUS
    <3>1. j \in Nat /\ a <= j /\ IsOpen(t, i, j)
      BY <1>1, <1>3
    <3>2. IsOpen(t, i, a)
      BY <1>1, <3>1, OpenBefore
    <3> QED BY <1>6, <3>2
  <2>2. Elses(u, i) = Elses(t, i)
    BY <1>2, <2>1
  <2>3. m \in BranchesOf(t, i) <=> \E j \in Elses(t, i) : m \in j..Len(t) /\ IsOpen(t, i, m)
    BY <1>5, <1>6, InBranches, Zenon
  <2>4. m \in BranchesOf(u, i) <=> \E j \in Elses(t, i) : m \in j..a /\ IsOpen(t, i, m)
    BY <1>1, <1>4, <1>6, <2>2, InBranches, Zenon
  <2>5. \A j \in Elses(t, i) : m \in j..Len(t) <=> m \in j..a
    BY <1>1, <1>3
  <2> QED BY <2>3, <2>4, <2>5, Zenon DEF u
<1>7. CASE IsOpen(t, i, Len(t)) /\ \A j \in Elses(t, i) : j <= a
  <2>1. Elses(u, i) = Elses(t, i)
    BY <1>2, <1>7
  <2>2. m \in BranchesOf(t, i) <=> \E j \in Elses(t, i) : m \in i..(j - 1)
    BY <1>7, InBranches, Zenon
  <2>3. m \in BranchesOf(u, i) <=> \E j \in Elses(t, i) : m \in i..(j - 1)
    BY <1>1, <1>4, <1>5, <1>7, <2>1, InBranches, Zenon
  <2> QED BY <2>2, <2>3, Zenon DEF u
<1>8. CASE ~IsOpen(t, i, Len(t)) /\ \A j \in Elses(t, i) : j > a
  <2>1. Elses(u, i) = {}
    BY <1>1, <1>2, <1>3, <1>8
  <2>2. m \in BranchesOf(t, i) <=> \E j \in Elses(t, i) : m \in j..Len(t) /\ IsOpen(t, i, m)
    BY <1>8, InBranches, Zenon
  <2>3. \A j \in Elses(t, i) : m \notin j..Len(t)
    BY <1>1, <1>3, <1>8
  <2>4. m \notin BranchesOf(u, i)
    BY <2>1, InBranches, Zenon
  <2> QED BY <2>2, <2>3, <2>4, Zenon DEF u
<1> QED BY <1>6, <1>7, <1>8 DEF Settled

(* If all conditionals are settled at a line, the same lines count in    *)
(* the text up to there.                                                 *)
LEMMA SettledText ==
  ASSUME NEW t \in Texts, NEW a \in 0..Len(t),
         \A i \in Conditionals(t) : i <= a => Settled(t, i, a),
         NEW m \in 1..a
  PROVE  m \in OtherBranches(t) <=> m \in OtherBranches(Start(t, a))
<1> DEFINE u == Start(t, a)
<1>1. Conditionals(u) = {i \in Conditionals(t) : i <= a}
  BY StartConditionals
<1>2. \A i \in Conditionals(u) : m \in BranchesOf(t, i) <=> m \in BranchesOf(u, i)
  BY <1>1, SettledBranches
<1>3. ASSUME NEW i \in Conditionals(t), m \in BranchesOf(t, i) PROVE i \in Conditionals(u)
  <2>1. m \in i..Len(t)
    BY <1>3, BranchIsBehind
  <2>2. i \in Nat
    BY DEF Conditionals
  <2>3. i <= a
    BY <2>1, <2>2
  <2> QED BY <1>1, <2>3
<1>4. m \in OtherBranches(t) <=> \E i \in Conditionals(t) : m \in BranchesOf(t, i)
  BY InOtherBranches, Zenon
<1>5. m \in OtherBranches(u) <=> \E i \in Conditionals(u) : m \in BranchesOf(u, i)
  BY InOtherBranches, Zenon
<1>6. Conditionals(u) \subseteq Conditionals(t)
  BY <1>1
<1> HIDE DEF u
<1>7. m \in OtherBranches(t) <=> m \in OtherBranches(u)
  BY <1>2, <1>3, <1>4, <1>5, <1>6, Zenon
<1> QED BY <1>7 DEF u

(* The last line counts *)
LEMMA LastCounts ==
  ASSUME NEW t \in Texts, t # <<>>
  PROVE  Len(t) \notin OtherBranches(t)
<1>1. Len(t) \in Nat
  BY DEF Texts
<1> SUFFICES ASSUME NEW i \in Conditionals(t), Len(t) \in BranchesOf(t, i) PROVE FALSE
  BY InOtherBranches
<1>2. PICK j \in Elses(t, i) :
        IF IsOpen(t, i, Len(t)) THEN Len(t) \in i..(j - 1)
        ELSE Len(t) \in j..Len(t) /\ IsOpen(t, i, Len(t))
  BY InBranches
<1>3. i \in Nat /\ j \in i..Len(t)
  BY DEF Elses, Conditionals
<1> QED BY <1>1, <1>2, <1>3

-----------------------------------------------------------------------------
(* The stack behind a text, and its scopes: "what" is "blocks" or "scopes" *)

Step(what, s, line, n) == IF what = "blocks" THEN ReadLine(s, line, n).stack ELSE DoLine(s, line, n)
StateBehind(what, t) == IF what = "blocks" THEN StackOf(t) ELSE Nest(t)

(* f has those behind the first n lines of t.                              *)
ReadNext(what, f, t, m) == IF m \in OtherBranches(t) THEN f[m - 1] ELSE Step(what, f[m - 1], Source[t[m]], m)
Reads(what, f, t, n) ==
  /\ f = [m \in 0..n |-> f[m]]
  /\ f[0] = <<>>
  /\ \A m \in 1..n : f[m] = ReadNext(what, f, t, m)

(* Those behind the lines of a text exist, up to any line.                 *)
LEMMA ReadsExist ==
  ASSUME NEW what, NEW t, NEW L \in Nat
  PROVE  \E f : Reads(what, f, t, L)
<1> DEFINE T == {n \in 0..L : \A f : ~Reads(what, f, t, n)}
<1> SUFFICES ASSUME ~\E f : Reads(what, f, t, L) PROVE FALSE
  OBVIOUS
<1>1. L \in T
  OBVIOUS
<1>2. PICK n \in T : \A y \in T : n <= y
  <2>1. T \subseteq Nat
    OBVIOUS
  <2> HIDE DEF T
  <2> QED BY <1>1, <2>1, LeastNatural
<1>3. n \in 0..L /\ \A f : ~Reads(what, f, t, n)
  BY <1>2
<1>4. n # 0
  <2> DEFINE f == [m \in 0..0 |-> <<>>]
  <2>1. f = [m \in 0..0 |-> f[m]] /\ f[0] = <<>> /\ \A m \in 1..0 : FALSE
    OBVIOUS
  <2> HIDE DEF f
  <2>2. Reads(what, f, t, 0)
    BY <2>1 DEF Reads
  <2> QED BY <1>3, <2>2
<1>5. n - 1 \in 0..L /\ n - 1 \in Nat /\ n \in 1..L
  BY <1>3, <1>4
<1>6. ~(n - 1 \in T)
  BY <1>2, <1>5
<1>7. PICK g : Reads(what, g, t, n - 1)
  BY <1>5, <1>6
<1> DEFINE f == [m \in 0..n |-> IF m = n THEN ReadNext(what, g, t, n) ELSE g[m]]
<1>8. /\ f = [m \in 0..n |-> f[m]] /\ f[n] = ReadNext(what, g, t, n)
      /\ \A m \in 0..(n - 1) : f[m] = g[m]
  <2>1. n \in 0..n /\ \A m \in 0..(n - 1) : m \in 0..n /\ m # n
    BY <1>5
  <2> QED BY <2>1
<1> HIDE DEF f, T
<1>9. Reads(what, f, t, n)
  <2>1. f[0] = <<>>
    <3>1. g[0] = <<>>
      BY <1>7, Zenon DEF Reads
    <3>2. 0 \in 0..(n - 1)
      BY <1>5
    <3> QED BY <1>8, <3>1, <3>2, Zenon
  <2>2. ASSUME NEW m \in 1..n PROVE f[m] = ReadNext(what, f, t, m)
    <3>1. m - 1 \in 0..(n - 1) /\ (m = n \/ (m \in 1..(n - 1) /\ m \in 0..(n - 1)))
      BY <1>5
    <3>2. f[m - 1] = g[m - 1]
      BY <1>8, <3>1
    <3>3. ReadNext(what, f, t, m) = ReadNext(what, g, t, m)
      BY <3>2, Zenon DEF ReadNext
    <3>4. CASE m = n
      BY <1>8, <3>3, <3>4
    <3>5. CASE m \in 1..(n - 1) /\ m \in 0..(n - 1)
      <4>1. f[m] = g[m] /\ g[m] = ReadNext(what, g, t, m)
        BY <1>7, <1>8, <3>5 DEF Reads
      <4> QED BY <3>3, <4>1
    <3> QED BY <3>1, <3>4, <3>5
  <2> QED BY <1>8, <2>1, <2>2 DEF Reads
<1> QED BY <1>3, <1>9

(* The stack of a text is the last of these stacks.                      *)
LEMMA StackIsRead ==
  ASSUME NEW t \in Texts
  PROVE  \E f : Reads("blocks", f, t, Len(t)) /\ StackOf(t) = f[Len(t)]
<1> DEFINE L == Len(t)
           IsRead(f) == f = [n \in 0..L |-> IF n = 0 THEN <<>>
                                            ELSE IF n \in OtherBranches(t) THEN f[n - 1]
                                            ELSE ReadLine(f[n - 1], Source[t[n]], n).stack]
           read == CHOOSE f : IsRead(f)
<1>1. L \in Nat
  BY DEF Texts
<1>2. StackOf(t) = read[L]
  BY Zenon DEF StackOf
<1> HIDE DEF L
<1>3. PICK g : Reads("blocks", g, t, L)
  BY <1>1, ReadsExist
<1>4. IsRead(g)
  <2>1. \A m \in 0..L : g[m] = IF m = 0 THEN <<>> ELSE IF m \in OtherBranches(t) THEN g[m - 1]
                                            ELSE ReadLine(g[m - 1], Source[t[m]], m).stack
    <3>1. \A m \in 0..L : m = 0 \/ m \in 1..L
      BY <1>1
    <3>2. g[0] = <<>> /\ \A m \in 1..L : g[m] = IF m \in OtherBranches(t) THEN g[m - 1]
                                            ELSE ReadLine(g[m - 1], Source[t[m]], m).stack
      BY <1>3, Zenon DEF Reads, ReadNext, Step
    <3>3. 0 \notin 1..L
      BY <1>1
    <3> QED BY <3>1, <3>2, <3>3, Zenon
  <2>2. g = [m \in 0..L |-> g[m]]
    BY <1>3, Zenon DEF Reads
  <2> QED BY <2>1, <2>2, Zenon
<1>5. IsRead(read)
  <2> HIDE DEF IsRead
  <2> QED BY <1>4
<1> HIDE DEF read
<1>6. Reads("blocks", read, t, L)
  <2>1. \A m \in 1..L : m \in 0..L /\ m # 0
    BY <1>1
  <2>2. 0 \in 0..L
    BY <1>1
  <2>3. \A m \in 0..L : read[m] = IF m = 0 THEN <<>> ELSE IF m \in OtherBranches(t) THEN read[m - 1]
                                            ELSE ReadLine(read[m - 1], Source[t[m]], m).stack
    BY <1>5, Zenon
  <2>4. read[0] = <<>> /\ \A m \in 1..L : read[m] = ReadNext("blocks", read, t, m)
    BY <2>1, <2>2, <2>3, Zenon DEF ReadNext, Step
  <2>5. read = [m \in 0..L |-> read[m]]
    BY <1>5, SMT
  <2> QED BY <2>4, <2>5, Zenon DEF Reads
<1> QED BY <1>2, <1>6 DEF L

(* The scopes of a text are the last of these.                             *)
LEMMA NestIsRead ==
  ASSUME NEW t \in Texts
  PROVE  \E f : Reads("scopes", f, t, Len(t)) /\ Nest(t) = f[Len(t)]
<1> DEFINE L == Len(t)
           IsRead(f) == f = [n \in 0..L |-> IF n = 0 THEN <<>>
                                            ELSE IF n \in OtherBranches(t) THEN f[n - 1]
                                            ELSE DoLine(f[n - 1], Source[t[n]], n)]
           read == CHOOSE f : IsRead(f)
<1>1. L \in Nat
  BY DEF Texts
<1>2. Nest(t) = read[L]
  BY Zenon DEF Nest
<1> HIDE DEF L
<1>3. PICK g : Reads("scopes", g, t, L)
  BY <1>1, ReadsExist
<1>4. IsRead(g)
  <2>1. \A m \in 0..L : g[m] = IF m = 0 THEN <<>> ELSE IF m \in OtherBranches(t) THEN g[m - 1]
                                            ELSE DoLine(g[m - 1], Source[t[m]], m)
    <3>1. \A m \in 0..L : m = 0 \/ m \in 1..L
      BY <1>1
    <3>2. g[0] = <<>> /\ \A m \in 1..L : g[m] = IF m \in OtherBranches(t) THEN g[m - 1]
                                            ELSE DoLine(g[m - 1], Source[t[m]], m)
      BY <1>3, Zenon DEF Reads, ReadNext, Step
    <3>3. 0 \notin 1..L
      BY <1>1
    <3> QED BY <3>1, <3>2, <3>3, Zenon
  <2>2. g = [m \in 0..L |-> g[m]]
    BY <1>3, Zenon DEF Reads
  <2> QED BY <2>1, <2>2, Zenon
<1>5. IsRead(read)
  <2> HIDE DEF IsRead
  <2> QED BY <1>4
<1> HIDE DEF read
<1>6. Reads("scopes", read, t, L)
  <2>1. \A m \in 1..L : m \in 0..L /\ m # 0
    BY <1>1
  <2>2. 0 \in 0..L
    BY <1>1
  <2>3. \A m \in 0..L : read[m] = IF m = 0 THEN <<>> ELSE IF m \in OtherBranches(t) THEN read[m - 1]
                                            ELSE DoLine(read[m - 1], Source[t[m]], m)
    BY <1>5, Zenon
  <2>4. read[0] = <<>> /\ \A m \in 1..L : read[m] = ReadNext("scopes", read, t, m)
    BY <2>1, <2>2, <2>3, Zenon DEF ReadNext, Step
  <2>5. read = [m \in 0..L |-> read[m]]
    BY <1>5, SMT
  <2> QED BY <2>4, <2>5, Zenon DEF Reads
<1> QED BY <1>2, <1>6 DEF L

(* What is behind a text is the last of them.                              *)
LEMMA BehindIsRead ==
  ASSUME NEW t \in Texts, NEW what \in {"blocks", "scopes"}
  PROVE  \E f : Reads(what, f, t, Len(t)) /\ StateBehind(what, t) = f[Len(t)]
<1>1. CASE what = "blocks"
  BY <1>1, StackIsRead, Zenon DEF StateBehind
<1>2. CASE what = "scopes"
  BY <1>2, NestIsRead, Zenon DEF StateBehind
<1> QED BY <1>1, <1>2

(* A line is read behind the last start of the text whose lines count as   *)
(* they do in it, if nothing in between counts.                            *)
LEMMA ReadOn ==
  ASSUME NEW what \in {"blocks", "scopes"}, NEW t \in Texts, t # <<>>, NEW a \in 0..(Len(t) - 1),
         \A m \in 1..a : m \in OtherBranches(t) <=> m \in OtherBranches(Start(t, a)),
         \A m \in (a + 1)..(Len(t) - 1) : m \in OtherBranches(t)
  PROVE  StateBehind(what, t) = Step(what, StateBehind(what, Start(t, a)), Source[t[Len(t)]], Len(t))
<1> DEFINE u == Start(t, a)
           L == Len(t)
<1>1. L \in Nat \ {0} /\ a \in Nat /\ a \in 0..L
  BY DEF Texts
<1>2. u \in Texts /\ Len(u) = a /\ \A k \in 1..a : u[k] = t[k]
  BY <1>1, StartIsText
<1>3. PICK f : Reads(what, f, t, L) /\ StateBehind(what, t) = f[L]
  BY BehindIsRead
<1>4. PICK g : Reads(what, g, u, a) /\ StateBehind(what, u) = g[a]
  BY <1>2, BehindIsRead
<1>5. L \notin OtherBranches(t)
  BY LastCounts
<1>6. \A m \in 1..a : m \in OtherBranches(t) <=> m \in OtherBranches(u)
  OBVIOUS
<1>7. \A m \in (a + 1)..(L - 1) : m \in OtherBranches(t)
  OBVIOUS
<1>8. StateBehind(what, t) = Step(what, f[L - 1], Source[t[L]], L)
  <2>1. L \in 1..L
    BY <1>1
  <2> QED BY <1>3, <1>5, <2>1, Zenon DEF Reads, ReadNext
<1> HIDE DEF u, L
<1>9. f[a] = g[a]
  <2> DEFINE T == {m \in 0..a : f[m] = g[m]}
  <2>1. 0 \in T
    BY <1>1, <1>3, <1>4 DEF Reads
  <2>2. ASSUME NEW m \in 0..(a - 1), m \in T PROVE m + 1 \in T
    <3>1. m + 1 \in 1..a /\ m + 1 \in 1..L /\ (m + 1) - 1 = m /\ m + 1 \in 0..a
      BY <1>1
    <3>2. f[m + 1] = ReadNext(what, f, t, m + 1) /\ g[m + 1] = ReadNext(what, g, u, m + 1)
      BY <1>3, <1>4, <3>1, Zenon DEF Reads
    <3>3. f[m] = g[m] /\ u[m + 1] = t[m + 1]
      BY <1>2, <2>2, <3>1
    <3>4. ReadNext(what, f, t, m + 1) = ReadNext(what, g, u, m + 1)
      BY <1>6, <3>1, <3>3, Zenon DEF ReadNext
    <3> QED BY <3>1, <3>2, <3>4
  <2>3. a \in 0..a
    BY <1>1
  <2> HIDE DEF T
  <2>4. a \in T
    BY <1>1, <2>1, <2>2, <2>3, Upwards
  <2> QED BY <2>4 DEF T
<1>10. f[L - 1] = f[a]
  <2> DEFINE T == {m \in a..(L - 1) : f[m] = f[a]}
  <2>1. a \in T /\ L - 1 \in Nat /\ L - 1 \in a..(L - 1)
    BY <1>1 DEF L
  <2>2. ASSUME NEW m \in a..((L - 1) - 1), m \in T PROVE m + 1 \in T
    <3>1. m + 1 \in (a + 1)..(L - 1) /\ m + 1 \in 1..L /\ (m + 1) - 1 = m /\ m + 1 \in a..(L - 1)
      BY <1>1
    <3>2. f[m + 1] = ReadNext(what, f, t, m + 1)
      BY <1>3, <3>1, Zenon DEF Reads
    <3>3. ReadNext(what, f, t, m + 1) = f[m]
      BY <1>7, <3>1, Zenon DEF ReadNext
    <3> QED BY <2>2, <3>1, <3>2, <3>3
  <2> HIDE DEF T
  <2>3. \A m \in a..(L - 1) : m \in T
    BY <1>1, <2>1, <2>2, Upwards
  <2> QED BY <2>1, <2>3 DEF T
<1> QED BY <1>4, <1>8, <1>9, <1>10 DEF u, L

(* The last line is read behind line a: nothing in between counts, and the *)
(* lines up to there count as if the text ended there.                     *)
IsBehind(t, a) ==
  /\ a \in 0..(Len(t) - 1)
  /\ \A m \in 1..a : m \in OtherBranches(t) <=> m \in OtherBranches(Start(t, a))
  /\ \A m \in (a + 1)..(Len(t) - 1) : m \in OtherBranches(t)

(* What is behind the last line                                            *)
LEMMA ReadLast ==
  ASSUME NEW t \in Texts, t # <<>>, NEW a, IsBehind(t, a)
  PROVE  /\ StackOf(t) = ReadLine(StackOf(Start(t, a)), Source[t[Len(t)]], Len(t)).stack
         /\ Nest(t) = DoLine(Nest(Start(t, a)), Source[t[Len(t)]], Len(t))
<1>1. /\ a \in 0..(Len(t) - 1)
      /\ \A m \in 1..a : m \in OtherBranches(t) <=> m \in OtherBranches(Start(t, a))
      /\ \A m \in (a + 1)..(Len(t) - 1) : m \in OtherBranches(t)
  BY Zenon DEF IsBehind
<1>2. \A what \in {"blocks", "scopes"} :
        StateBehind(what, t) = Step(what, StateBehind(what, Start(t, a)), Source[t[Len(t)]], Len(t))
  BY <1>1, ReadOn
<1>3. StateBehind("blocks", t) = Step("blocks", StateBehind("blocks", Start(t, a)), Source[t[Len(t)]], Len(t))
  BY <1>2
<1>4. StateBehind("scopes", t) = Step("scopes", StateBehind("scopes", Start(t, a)), Source[t[Len(t)]], Len(t))
  BY <1>2
<1> QED BY <1>3, <1>4, Zenon DEF StateBehind, Step

(* In particular behind all of them, or behind a start if all is settled   *)
LEMMA ReadBehind ==
  ASSUME NEW t \in Texts, t # <<>>, NEW a \in 0..(Len(t) - 1),
         \A i \in Conditionals(t) : i <= a => Settled(t, i, a),
         \A m \in (a + 1)..(Len(t) - 1) : m \in OtherBranches(t)
  PROVE  /\ IsBehind(t, a)
         /\ StackOf(t) = ReadLine(StackOf(Start(t, a)), Source[t[Len(t)]], Len(t)).stack
<1>1. a \in 0..Len(t)
  BY DEF Texts
<1>2. \A m \in 1..a : m \in OtherBranches(t) <=> m \in OtherBranches(Start(t, a))
  BY <1>1, SettledText
<1>3. IsBehind(t, a)
  BY <1>2, Zenon DEF IsBehind
<1> QED BY <1>3, ReadLast

-----------------------------------------------------------------------------
(* One more line                                                           *)

(* A text with one line more.                                            *)
LEMMA MoreText ==
  ASSUME NEW t \in Texts, NEW x \in DOMAIN Source
  PROVE  /\ Append(t, x) \in Texts
         /\ Len(t) \in Nat
         /\ Len(Append(t, x)) = Len(t) + 1
         /\ Append(t, x)[Len(t) + 1] = x
         /\ Append(t, x) # <<>>
         /\ \A a \in 0..Len(t) : Start(Append(t, x), a) = Start(t, a)
         /\ Start(Append(t, x), Len(t)) = t
<1>1. /\ Append(t, x) \in Texts /\ Len(t) \in Nat /\ Len(Append(t, x)) = Len(t) + 1
      /\ Append(t, x)[Len(t) + 1] = x
      /\ \A k \in 1..Len(t) : Append(t, x)[k] = t[k]
  BY DEF Texts
<1>2. ASSUME NEW a \in 0..Len(t) PROVE Start(Append(t, x), a) = Start(t, a)
  <2>1. a \in 0..Len(Append(t, x))
    BY <1>1
  <2>2. /\ Start(Append(t, x), a) \in Texts /\ Len(Start(Append(t, x), a)) = a
        /\ \A k \in 1..a : Start(Append(t, x), a)[k] = Append(t, x)[k]
    BY <1>1, <2>1, StartIsText
  <2>3. /\ Start(t, a) \in Texts /\ Len(Start(t, a)) = a
        /\ \A k \in 1..a : Start(t, a)[k] = t[k]
    BY StartIsText
  <2>4. \A k \in 1..a : Start(Append(t, x), a)[k] = Start(t, a)[k]
    BY <1>1, <2>2, <2>3
  <2> QED BY <2>2, <2>3, <2>4, SeqEqual DEF Texts
<1>3. Start(t, Len(t)) = t
  <2>1. Len(t) \in 0..Len(t)
    BY <1>1
  <2>2. /\ Start(t, Len(t)) \in Texts /\ Len(Start(t, Len(t))) = Len(t)
        /\ \A k \in 1..Len(t) : Start(t, Len(t))[k] = t[k]
    BY <2>1, StartIsText
  <2> QED BY <2>2, SeqEqual DEF Texts
<1>4. Append(t, x) # <<>>
  <2>1. Len(t) + 1 # 0
    BY <1>1
  <2> QED BY <1>1, <2>1, EmptySeq
<1>5. Len(t) \in 0..Len(t)
  BY <1>1
<1> QED BY <1>1, <1>2, <1>3, <1>4, <1>5

(* Its lines with an #if *)
LEMMA MoreConditionals ==
  ASSUME NEW t \in Texts, NEW x \in DOMAIN Source, NEW i
  PROVE  /\ i \in Conditionals(Append(t, x)) <=>
              i \in Conditionals(t) \/ (i = Len(t) + 1 /\ Source[x].pp = "if")
         /\ i \in Conditionals(t) => i \in Nat \ {0} /\ i <= Len(t) /\ Source[t[i]].pp = "if"
<1>1. /\ Len(t) \in Nat /\ Len(Append(t, x)) = Len(t) + 1
      /\ Append(t, x)[Len(t) + 1] = x
      /\ \A k \in 1..Len(t) : Append(t, x)[k] = t[k]
  BY DEF Texts
<1>2. i \in 1..(Len(t) + 1) <=> i \in 1..Len(t) \/ i = Len(t) + 1
  BY <1>1
<1>3. Len(t) + 1 \notin 1..Len(t)
  BY <1>1
<1> QED BY <1>1, <1>2, <1>3 DEF Conditionals

(* A conditional of the text, in the text with one more line *)
LEMMA MoreOfConditional ==
  ASSUME NEW t \in Texts, NEW x \in DOMAIN Source, NEW i \in Conditionals(t)
  PROVE  LET u == Append(t, x)
             n == Len(t)
         IN /\ Balance(t, i, n) \in Int
            /\ Balance(u, i, n + 1) = Balance(t, i, n) + Adds(Source[x])
            /\ \A j \in 0..n : Balance(u, i, j) = Balance(t, i, j) /\ (IsOpen(u, i, j) <=> IsOpen(t, i, j))
            /\ IsOpen(u, i, n + 1) <=>
                 IsOpen(t, i, n) /\ (Source[x].pp = "endif" => Balance(t, i, n) > 1)
            /\ Elses(t, i) = {j \in Elses(u, i) : j <= n}
            /\ n + 1 \in Elses(u, i) <=>
                 Source[x].pp = "else" /\ Balance(t, i, n) = 1 /\ IsOpen(t, i, n)
            /\ \A j \in Elses(u, i) : j \in Nat /\ (j <= n \/ j = n + 1)
<1> DEFINE u == Append(t, x)
           n == Len(t)
<1>1. u \in Texts /\ n \in Nat /\ Len(u) = n + 1 /\ u[n + 1] = x /\ Start(u, n) = t /\ n \in 0..Len(u)
  BY MoreText
<1>2. i \in Nat \ {0} /\ i <= n
  BY <1>1 DEF Conditionals
<1> HIDE DEF u, n
<1>3. ASSUME NEW j \in 0..n PROVE Balance(u, i, j) = Balance(t, i, j) /\ (IsOpen(u, i, j) <=> IsOpen(t, i, j))
  <2>1. j \in Nat /\ j <= n
    BY <1>1
  <2> QED BY <1>1, <1>2, <2>1, StartAlike
<1>4. n \in 0..n /\ i <= n + 1
  BY <1>1, <1>2
<1>5. Balance(t, i, n) \in Int
  BY <1>1, <1>2, <1>4, BalanceNext
<1>6. Balance(u, i, n + 1) = Balance(t, i, n) + Adds(Source[x])
  <2>1. Balance(u, i, n + 1) = Balance(u, i, n) + Adds(Source[u[n + 1]])
    BY <1>1, <1>2, <1>4, BalanceNext
  <2> QED BY <1>1, <1>3, <1>4, <2>1
<1>7. IsOpen(u, i, n + 1) <=> IsOpen(t, i, n) /\ (Source[x].pp = "endif" => Balance(t, i, n) > 1)
  <2>1. IsOpen(u, i, n + 1) <=> IsOpen(u, i, n) /\ (Source[u[n + 1]].pp = "endif" => Balance(u, i, n + 1) > 0)
    BY <1>1, <1>2, <1>4, OpenNext
  <2>2. Source[x].pp = "endif" => (Balance(u, i, n + 1) > 0 <=> Balance(t, i, n) > 1)
    BY <1>5, <1>6 DEF Adds
  <2> QED BY <1>1, <1>3, <1>4, <2>1, <2>2
<1>8. Elses(t, i) = {j \in Elses(u, i) : j <= n}
  BY <1>1, <1>2, StartElses
<1>9. n + 1 \in Elses(u, i) <=> Source[x].pp = "else" /\ Balance(t, i, n) = 1 /\ IsOpen(t, i, n)
  <2>1. n + 1 \in i..Len(u)
    BY <1>1, <1>2
  <2>2. n + 1 \in Elses(u, i) <=>
          Source[x].pp = "else" /\ Balance(u, i, n + 1) = 1 /\ IsOpen(u, i, n + 1)
    BY <1>1, <2>1 DEF Elses
  <2>3. Source[x].pp = "else" => Balance(u, i, n + 1) = Balance(t, i, n)
    BY <1>5, <1>6 DEF Adds
  <2>4. Source[x].pp = "else" => (IsOpen(u, i, n + 1) <=> IsOpen(t, i, n))
    BY <1>7
  <2> QED BY <2>2, <2>3, <2>4
<1>10. \A j \in Elses(u, i) : j \in Nat /\ (j <= n \/ j = n + 1)
  <2>1. \A j \in i..(n + 1) : j \in Nat /\ (j <= n \/ j = n + 1)
    BY <1>1, <1>2
  <2>2. Elses(u, i) \subseteq i..(n + 1)
    BY <1>1, Zenon DEF Elses
  <2> QED BY <2>1, <2>2, Zenon
<1> QED BY <1>3, <1>5, <1>6, <1>7, <1>8, <1>9, <1>10 DEF u, n

(* A sequence without its last element.                                  *)
LEMMA FrontOfSequence ==
  ASSUME NEW S, NEW s \in Seq(S), Len(s) \in 1..Len(s)
  PROVE  /\ Front(s) \in Seq(S)
         /\ Len(Front(s)) = Len(s) - 1
         /\ \A k \in 1..(Len(s) - 1) : Front(s)[k] = s[k]
<1>1. PICK n \in Nat : Len(s) = n + 1
  <2>1. Len(s) - 1 \in Nat /\ Len(s) = (Len(s) - 1) + 1
    OBVIOUS
  <2> QED BY <2>1, Zenon
<1>2. Front(s) = SubSeq(s, 1, n) /\ n \in 0..Len(s)
  <2>1. Len(s) - 1 = n
    BY <1>1
  <2> QED BY <1>1, <2>1 DEF Front
<1>3. SubSeq(s, 1, n) \in Seq(S) /\ Len(SubSeq(s, 1, n)) = n /\ \A k \in 1..n : SubSeq(s, 1, n)[k] = s[k]
  BY <1>1
<1>4. Len(s) - 1 = n
  BY <1>1
<1> QED BY <1>2, <1>3, <1>4, Zenon

-----------------------------------------------------------------------------
(* The checkpoints                                                         *)

FirstElse(t, i) == CHOOSE e \in Elses(t, i) : \A j \in Elses(t, i) : e <= j

(* What is kept of the conditional of line i: the stack ahead of it, and   *)
(* the one ahead of its first #else                                        *)
Checkpoint(t, i) ==
  [stack_before_if   |-> StackOf(Start(t, i - 1)),
   stack_before_else |-> IF Elses(t, i) = {} THEN <<>> ELSE StackOf(Start(t, FirstElse(t, i) - 1)),
   seen_else         |-> Elses(t, i) # {}]

Checkpoints(t, opens) == [k \in 1..Len(opens) |-> Checkpoint(t, opens[k])]

(* "opens" has the conditionals that are open behind the text, the outer   *)
(* ones first                                                              *)
AreOpen(t, opens) ==
  /\ opens \in Seq(Nat)
  /\ \A k \in 1..Len(opens) : /\ opens[k] \in Conditionals(t)
                              /\ IsOpen(t, opens[k], Len(t))
                              /\ Balance(t, opens[k], Len(t)) = Len(opens) - k + 1
  /\ \A i \in Conditionals(t) : IsOpen(t, i, Len(t)) => \E k \in 1..Len(opens) : opens[k] = i

(* The first #else of a conditional that has one.                        *)
LEMMA FirstElseIsFirst ==
  ASSUME NEW t \in Texts, NEW i \in Conditionals(t), Elses(t, i) # {}
  PROVE  /\ FirstElse(t, i) \in Elses(t, i)
         /\ FirstElse(t, i) \in Nat
         /\ \A j \in Elses(t, i) : FirstElse(t, i) <= j
         /\ i < FirstElse(t, i) /\ FirstElse(t, i) <= Len(t)
<1>1. i \in Nat /\ Source[t[i]].pp = "if" /\ Len(t) \in Nat
  BY DEF Conditionals, Texts
<1>2. Elses(t, i) \subseteq Nat
  BY <1>1 DEF Elses
<1>3. \E e \in Elses(t, i) : \A j \in Elses(t, i) : e <= j
  BY <1>2, LeastNatural
<1>4. FirstElse(t, i) \in Elses(t, i) /\ \A j \in Elses(t, i) : FirstElse(t, i) <= j
  BY <1>3, Zenon DEF FirstElse
<1>5. \A j \in Elses(t, i) : j \in i..Len(t) /\ Source[t[j]].pp = "else"
  BY DEF Elses
<1> QED BY <1>1, <1>2, <1>4, <1>5

(* A checkpoint stays what it is unless its conditional has one more #else *)
LEMMA SameCheckpoint ==
  ASSUME NEW t \in Texts, NEW x \in DOMAIN Source, NEW i \in Conditionals(t),
         Elses(Append(t, x), i) = Elses(t, i)
  PROVE  Checkpoint(Append(t, x), i) = Checkpoint(t, i)
<1> DEFINE u == Append(t, x)
<1>1. i - 1 \in 0..Len(t)
  BY DEF Conditionals, Texts
<1>2. Start(u, i - 1) = Start(t, i - 1)
  BY <1>1, MoreText
<1>3. FirstElse(u, i) = FirstElse(t, i)
  BY Zenon DEF FirstElse
<1>4. Elses(t, i) # {} => Start(u, FirstElse(t, i) - 1) = Start(t, FirstElse(t, i) - 1)
  <2> SUFFICES ASSUME Elses(t, i) # {} PROVE Start(u, FirstElse(t, i) - 1) = Start(t, FirstElse(t, i) - 1)
    OBVIOUS
  <2>1. FirstElse(t, i) \in Nat /\ i \in Nat /\ i < FirstElse(t, i) /\ FirstElse(t, i) <= Len(t) /\ Len(t) \in Nat
    BY FirstElseIsFirst DEF Conditionals, Texts
  <2>2. FirstElse(t, i) - 1 \in 0..Len(t)
    BY <2>1
  <2> QED BY <2>2, MoreText
<1> QED BY <1>2, <1>3, <1>4, Zenon DEF Checkpoint

(* If the line belongs to no conditional it is read behind the text.       *)
LEMMA PlainLine ==
  ASSUME NEW t \in Texts, NEW x \in DOMAIN Source, NEW opens, AreOpen(t, opens),
         Source[x].pp # "if", Source[x].pp \in {"else", "endif"} => opens = <<>>
  PROVE  /\ AreOpen(Append(t, x), opens)
         /\ Checkpoints(Append(t, x), opens) = Checkpoints(t, opens)
         /\ IsBehind(Append(t, x), Len(t))
         /\ StackOf(Append(t, x)) = ReadLine(StackOf(t), Source[x], Len(t) + 1).stack
<1> DEFINE u == Append(t, x)
           n == Len(t)
<1>1. u \in Texts /\ n \in Nat /\ Len(u) = n + 1 /\ u[n + 1] = x /\ Start(u, n) = t /\ u # <<>>
  BY MoreText
<1>2. \A i : i \in Conditionals(u) <=> i \in Conditionals(t)
  BY MoreConditionals
<1>3. ASSUME NEW i \in Conditionals(t), IsOpen(t, i, n)
      PROVE  /\ IsOpen(u, i, n + 1)
             /\ Elses(u, i) = Elses(t, i)
             /\ Balance(u, i, n + 1) = Balance(t, i, n)
             /\ \A j \in Elses(u, i) : j <= n
  <2>1. \E k \in 1..Len(opens) : opens[k] = i
    BY <1>3 DEF AreOpen
  <2>2. opens # <<>>
    BY <2>1, EmptySeq
  <2>3. Source[x].pp \notin {"if", "else", "endif"}
    BY <2>2
  <2>4. Adds(Source[x]) = 0
    BY <2>3 DEF Adds
  <2>5. /\ Balance(t, i, n) \in Int
        /\ Balance(u, i, n + 1) = Balance(t, i, n) + Adds(Source[x])
        /\ IsOpen(u, i, n + 1) <=> IsOpen(t, i, n) /\ (Source[x].pp = "endif" => Balance(t, i, n) > 1)
        /\ Elses(t, i) = {j \in Elses(u, i) : j <= n}
        /\ n + 1 \in Elses(u, i) <=> Source[x].pp = "else" /\ Balance(t, i, n) = 1 /\ IsOpen(t, i, n)
        /\ \A j \in Elses(u, i) : j \in Nat /\ (j <= n \/ j = n + 1)
    BY MoreOfConditional
  <2>6. \A j \in Elses(u, i) : j <= n
    BY <2>3, <2>5
  <2>7. Elses(u, i) = Elses(t, i)
    BY <2>5, <2>6
  <2> QED BY <1>3, <2>3, <2>4, <2>5, <2>6, <2>7
<1>4. ASSUME NEW i \in Conditionals(t)
      PROVE  IsOpen(u, i, n) <=> IsOpen(t, i, n)
  <2>1. n \in 0..n
    BY <1>1
  <2> QED BY <2>1, MoreOfConditional
<1>5. \A i \in Conditionals(t) : IsOpen(u, i, n + 1) => IsOpen(t, i, n)
  BY MoreOfConditional
<1> HIDE DEF u, n
<1>6. AreOpen(u, opens)
  BY <1>1, <1>2, <1>3, <1>5 DEF AreOpen, n
<1>7. ASSUME NEW k \in 1..Len(opens) PROVE Checkpoint(u, opens[k]) = Checkpoint(t, opens[k])
  <2>1. opens[k] \in Conditionals(t) /\ IsOpen(t, opens[k], n)
    BY DEF AreOpen, n
  <2>2. Elses(u, opens[k]) = Elses(t, opens[k])
    BY <1>3, <2>1
  <2> QED BY <2>1, <2>2, SameCheckpoint DEF u
<1>8. Checkpoints(u, opens) = Checkpoints(t, opens)
  BY <1>7 DEF Checkpoints
<1>9. ASSUME NEW i \in Conditionals(u) PROVE Settled(u, i, n)
  BY <1>1, <1>2, <1>3, <1>4, Zenon DEF Settled
<1>10. IsBehind(u, n) /\ StackOf(u) = ReadLine(StackOf(Start(u, n)), Source[u[Len(u)]], Len(u)).stack
  <2>1. n \in 0..(Len(u) - 1) /\ \A m \in (n + 1)..(Len(u) - 1) : FALSE
    BY <1>1
  <2> QED BY <1>1, <1>9, <2>1, ReadBehind
<1> QED BY <1>1, <1>6, <1>8, <1>10 DEF u, n

(* An #if begins one more conditional, whose checkpoint is the stack.      *)
LEMMA IfLine ==
  ASSUME NEW t \in Texts, NEW x \in DOMAIN Source, NEW opens, AreOpen(t, opens), Source[x].pp = "if"
  PROVE  /\ AreOpen(Append(t, x), Append(opens, Len(t) + 1))
         /\ Checkpoints(Append(t, x), Append(opens, Len(t) + 1)) =
              Append(Checkpoints(t, opens), PreprocessorInfo(StackOf(t)))
         /\ IsBehind(Append(t, x), Len(t))
         /\ StackOf(Append(t, x)) = ReadLine(StackOf(t), Source[x], Len(t) + 1).stack
<1> DEFINE u == Append(t, x)
           n == Len(t)
           d == Len(opens)
           more == Append(opens, n + 1)
<1>1. u \in Texts /\ n \in Nat /\ Len(u) = n + 1 /\ u[n + 1] = x /\ Start(u, n) = t /\ u # <<>>
  BY MoreText
<1>2. /\ n + 1 \in Conditionals(u)
      /\ \A i : i \in Conditionals(u) <=> i \in Conditionals(t) \/ i = n + 1
      /\ \A i \in Conditionals(t) : i \in Nat /\ i <= n
  BY MoreConditionals
<1>3. ASSUME NEW i \in Conditionals(t)
      PROVE  /\ IsOpen(u, i, n + 1) <=> IsOpen(t, i, n)
             /\ IsOpen(u, i, n) <=> IsOpen(t, i, n)
             /\ Elses(u, i) = Elses(t, i)
             /\ Balance(t, i, n) \in Int
             /\ Balance(u, i, n + 1) = Balance(t, i, n) + 1
             /\ \A j \in Elses(u, i) : j <= n
  <2>1. /\ Balance(t, i, n) \in Int
        /\ Balance(u, i, n + 1) = Balance(t, i, n) + Adds(Source[x])
        /\ \A j \in 0..n : IsOpen(u, i, j) <=> IsOpen(t, i, j)
        /\ IsOpen(u, i, n + 1) <=> IsOpen(t, i, n) /\ (Source[x].pp = "endif" => Balance(t, i, n) > 1)
        /\ Elses(t, i) = {j \in Elses(u, i) : j <= n}
        /\ n + 1 \in Elses(u, i) <=> Source[x].pp = "else" /\ Balance(t, i, n) = 1 /\ IsOpen(t, i, n)
        /\ \A j \in Elses(u, i) : j \in Nat /\ (j <= n \/ j = n + 1)
    BY MoreOfConditional
  <2>2. Adds(Source[x]) = 1
    BY DEF Adds
  <2>3. \A j \in Elses(u, i) : j <= n
    BY <2>1
  <2>4. n \in 0..n
    BY <1>1
  <2> QED BY <2>1, <2>2, <2>3, <2>4
<1>4. /\ opens \in Seq(Nat) /\ d \in Nat
      /\ \A k \in 1..d : opens[k] \in Conditionals(t) /\ IsOpen(t, opens[k], n) /\ Balance(t, opens[k], n) = d - k + 1
      /\ \A i \in Conditionals(t) : IsOpen(t, i, n) => \E k \in 1..d : opens[k] = i
  <2>1. opens \in Seq(Nat)
    BY DEF AreOpen
  <2>2. d \in Nat
    BY <2>1
  <2> QED BY <2>1, <2>2, Zenon DEF AreOpen
<1>5. /\ more \in Seq(Nat) /\ Len(more) = d + 1 /\ more[d + 1] = n + 1
      /\ \A k \in 1..d : more[k] = opens[k]
  BY <1>1, <1>4
<1>6. /\ IsOpen(u, n + 1, n + 1) /\ Balance(u, n + 1, n + 1) = 1 /\ Elses(u, n + 1) = {}
  <2>1. Source[u[n + 1]].pp = "if" /\ n + 1 \in Nat \ {0}
    BY <1>1
  <2>2. (n + 1)..(n + 1) = {n + 1}
    BY <1>1
  <2>3. IsOpen(u, n + 1, n + 1)
    BY <2>1, <2>2 DEF IsOpen
  <2>4. Elses(u, n + 1) = {}
    BY <1>1, <2>1, <2>2 DEF Elses
  <2> QED BY <2>1, <2>3, <2>4, BalanceAtIf
<1> HIDE DEF u, n, d, more
<1>7. AreOpen(u, more)
  <2>1. ASSUME NEW k \in 1..Len(more)
        PROVE  more[k] \in Conditionals(u) /\ IsOpen(u, more[k], n + 1) /\ Balance(u, more[k], n + 1) = Len(more) - k + 1
    <3>1. CASE k \in 1..d
      <4>1. more[k] \in Conditionals(t) /\ IsOpen(t, more[k], n) /\ Balance(t, more[k], n) = d - k + 1
        BY <1>4, <1>5, <3>1
      <4> QED BY <1>2, <1>3, <1>4, <1>5, <3>1, <4>1
    <3>2. CASE k = d + 1
      BY <1>2, <1>4, <1>5, <1>6, <3>2
    <3>3. k \in 1..d \/ k = d + 1
      BY <1>4, <1>5
    <3> QED BY <3>1, <3>2, <3>3
  <2>2. ASSUME NEW i \in Conditionals(u), IsOpen(u, i, n + 1) PROVE \E k \in 1..Len(more) : more[k] = i
    <3>1. CASE i = n + 1
      <4>1. d + 1 \in 1..Len(more)
        BY <1>4, <1>5
      <4> QED BY <1>5, <3>1, <4>1
    <3>2. CASE i \in Conditionals(t)
      <4>1. PICK k \in 1..d : opens[k] = i
        BY <1>3, <1>4, <2>2, <3>2
      <4>2. k \in 1..Len(more) /\ more[k] = i
        BY <1>4, <1>5, <4>1
      <4> QED BY <4>2
    <3> QED BY <1>2, <3>1, <3>2
  <2> QED BY <1>1, <1>5, <2>1, <2>2 DEF AreOpen
<1>8. Checkpoints(u, more) = Append(Checkpoints(t, opens), PreprocessorInfo(StackOf(t)))
  <2>1. Checkpoint(u, n + 1) = PreprocessorInfo(StackOf(t))
    <3>1. (n + 1) - 1 = n
      BY <1>1
    <3> QED BY <1>1, <1>6, <3>1, Zenon DEF Checkpoint, PreprocessorInfo
  <2>2. \A k \in 1..d : Checkpoint(u, more[k]) = Checkpoint(t, opens[k])
    BY <1>3, <1>4, <1>5, SameCheckpoint DEF u
  <2>3. Checkpoints(t, opens) = [k \in 1..d |-> Checkpoint(t, opens[k])]
    BY DEF Checkpoints, d
  <2>4. Checkpoints(u, more) = [k \in 1..(d + 1) |-> IF k = d + 1 THEN PreprocessorInfo(StackOf(t))
                                                     ELSE Checkpoint(t, opens[k])]
    <3>1. \A k \in 1..(d + 1) : k = d + 1 \/ k \in 1..d
      BY <1>4
    <3> QED BY <1>4, <1>5, <2>1, <2>2, <3>1 DEF Checkpoints
  <2>5. Append([k \in 1..d |-> Checkpoint(t, opens[k])], PreprocessorInfo(StackOf(t)))
          = [k \in 1..(d + 1) |-> IF k = d + 1 THEN PreprocessorInfo(StackOf(t)) ELSE Checkpoint(t, opens[k])]
    BY <1>4
  <2> QED BY <2>3, <2>4, <2>5
<1>9. ASSUME NEW i \in Conditionals(u), i <= n PROVE Settled(u, i, n)
  <2>1. i \in Conditionals(t)
    BY <1>1, <1>2, <1>9
  <2> QED BY <1>1, <1>3, <2>1, Zenon DEF Settled
<1>10. IsBehind(u, n) /\ StackOf(u) = ReadLine(StackOf(Start(u, n)), Source[u[Len(u)]], Len(u)).stack
  <2>1. n \in 0..(Len(u) - 1) /\ \A m \in (n + 1)..(Len(u) - 1) : FALSE
    BY <1>1
  <2> QED BY <1>1, <1>9, <2>1, ReadBehind
<1> QED BY <1>1, <1>7, <1>8, <1>10 DEF u, n, more

(* The conditionals around one that is open stay open, and more than one   *)
(* is open in them                                                         *)
LEMMA Enclosing ==
  ASSUME NEW t \in Texts, NEW i \in Conditionals(t), NEW c \in Conditionals(t), c < i,
         NEW b \in Nat, i <= b, IsOpen(t, i, b), IsOpen(t, c, i - 1)
  PROVE  IsOpen(t, c, b) /\ \A k \in i..b : Balance(t, c, k) \in Nat /\ Balance(t, c, k) >= 2
<1>1. /\ i \in Nat \ {0} /\ c \in Nat \ {0} /\ i - 1 \in Nat /\ i - 1 \in c..(i - 1)
      /\ Source[t[i]].pp = "if" /\ Source[t[c]].pp = "if"
  BY DEF Conditionals
<1>2. Balance(t, c, i - 1) \in Nat /\ Balance(t, c, i - 1) > 0
  BY <1>1, OpenBalance
<1>3. ASSUME NEW k \in i..b PROVE Balance(t, c, k) \in Nat /\ Balance(t, c, k) >= 2
  <2>1. Balance(t, i, k) \in Nat /\ Balance(t, i, k) > 0
    BY <1>1, OpenBalance
  <2>2. k \in Nat /\ i - 1 <= k
    BY <1>1
  <2>3. Balance(t, c, k) = Balance(t, c, i - 1) + Balance(t, i, k)
    BY <1>1, <2>2, BalanceSum
  <2> QED BY <1>2, <2>1, <2>3
<1>4. \A k \in c..b : k \in c..(i - 1) \/ k \in i..b
  BY <1>1
<1>5. \A k \in i..b : Balance(t, c, k) > 0
  BY <1>3
<1>6. IsOpen(t, c, b)
  BY <1>4, <1>5, Zenon DEF IsOpen
<1> QED BY <1>3, <1>6

(* An #else belongs to the last conditional that is open.                  *)
LEMMA ElseLine ==
  ASSUME NEW t \in Texts, NEW x \in DOMAIN Source, NEW opens, AreOpen(t, opens), Source[x].pp = "else",
         opens # <<>>
  PROVE  LET i == Last(opens)
         IN /\ AreOpen(Append(t, x), opens)
            /\ i \in Conditionals(t)
            /\ Elses(Append(t, x), i) = Elses(t, i) \cup {Len(t) + 1}
            /\ \A k \in 1..(Len(opens) - 1) : Checkpoint(Append(t, x), opens[k]) = Checkpoint(t, opens[k])
            /\ IsBehind(Append(t, x), i - 1)
            /\ StackOf(Append(t, x)) = ReadLine(StackOf(Start(t, i - 1)), Source[x], Len(t) + 1).stack
<1> DEFINE u == Append(t, x)
           n == Len(t)
           d == Len(opens)
           i == opens[d]
<1>1. u \in Texts /\ n \in Nat /\ Len(u) = n + 1 /\ u[n + 1] = x /\ u # <<>>
  BY MoreText
<1>2. /\ \A c : c \in Conditionals(u) <=> c \in Conditionals(t)
      /\ \A c \in Conditionals(t) : c \in Nat \ {0} /\ c <= n
  BY MoreConditionals
<1>3. ASSUME NEW c \in Conditionals(t)
      PROVE  /\ IsOpen(u, c, n + 1) <=> IsOpen(t, c, n)
             /\ Balance(t, c, n) \in Int
             /\ Balance(u, c, n + 1) = Balance(t, c, n)
             /\ Elses(t, c) = {j \in Elses(u, c) : j <= n}
             /\ n + 1 \in Elses(u, c) <=> Balance(t, c, n) = 1 /\ IsOpen(t, c, n)
             /\ \A j \in Elses(u, c) : j \in Nat /\ (j <= n \/ j = n + 1)
  <2>1. /\ Balance(t, c, n) \in Int
        /\ Balance(u, c, n + 1) = Balance(t, c, n) + Adds(Source[x])
        /\ IsOpen(u, c, n + 1) <=> IsOpen(t, c, n) /\ (Source[x].pp = "endif" => Balance(t, c, n) > 1)
        /\ Elses(t, c) = {j \in Elses(u, c) : j <= n}
        /\ n + 1 \in Elses(u, c) <=> Source[x].pp = "else" /\ Balance(t, c, n) = 1 /\ IsOpen(t, c, n)
        /\ \A j \in Elses(u, c) : j \in Nat /\ (j <= n \/ j = n + 1)
    BY MoreOfConditional
  <2>2. Adds(Source[x]) = 0
    BY DEF Adds
  <2> QED BY <2>1, <2>2
<1>4. /\ opens \in Seq(Nat) /\ d \in Nat /\ d \in 1..d
      /\ \A k \in 1..d : opens[k] \in Conditionals(t) /\ IsOpen(t, opens[k], n) /\ Balance(t, opens[k], n) = d - k + 1
      /\ \A c \in Conditionals(t) : IsOpen(t, c, n) => \E k \in 1..d : opens[k] = c
  <2>1. opens \in Seq(Nat)
    BY DEF AreOpen
  <2>2. d \in Nat /\ d \in 1..d
    BY <2>1, EmptySeq
  <2> QED BY <2>1, <2>2, Zenon DEF AreOpen
<1>5. Last(opens) = i
  BY DEF Last
<1> HIDE DEF u, n, d
<1>6. i \in Conditionals(t) /\ IsOpen(t, i, n) /\ Balance(t, i, n) = 1
  BY <1>4
<1> HIDE DEF i
<1>7. AreOpen(u, opens)
  BY <1>1, <1>2, <1>3, <1>4, Zenon DEF AreOpen, d
<1>8. n + 1 \in Elses(u, i) /\ Elses(u, i) = Elses(t, i) \cup {n + 1}
  BY <1>1, <1>3, <1>6
<1>9. ASSUME NEW k \in 1..(d - 1) PROVE Checkpoint(u, opens[k]) = Checkpoint(t, opens[k])
  <2>1. opens[k] \in Conditionals(t) /\ Balance(t, opens[k], n) = d - k + 1 /\ d - k + 1 # 1
    BY <1>4
  <2>2. n + 1 \notin Elses(u, opens[k])
    BY <1>3, <2>1
  <2>3. Elses(u, opens[k]) = Elses(t, opens[k])
    BY <1>3, <2>1, <2>2
  <2> QED BY <2>1, <2>3, SameCheckpoint DEF u
<1>10. i \in Nat \ {0} /\ i <= n /\ i - 1 \in 0..n /\ i - 1 \in Nat
  BY <1>1, <1>2, <1>6
<1>11. IsOpen(u, i, n + 1)
  BY <1>3, <1>6
<1>12. ASSUME NEW c \in Conditionals(u), c <= i - 1 PROVE Settled(u, c, i - 1)
  <2>0. c \in Conditionals(t) /\ i \in Conditionals(u)
    BY <1>2, <1>6
  <2>1. c \in Nat /\ c < i /\ n + 1 \in Nat /\ i <= n + 1
    <3>1. c \in Nat
      BY <1>2, <2>0
    <3> QED BY <1>1, <1>10, <1>12, <3>1
  <2>2. CASE IsOpen(u, c, i - 1)
    <3>1. IsOpen(u, c, n + 1) /\ \A k \in i..(n + 1) : Balance(u, c, k) \in Nat /\ Balance(u, c, k) >= 2
      BY <1>1, <1>11, <2>0, <2>1, <2>2, Enclosing
    <3>2. ASSUME NEW j \in Elses(u, c) PROVE j <= i - 1
      <4>1. j \in Nat /\ j <= n + 1 /\ Balance(u, c, j) = 1
        BY <1>1, <1>3, <2>0 DEF Elses
      <4>2. ~(j \in i..(n + 1))
        BY <3>1, <4>1
      <4> QED BY <1>10, <4>1, <4>2
    <3> QED BY <1>1, <3>1, <3>2, Zenon DEF Settled
  <2> QED BY <2>2 DEF Settled
<1>13. ASSUME NEW m \in ((i - 1) + 1)..(Len(u) - 1) PROVE m \in OtherBranches(u)
  <2>1. m \in i..((n + 1) - 1)
    BY <1>1, <1>10
  <2>2. m \in BranchesOf(u, i)
    BY <1>1, <1>8, <1>11, <2>1, InBranches
  <2> QED BY <1>2, <1>6, <2>2, InOtherBranches
<1>14. IsBehind(u, i - 1) /\ StackOf(u) = ReadLine(StackOf(Start(u, i - 1)), Source[u[Len(u)]], Len(u)).stack
  <2>1. i - 1 \in 0..(Len(u) - 1)
    BY <1>1, <1>10
  <2> QED BY <1>1, <1>12, <1>13, <2>1, ReadBehind
<1>15. Start(u, i - 1) = Start(t, i - 1)
  BY <1>10, MoreText DEF u, n
<1> QED BY <1>1, <1>5, <1>6, <1>7, <1>8, <1>9, <1>14, <1>15 DEF u, n, d

(* An #endif ends the last conditional that is open: the stack stays if it *)
(* has no #else, and is that ahead of the first one otherwise.             *)
LEMMA EndIfLine ==
  ASSUME NEW t \in Texts, NEW x \in DOMAIN Source, NEW opens, AreOpen(t, opens), Source[x].pp = "endif",
         opens # <<>>
  PROVE  LET i == Last(opens)
         IN /\ i \in Conditionals(t)
            /\ AreOpen(Append(t, x), Front(opens))
            /\ \A k \in 1..(Len(opens) - 1) :
                 /\ Front(opens)[k] = opens[k]
                 /\ Checkpoint(Append(t, x), opens[k]) = Checkpoint(t, opens[k])
            /\ \E a : IsBehind(Append(t, x), a) /\ (a = Len(t) \/ Source[t[a + 1]].pp # "none")
            /\ StackOf(Append(t, x)) =
                 ReadLine(IF Elses(t, i) = {} THEN StackOf(t) ELSE StackOf(Start(t, FirstElse(t, i) - 1)),
                          Source[x], Len(t) + 1).stack
<1> DEFINE u == Append(t, x)
           n == Len(t)
           d == Len(opens)
           i == opens[d]
           fewer == Front(opens)
           e == FirstElse(t, i)
<1>1. u \in Texts /\ n \in Nat /\ Len(u) = n + 1 /\ u[n + 1] = x /\ u # <<>> /\ Start(u, n) = t
  BY MoreText
<1>2. /\ \A c : c \in Conditionals(u) <=> c \in Conditionals(t)
      /\ \A c \in Conditionals(t) : c \in Nat \ {0} /\ c <= n /\ Source[t[c]].pp = "if"
  BY MoreConditionals
<1>3. ASSUME NEW c \in Conditionals(t)
      PROVE  /\ IsOpen(u, c, n + 1) <=> IsOpen(t, c, n) /\ Balance(t, c, n) > 1
             /\ Balance(t, c, n) \in Int
             /\ Balance(u, c, n + 1) = Balance(t, c, n) - 1
             /\ Elses(u, c) = Elses(t, c)
             /\ \A j \in Elses(t, c) : j \in Nat /\ j <= n
             /\ \A j \in 0..n : Balance(u, c, j) = Balance(t, c, j) /\ (IsOpen(u, c, j) <=> IsOpen(t, c, j))
  <2>1. /\ Balance(t, c, n) \in Int
        /\ Balance(u, c, n + 1) = Balance(t, c, n) + Adds(Source[x])
        /\ IsOpen(u, c, n + 1) <=> IsOpen(t, c, n) /\ (Source[x].pp = "endif" => Balance(t, c, n) > 1)
        /\ Elses(t, c) = {j \in Elses(u, c) : j <= n}
        /\ n + 1 \in Elses(u, c) <=> Source[x].pp = "else" /\ Balance(t, c, n) = 1 /\ IsOpen(t, c, n)
        /\ \A j \in Elses(u, c) : j \in Nat /\ (j <= n \/ j = n + 1)
        /\ \A j \in 0..n : Balance(u, c, j) = Balance(t, c, j) /\ (IsOpen(u, c, j) <=> IsOpen(t, c, j))
    BY MoreOfConditional
  <2>2. Adds(Source[x]) = -1
    BY DEF Adds
  <2>3. \A j \in Elses(u, c) : j <= n
    BY <2>1
  <2> QED BY <2>1, <2>2, <2>3
<1>4. /\ opens \in Seq(Nat) /\ d \in Nat /\ d \in 1..d
      /\ \A k \in 1..d : opens[k] \in Conditionals(t) /\ IsOpen(t, opens[k], n) /\ Balance(t, opens[k], n) = d - k + 1
      /\ \A c \in Conditionals(t) : IsOpen(t, c, n) => \E k \in 1..d : opens[k] = c
  <2>1. opens \in Seq(Nat)
    BY DEF AreOpen
  <2>2. d \in Nat /\ d \in 1..d
    BY <2>1, EmptySeq
  <2> QED BY <2>1, <2>2, Zenon DEF AreOpen
<1>5. Last(opens) = i
  BY DEF Last
<1>6. fewer \in Seq(Nat) /\ Len(fewer) = d - 1 /\ \A k \in 1..(d - 1) : fewer[k] = opens[k]
  BY <1>4, FrontOfSequence
<1> HIDE DEF u, n, d, fewer
<1>7. i \in Conditionals(t) /\ IsOpen(t, i, n) /\ Balance(t, i, n) = 1
  BY <1>4
<1> HIDE DEF i
<1>8. ASSUME NEW k \in 1..(d - 1)
      PROVE  /\ opens[k] \in Conditionals(u) /\ IsOpen(u, opens[k], n + 1)
             /\ Balance(u, opens[k], n + 1) = (d - 1) - k + 1
             /\ Checkpoint(u, opens[k]) = Checkpoint(t, opens[k])
  <2>1. opens[k] \in Conditionals(t) /\ IsOpen(t, opens[k], n) /\ Balance(t, opens[k], n) = d - k + 1 /\ d - k + 1 > 1
    BY <1>4
  <2>2. Checkpoint(u, opens[k]) = Checkpoint(t, opens[k])
    BY <1>3, <2>1, SameCheckpoint DEF u
  <2>3. IsOpen(u, opens[k], n + 1) /\ Balance(u, opens[k], n + 1) = (d - 1) - k + 1
    BY <1>3, <1>4, <2>1
  <2> QED BY <1>2, <2>1, <2>2, <2>3
<1>9. AreOpen(u, fewer)
  <2>1. ASSUME NEW c \in Conditionals(u), IsOpen(u, c, n + 1) PROVE \E k \in 1..(d - 1) : fewer[k] = c
    <3>1. c \in Conditionals(t) /\ IsOpen(t, c, n) /\ Balance(t, c, n) > 1
      BY <1>2, <1>3, <2>1
    <3>2. PICK k \in 1..d : opens[k] = c
      BY <1>4, <3>1
    <3>3. k # d
      BY <1>7, <3>1, <3>2 DEF i
    <3>4. k \in 1..(d - 1)
      BY <1>4, <3>2, <3>3
    <3> QED BY <1>6, <3>2, <3>4
  <2>2. \A k \in 1..(d - 1) : /\ fewer[k] \in Conditionals(u) /\ IsOpen(u, fewer[k], n + 1)
                              /\ Balance(u, fewer[k], n + 1) = (d - 1) - k + 1
    BY <1>6, <1>8
  <2> QED BY <1>1, <1>6, <2>1, <2>2, Zenon DEF AreOpen
<1>10. i \in Nat \ {0} /\ i <= n
  BY <1>2, <1>7
<1>11. ~IsOpen(u, i, n + 1)
  BY <1>3, <1>7
<1>12. CASE Elses(t, i) = {}
  <2>1. ASSUME NEW c \in Conditionals(u), c <= n PROVE Settled(u, c, n)
    <3>1. c \in Conditionals(t) /\ n \in 0..n
      BY <1>1, <1>2
    <3>2. CASE ~IsOpen(t, c, n)
      BY <1>3, <3>1, <3>2, Zenon DEF Settled
    <3>3. CASE IsOpen(t, c, n)
      <4>1. PICK k \in 1..d : opens[k] = c
        BY <1>4, <3>1, <3>3
      <4>2. CASE k = d
        <5>1. c = i
          BY <4>1, <4>2 DEF i
        <5> QED BY <1>1, <1>3, <1>7, <1>11, <1>12, <5>1, Zenon DEF Settled
      <4>3. CASE k # d
        <5>1. k \in 1..(d - 1)
          BY <1>4, <4>3
        <5>2. IsOpen(u, c, n + 1)
          BY <1>8, <4>1, <5>1
        <5> QED BY <1>1, <1>3, <3>1, <5>2, Zenon DEF Settled
      <4> QED BY <4>2, <4>3
    <3> QED BY <3>2, <3>3
  <2>2. n \in 0..(Len(u) - 1) /\ \A m \in (n + 1)..(Len(u) - 1) : FALSE
    BY <1>1
  <2>3. IsBehind(u, n) /\ StackOf(u) = ReadLine(StackOf(Start(u, n)), Source[u[Len(u)]], Len(u)).stack
    BY <1>1, <2>1, <2>2, ReadBehind
  <2> QED BY <1>1, <1>5, <1>6, <1>7, <1>8, <1>9, <1>12, <2>3 DEF u, n, d, fewer
<1>13. CASE Elses(t, i) # {}
  <2>1. /\ e \in Elses(t, i) /\ e \in Nat /\ \A j \in Elses(t, i) : e <= j
        /\ i < e /\ e <= n
    BY <1>7, <1>13, FirstElseIsFirst DEF n
  <2>2. Source[t[e]].pp = "else" /\ Balance(t, i, e) = 1
    BY <2>1 DEF Elses
  <2> HIDE DEF e
  <2>3. Balance(t, i, e - 1) = 1
    <3>1. e - 1 \in Nat /\ i <= (e - 1) + 1 /\ (e - 1) + 1 = e
      BY <1>10, <2>1
    <3>2. /\ Balance(t, i, e - 1) \in Int
          /\ Balance(t, i, (e - 1) + 1) = Balance(t, i, e - 1) + Adds(Source[t[(e - 1) + 1]])
      BY <1>10, <3>1, BalanceNext
    <3>3. Adds(Source[t[e]]) = 0
      BY <2>2 DEF Adds
    <3> QED BY <2>2, <3>1, <3>2, <3>3
  <2>4. e - 1 \in 0..n /\ e - 1 \in Nat /\ e - 1 \in 0..(Len(u) - 1)
    BY <1>1, <1>10, <2>1
  <2>5. ASSUME NEW c \in Conditionals(u), c <= e - 1 PROVE Settled(u, c, e - 1)
    <3>1. c \in Conditionals(t) /\ c \in Nat \ {0} /\ c <= n /\ Source[t[c]].pp = "if"
      BY <1>2
    <3>2. IsOpen(u, c, e - 1) <=> IsOpen(t, c, e - 1)
      BY <1>3, <2>4, <3>1
    <3>3. CASE c = i
      <4>1. \A j \in Elses(u, c) : j > e - 1
        BY <1>3, <1>7, <2>1, <3>3
      <4> QED BY <1>1, <1>11, <3>3, <4>1, Zenon DEF Settled
    <3>4. CASE c < i /\ IsOpen(t, c, e - 1)
      <4>1. i - 1 \in Nat /\ i - 1 <= e - 1
        BY <1>10, <2>1
      <4>2. IsOpen(t, c, i - 1)
        BY <2>4, <3>1, <3>4, <4>1, OpenBefore
      <4>3. IsOpen(t, c, n) /\ \A k \in i..n : Balance(t, c, k) \in Nat /\ Balance(t, c, k) >= 2
        BY <1>1, <1>7, <1>10, <3>1, <3>4, <4>2, Enclosing
      <4>4. n \in i..n
        BY <1>1, <1>10
      <4>5. IsOpen(u, c, n + 1)
        BY <1>3, <3>1, <4>3, <4>4
      <4>6. ASSUME NEW j \in Elses(u, c) PROVE j <= e - 1
        <5>1. j \in Nat /\ j <= n /\ Balance(t, c, j) = 1
          BY <1>3, <3>1 DEF Elses
        <5>2. ~(j \in i..n)
          BY <4>3, <5>1
        <5> QED BY <1>10, <2>1, <5>1, <5>2
      <4> QED BY <1>1, <4>5, <4>6, Zenon DEF Settled
    <3>5. CASE i < c
      <4>0. c \in Nat \ {0} /\ c <= n /\ c <= e - 1
        BY <2>5, <3>1
      <4>1. c - 1 \in Nat /\ c - 1 \in i..n /\ c - 1 <= e - 1 /\ e - 1 \in c..(e - 1)
        BY <1>1, <1>10, <2>1, <3>5, <4>0
      <4>2. Balance(t, i, c - 1) \in Nat /\ Balance(t, i, c - 1) > 0
        BY <1>1, <1>2, <1>7, <1>10, <4>1, OpenBalance
      <4>3. Balance(t, i, e - 1) = Balance(t, i, c - 1) + Balance(t, c, e - 1)
        BY <1>10, <2>4, <3>1, <3>5, <4>1, BalanceSum
      <4>4. ASSUME IsOpen(t, c, e - 1) PROVE FALSE
        <5>1. Balance(t, c, e - 1) \in Nat /\ Balance(t, c, e - 1) > 0
          BY <2>4, <3>1, <4>1, <4>4, OpenBalance
        <5> QED BY <2>3, <4>2, <4>3, <5>1
      <4> QED BY <3>2, <4>4, Zenon DEF Settled
    <3>6. CASE ~IsOpen(t, c, e - 1)
      BY <3>2, <3>6, Zenon DEF Settled
    <3>7. c = i \/ c < i \/ i < c
      BY <1>10, <3>1
    <3> QED BY <3>3, <3>4, <3>5, <3>6, <3>7
  <2>6. ASSUME NEW m \in ((e - 1) + 1)..(Len(u) - 1) PROVE m \in OtherBranches(u)
    <3>1. m \in Nat /\ e <= m /\ m <= n /\ m \in e..Len(u) /\ m \in 0..n
      BY <1>1, <2>1
    <3>2. IsOpen(t, i, m)
      BY <1>1, <1>7, <1>10, <3>1, OpenBefore
    <3>3. IsOpen(u, i, m) /\ e \in Elses(u, i)
      BY <1>3, <1>7, <2>1, <3>1, <3>2
    <3>4. m \in BranchesOf(u, i)
      BY <1>1, <1>11, <3>1, <3>3, InBranches
    <3> QED BY <1>2, <1>7, <3>4, InOtherBranches
  <2>7. IsBehind(u, e - 1) /\ StackOf(u) = ReadLine(StackOf(Start(u, e - 1)), Source[u[Len(u)]], Len(u)).stack
    BY <1>1, <2>4, <2>5, <2>6, ReadBehind
  <2>8. Start(u, e - 1) = Start(t, e - 1)
    BY <2>4, MoreText DEF u, n
  <2>9. (e - 1) + 1 = e /\ Source[t[e]].pp # "none"
    BY <2>1, <2>2
  <2>10. \E a : IsBehind(u, a) /\ (a = n \/ Source[t[a + 1]].pp # "none")
    BY <2>7, <2>9
  <2> QED BY <1>1, <1>5, <1>6, <1>7, <1>8, <1>9, <1>13, <2>7, <2>8, <2>10 DEF u, n, d, fewer, e
<1> QED BY <1>12, <1>13

-----------------------------------------------------------------------------
(* The invariant                                                           *)

HasCheckpoints(t, pp) == \E opens : AreOpen(t, opens) /\ pp = Checkpoints(t, opens)

NestInv ==
  /\ text \in Texts
  /\ stack = StackOf(text)
  /\ HasCheckpoints(text, pp_stack)
  /\ completed => reports = {b.starting_linenum : b \in Unfinished(StackOf(text))}

(* There is one checkpoint for each conditional that is open.            *)
LEMMA CheckpointsAre ==
  ASSUME NEW t, NEW opens, AreOpen(t, opens)
  PROVE  /\ Checkpoints(t, opens) \in Seq({Checkpoint(t, opens[k]) : k \in 1..Len(opens)})
         /\ Len(Checkpoints(t, opens)) = Len(opens)
         /\ Len(opens) \in Nat
         /\ Checkpoints(t, opens) = <<>> <=> opens = <<>>
         /\ opens # <<>> => /\ Len(opens) \in 1..Len(opens)
                            /\ Last(Checkpoints(t, opens)) = Checkpoint(t, Last(opens))
<1> DEFINE S == {Checkpoint(t, opens[k]) : k \in 1..Len(opens)}
<1>1. opens \in Seq(Nat) /\ Len(opens) \in Nat
  BY DEF AreOpen
<1>2. \A k \in 1..Len(opens) : Checkpoint(t, opens[k]) \in S
  OBVIOUS
<1> HIDE DEF S
<1>3. Checkpoints(t, opens) \in Seq(S) /\ Len(Checkpoints(t, opens)) = Len(opens)
  BY <1>1, <1>2 DEF Checkpoints
<1>4. Checkpoints(t, opens) = <<>> <=> opens = <<>>
  BY <1>1, <1>3, EmptySeq
<1>5. opens # <<>> => Len(opens) \in 1..Len(opens)
  BY <1>1, EmptySeq
<1>6. opens # <<>> => Last(Checkpoints(t, opens)) = Checkpoint(t, Last(opens))
  BY <1>1, <1>3, <1>5 DEF Checkpoints, Last
<1> QED BY <1>1, <1>3, <1>4, <1>5, <1>6 DEF S

(* The two stacks of a record of them.                                   *)
LEMMA FieldsOfStacks ==
  ASSUME NEW s, NEW a, NEW b, s = [stack |-> a, pp_stack |-> b]
  PROVE  s.stack = a /\ s.pp_stack = b
OBVIOUS

(* One more #else changes the checkpoint only if it is the first.          *)
LEMMA OneMoreElse ==
  ASSUME NEW t \in Texts, NEW x \in DOMAIN Source, NEW i \in Conditionals(t),
         Elses(Append(t, x), i) = Elses(t, i) \cup {Len(t) + 1}
  PROVE  LET point == Checkpoint(t, i)
         IN Checkpoint(Append(t, x), i) =
              IF point.seen_else THEN point
              ELSE [stack_before_if |-> point.stack_before_if, stack_before_else |-> StackOf(t), seen_else |-> TRUE]
<1> DEFINE u == Append(t, x)
           n == Len(t)
           point == Checkpoint(t, i)
<1>1. /\ n \in Nat /\ \A a \in 0..n : Start(u, a) = Start(t, a)
      /\ Start(u, n) = t /\ i - 1 \in 0..n /\ (n + 1) - 1 = n
  BY MoreText DEF Conditionals
<1>2. /\ point.seen_else <=> Elses(t, i) # {}
      /\ point.stack_before_if = StackOf(Start(t, i - 1))
      /\ point.stack_before_else = IF Elses(t, i) = {} THEN <<>> ELSE StackOf(Start(t, FirstElse(t, i) - 1))
  BY Zenon DEF Checkpoint
<1>3. Elses(u, i) # {}
  OBVIOUS
<1>4. Start(u, i - 1) = Start(t, i - 1)
  BY <1>1
<1>5. \A j \in Elses(t, i) : j \in Nat /\ j <= n
  BY <1>1 DEF Elses, Conditionals
<1>6. u \in Texts /\ i \in Conditionals(u)
  BY MoreText, MoreConditionals
<1>7. /\ FirstElse(u, i) \in Elses(u, i) /\ FirstElse(u, i) \in Nat
      /\ \A j \in Elses(u, i) : FirstElse(u, i) <= j
  BY <1>3, <1>6, FirstElseIsFirst
<1> HIDE DEF u, n
<1>8. Elses(u, i) = Elses(t, i) \cup {n + 1}
  BY DEF u, n
<1>9. CASE Elses(t, i) = {}
  <2>1. FirstElse(u, i) = n + 1
    BY <1>7, <1>8, <1>9
  <2>2. StackOf(Start(u, FirstElse(u, i) - 1)) = StackOf(t)
    BY <1>1, <2>1
  <2>3. Checkpoint(u, i) = [stack_before_if |-> StackOf(Start(t, i - 1)), stack_before_else |-> StackOf(t),
                            seen_else |-> TRUE]
    <3>1. (Elses(u, i) # {}) = TRUE
      BY <1>3
    <3> QED BY <1>3, <1>4, <2>2, <3>1, Zenon DEF Checkpoint
  <2>5. ~point.seen_else
    BY <1>2, <1>9
  <2> QED BY <1>2, <2>3, <2>5, Zenon DEF u, n
<1>10. CASE Elses(t, i) # {}
  <2>1. /\ FirstElse(t, i) \in Elses(t, i) /\ FirstElse(t, i) \in Nat
        /\ \A j \in Elses(t, i) : FirstElse(t, i) <= j
        /\ i < FirstElse(t, i) /\ FirstElse(t, i) <= n
    BY <1>10, FirstElseIsFirst DEF n
  <2>2. FirstElse(u, i) = FirstElse(t, i)
    <3>1. FirstElse(t, i) \in Elses(u, i) /\ FirstElse(u, i) <= FirstElse(t, i)
      BY <1>7, <1>8, <2>1
    <3>2. FirstElse(u, i) # n + 1
      BY <1>1, <1>7, <2>1, <3>1
    <3>3. FirstElse(t, i) <= FirstElse(u, i)
      BY <1>7, <1>8, <2>1, <3>2
    <3> QED BY <1>7, <2>1, <3>1, <3>3
  <2>3. FirstElse(t, i) - 1 \in 0..n
    <3>1. i \in Nat
      BY DEF Conditionals
    <3> QED BY <1>1, <2>1, <3>1
  <2>4. Start(u, FirstElse(u, i) - 1) = Start(t, FirstElse(t, i) - 1)
    BY <1>1, <2>2, <2>3
  <2>5. (Elses(u, i) # {}) = (Elses(t, i) # {})
    BY <1>3, <1>10
  <2>6. Checkpoint(u, i) = point
    BY <1>3, <1>4, <1>10, <2>4, <2>5, Zenon DEF Checkpoint
  <2>7. point.seen_else
    BY <1>2, <1>10
  <2> QED BY <2>6, <2>7, Zenon DEF u, n
<1> QED BY <1>9, <1>10

(* UpdatePreprocessor gives the checkpoints of the text with the line, and *)
(* the stack behind which the line is read.                                *)
LEMMA UpdatePreprocessorIsRight ==
  ASSUME NEW t \in Texts, NEW x \in DOMAIN Source, NEW s,
         s = [stack |-> StackOf(t), pp_stack |-> s.pp_stack], HasCheckpoints(t, s.pp_stack)
  PROVE  LET after == UpdatePreprocessor(s, Source[x])
         IN /\ HasCheckpoints(Append(t, x), after.pp_stack)
            /\ StackOf(Append(t, x)) = ReadLine(after.stack, Source[x], Len(t) + 1).stack
            /\ \E a : /\ IsBehind(Append(t, x), a)
                      /\ a = Len(t) \/ Source[t[a + 1]].pp # "none"
                      /\ Source[x].pp \notin {"if", "else", "endif"} => a = Len(t)
<1> DEFINE u == Append(t, x)
           n == Len(t)
           line == Source[x]
<1>1. PICK opens : AreOpen(t, opens) /\ s.pp_stack = Checkpoints(t, opens)
  BY DEF HasCheckpoints
<1>2. s.stack = StackOf(t)
  OBVIOUS
<1>3. /\ s.pp_stack \in Seq({Checkpoint(t, opens[k]) : k \in 1..Len(opens)})
      /\ Len(s.pp_stack) = Len(opens) /\ Len(opens) \in Nat
      /\ s.pp_stack = <<>> <=> opens = <<>>
      /\ opens # <<>> => Len(opens) \in 1..Len(opens) /\ Last(s.pp_stack) = Checkpoint(t, Last(opens))
  BY <1>1, CheckpointsAre
<1> HIDE DEF u, n, line
<1>4. CASE line.pp = "if"
  <2>1. UpdatePreprocessor(s, line) = BeginIf(s)
    BY <1>4 DEF UpdatePreprocessor
  <2>2. BeginIf(s) = [stack |-> StackOf(t), pp_stack |-> Append(Checkpoints(t, opens), PreprocessorInfo(StackOf(t)))]
    BY <1>1, <1>2 DEF BeginIf
  <2>3. /\ AreOpen(u, Append(opens, n + 1))
        /\ Checkpoints(u, Append(opens, n + 1)) = Append(Checkpoints(t, opens), PreprocessorInfo(StackOf(t)))
        /\ IsBehind(u, n)
        /\ StackOf(u) = ReadLine(StackOf(t), line, n + 1).stack
    BY <1>1, <1>4, IfLine DEF u, n, line
  <2>4. HasCheckpoints(u, UpdatePreprocessor(s, line).pp_stack) /\ UpdatePreprocessor(s, line).stack = StackOf(t)
    BY <2>1, <2>2, <2>3 DEF HasCheckpoints
  <2> QED BY <1>4, <2>3, <2>4, Zenon DEF u, n, line
<1>5. CASE line.pp \notin {"if", "else", "endif"} \/ (line.pp \in {"else", "endif"} /\ opens = <<>>)
  <2>1. UpdatePreprocessor(s, line) = s
    BY <1>3, <1>5 DEF UpdatePreprocessor, BeginElse, EndIf
  <2>2. /\ AreOpen(u, opens)
        /\ Checkpoints(u, opens) = Checkpoints(t, opens)
        /\ IsBehind(u, n)
        /\ StackOf(u) = ReadLine(StackOf(t), line, n + 1).stack
    BY <1>1, <1>5, PlainLine DEF u, n, line
  <2> QED BY <1>1, <1>2, <2>1, <2>2 DEF HasCheckpoints, u, n, line
<1>6. ASSUME opens # <<>>
      PROVE  /\ s.pp_stack # <<>>
             /\ Last(s.pp_stack) = Checkpoint(t, Last(opens))
             /\ Len(opens) \in 1..Len(opens)
             /\ Front(s.pp_stack) \in Seq({Checkpoint(t, opens[k]) : k \in 1..Len(opens)})
             /\ Len(Front(s.pp_stack)) = Len(opens) - 1
             /\ \A k \in 1..(Len(opens) - 1) : Front(s.pp_stack)[k] = Checkpoint(t, opens[k])
  <2>1. /\ Front(s.pp_stack) \in Seq({Checkpoint(t, opens[k]) : k \in 1..Len(opens)})
        /\ Len(Front(s.pp_stack)) = Len(opens) - 1
        /\ \A k \in 1..(Len(opens) - 1) : Front(s.pp_stack)[k] = s.pp_stack[k]
    BY <1>3, <1>6, FrontOfSequence
  <2>2. \A k \in 1..(Len(opens) - 1) : s.pp_stack[k] = Checkpoint(t, opens[k])
    BY <1>1, <1>3 DEF Checkpoints
  <2> QED BY <1>3, <1>6, <2>1, <2>2
<1> DEFINE i == Last(opens)
           point == Checkpoint(t, i)
<1>7. CASE line.pp = "endif" /\ opens # <<>>
  <2>1. UpdatePreprocessor(s, line) = EndIf(s)
    BY <1>7 DEF UpdatePreprocessor
  <2>2. EndIf(s) = [stack |-> IF point.seen_else THEN point.stack_before_else ELSE StackOf(t),
                    pp_stack |-> Front(s.pp_stack)]
    BY <1>2, <1>6, <1>7, Zenon DEF EndIf
  <2>3. /\ AreOpen(u, Front(opens))
        /\ \A k \in 1..(Len(opens) - 1) : /\ Front(opens)[k] = opens[k]
                                          /\ Checkpoint(u, opens[k]) = Checkpoint(t, opens[k])
        /\ \E a : IsBehind(u, a) /\ (a = n \/ Source[t[a + 1]].pp # "none")
        /\ StackOf(u) = ReadLine(IF Elses(t, i) = {} THEN StackOf(t) ELSE StackOf(Start(t, FirstElse(t, i) - 1)),
                                 line, n + 1).stack
    BY <1>1, <1>7, EndIfLine DEF u, n, line
  <2>4. Front(s.pp_stack) = Checkpoints(u, Front(opens))
    <3>1. Len(Front(opens)) = Len(opens) - 1
      BY <1>1, <1>3, <1>7, FrontOfSequence DEF AreOpen
    <3>2. Checkpoints(u, Front(opens)) = [k \in 1..(Len(opens) - 1) |-> Checkpoint(t, opens[k])]
      BY <2>3, <3>1 DEF Checkpoints
    <3> HIDE DEF point, i
    <3>3. Front(s.pp_stack) = [k \in 1..(Len(opens) - 1) |-> Checkpoint(t, opens[k])]
      BY <1>3, <1>6, <1>7
    <3> QED BY <3>2, <3>3
  <2>5. (IF point.seen_else THEN point.stack_before_else ELSE StackOf(t)) =
          IF Elses(t, i) = {} THEN StackOf(t) ELSE StackOf(Start(t, FirstElse(t, i) - 1))
    <3>1. point.seen_else <=> Elses(t, i) # {}
      BY Zenon DEF Checkpoint
    <3>2. point.stack_before_else = IF Elses(t, i) = {} THEN <<>> ELSE StackOf(Start(t, FirstElse(t, i) - 1))
      BY Zenon DEF Checkpoint
    <3> QED BY <3>1, <3>2, Zenon
  <2>6. HasCheckpoints(u, Front(s.pp_stack))
    BY <2>3, <2>4, Zenon DEF HasCheckpoints
  <2>7. /\ UpdatePreprocessor(s, line).pp_stack = Front(s.pp_stack)
        /\ UpdatePreprocessor(s, line).stack =
             IF Elses(t, i) = {} THEN StackOf(t) ELSE StackOf(Start(t, FirstElse(t, i) - 1))
    <3> DEFINE stacks == UpdatePreprocessor(s, line)
               kept == IF point.seen_else THEN point.stack_before_else ELSE StackOf(t)
    <3>1. stacks = [stack |-> kept, pp_stack |-> Front(s.pp_stack)]
      BY <2>1, <2>2, Zenon
    <3> HIDE DEF stacks, kept
    <3>2. stacks.stack = kept /\ stacks.pp_stack = Front(s.pp_stack)
      BY <3>1, FieldsOfStacks
    <3> QED BY <2>5, <3>2, Zenon DEF stacks, kept
  <2> QED BY <1>7, <2>3, <2>6, <2>7, Zenon DEF u, n, line
<1>8. CASE line.pp = "else" /\ opens # <<>>
  <2> DEFINE seen == IF point.seen_else THEN point
                     ELSE [stack_before_if |-> point.stack_before_if, stack_before_else |-> StackOf(t), seen_else |-> TRUE]
  <2>1. UpdatePreprocessor(s, line) = BeginElse(s)
    BY <1>8 DEF UpdatePreprocessor
  <2>2. BeginElse(s) = [stack |-> point.stack_before_if, pp_stack |-> Append(Front(s.pp_stack), seen)]
    BY <1>2, <1>6, <1>8, Zenon DEF BeginElse
  <2>3. /\ AreOpen(u, opens)
        /\ i \in Conditionals(t)
        /\ Elses(u, i) = Elses(t, i) \cup {n + 1}
        /\ \A k \in 1..(Len(opens) - 1) : Checkpoint(u, opens[k]) = Checkpoint(t, opens[k])
        /\ IsBehind(u, i - 1)
        /\ StackOf(u) = ReadLine(StackOf(Start(t, i - 1)), line, n + 1).stack
    BY <1>1, <1>8, ElseLine DEF u, n, line
  <2>4. point.stack_before_if = StackOf(Start(t, i - 1))
    BY Zenon DEF Checkpoint
  <2>5. seen = Checkpoint(u, i)
    BY <2>3, OneMoreElse DEF u, n
  <2>6. Append(Front(s.pp_stack), seen) = Checkpoints(u, opens)
    <3>1. Len(opens) \in Nat /\ Len(opens) \in 1..Len(opens) /\ i = opens[Len(opens)]
      BY <1>3, <1>8 DEF Last
    <3> HIDE DEF seen, point, i
    <3>2. Checkpoints(u, opens) = [k \in 1..Len(opens) |-> IF k = Len(opens) THEN seen ELSE Checkpoint(t, opens[k])]
      <4>1. \A k \in 1..Len(opens) : k = Len(opens) \/ k \in 1..(Len(opens) - 1)
        BY <3>1
      <4> QED BY <2>3, <2>5, <3>1, <4>1 DEF Checkpoints
    <3>3. Front(s.pp_stack) = [k \in 1..(Len(opens) - 1) |-> Checkpoint(t, opens[k])]
      BY <1>3, <1>6, <1>8
    <3>4. Append([k \in 1..(Len(opens) - 1) |-> Checkpoint(t, opens[k])], seen)
            = [k \in 1..Len(opens) |-> IF k = Len(opens) THEN seen ELSE Checkpoint(t, opens[k])]
      BY <3>1
    <3> QED BY <3>2, <3>3, <3>4
  <2>7. HasCheckpoints(u, Append(Front(s.pp_stack), seen))
    BY <2>3, <2>6, Zenon DEF HasCheckpoints
  <2>8. /\ UpdatePreprocessor(s, line).pp_stack = Append(Front(s.pp_stack), seen)
        /\ UpdatePreprocessor(s, line).stack = StackOf(Start(t, i - 1))
    <3> DEFINE stacks == UpdatePreprocessor(s, line)
               points == Append(Front(s.pp_stack), seen)
    <3>1. stacks = [stack |-> point.stack_before_if, pp_stack |-> points]
      BY <2>1, <2>2, Zenon
    <3> HIDE DEF stacks, points, point, seen
    <3>2. stacks.stack = point.stack_before_if /\ stacks.pp_stack = points
      BY <3>1, FieldsOfStacks
    <3> QED BY <2>4, <3>2, Zenon DEF stacks, points, seen, point
  <2>9. (i - 1) + 1 = i /\ Source[t[i]].pp # "none"
    <3>1. i \in Conditionals(t)
      BY <2>3
    <3> HIDE DEF i
    <3>2. i \in Nat /\ Source[t[i]].pp = "if"
      BY <3>1 DEF Conditionals
    <3> QED BY <3>2
  <2>10. IsBehind(u, i - 1) /\ Source[t[(i - 1) + 1]].pp # "none"
    BY <2>3, <2>9
  <2> QED BY <1>8, <2>3, <2>7, <2>8, <2>10, Zenon DEF u, n, line
<1>9. \/ line.pp = "if"
      \/ line.pp \notin {"if", "else", "endif"} \/ (line.pp \in {"else", "endif"} /\ opens = <<>>)
      \/ line.pp = "endif" /\ opens # <<>>
      \/ line.pp = "else" /\ opens # <<>>
  OBVIOUS
<1> QED BY <1>4, <1>5, <1>7, <1>8, <1>9, Zenon DEF line

(* Nothing is read in no text, and nothing is open in it.                  *)
LEMMA NothingRead == StackOf(<<>>) = <<>> /\ Nest(<<>>) = <<>>
<1>1. <<>> \in Texts /\ Len(<<>>) = 0
  BY EmptySeq DEF Texts
<1>2. PICK f : Reads("blocks", f, <<>>, 0) /\ StackOf(<<>>) = f[0]
  BY <1>1, StackIsRead
<1>3. PICK g : Reads("scopes", g, <<>>, 0) /\ Nest(<<>>) = g[0]
  BY <1>1, NestIsRead
<1> QED BY <1>2, <1>3, Zenon DEF Reads

(* Nothing is open in no text.                                             *)
LEMMA InitNest == Init => NestInv
<1> SUFFICES ASSUME Init PROVE NestInv
  OBVIOUS
<1>1. <<>> \in Texts /\ Len(<<>>) = 0
  BY EmptySeq DEF Texts
<1>2. StackOf(<<>>) = <<>>
  BY NothingRead
<1>3. AreOpen(<<>>, <<>>) /\ <<>> = Checkpoints(<<>>, <<>>)
  <2>1. 1..0 = {} /\ <<>> \in Seq(Nat)
    BY EmptySeq
  <2>2. Conditionals(<<>>) = {}
    BY <1>1, <2>1 DEF Conditionals
  <2>3. Checkpoints(<<>>, <<>>) = <<>>
    BY <1>1, <2>1 DEF Checkpoints
  <2> QED BY <1>1, <2>1, <2>2, <2>3 DEF AreOpen
<1>4. HasCheckpoints(<<>>, <<>>)
  BY <1>3, Zenon DEF HasCheckpoints
<1> QED BY <1>1, <1>2, <1>4 DEF Init, NestInv

(* A line keeps the invariant: UpdatePreprocessor has the right stack    *)
(* for it, and the rest of Update reads it.                              *)
LEMMA UpdateKeepsNest ==
  ASSUME NestInv, NEW source \in DOMAIN Source, Update(source)
  PROVE  NestInv'
<1> DEFINE s == [stack |-> stack, pp_stack |-> pp_stack]
           line == Source[source]
           linenum == Len(text) + 1
           kept == UpdatePreprocessor(s, line)
           after == ReadLine(kept.stack, line, linenum)
<1>1. /\ ~completed /\ text' = Append(text, source) /\ UNCHANGED <<completed, reports>>
      /\ pp_stack' = Updated(s, line, linenum).pp_stack
      /\ stack' = Updated(s, line, linenum).stack
  BY Zenon DEF Update
<1>2. Updated(s, line, linenum) = [stack |-> after.stack, pp_stack |-> kept.pp_stack, ended |-> after.ended]
  BY Zenon DEF Updated
<1>3. text \in Texts /\ stack = StackOf(text) /\ HasCheckpoints(text, pp_stack)
  BY DEF NestInv
<1>4. s.pp_stack = pp_stack /\ s = [stack |-> StackOf(text), pp_stack |-> s.pp_stack]
  BY <1>3
<1> HIDE DEF s
<1>5. /\ HasCheckpoints(Append(text, source), kept.pp_stack)
      /\ StackOf(Append(text, source)) = after.stack
  BY <1>3, <1>4, UpdatePreprocessorIsRight
<1>6. Append(text, source) \in Texts
  BY <1>3, MoreText
<1> HIDE DEF kept, after, line, linenum
<1>7. stack' = after.stack /\ pp_stack' = kept.pp_stack
  BY <1>1, <1>2
<1> QED BY <1>1, <1>5, <1>6, <1>7, Zenon DEF NestInv

(* The checkpoints are those of the text in every state of it.             *)
THEOREM NestInvHolds == Spec => []NestInv
<1>1. NestInv /\ [Next]_vars => NestInv'
  <2> SUFFICES ASSUME NestInv, [Next]_vars PROVE NestInv'
    OBVIOUS
  <2>1. CASE \E source \in DOMAIN Source : Update(source)
    BY <2>1, UpdateKeepsNest
  <2>2. CASE CheckCompletedBlocks
    BY <2>2, Zenon DEF CheckCompletedBlocks, NestInv
  <2>3. CASE UNCHANGED vars
    BY <2>3 DEF vars, NestInv
  <2> QED BY <2>1, <2>2, <2>3 DEF Next
<1> QED BY <1>1, InitNest, PTL DEF Spec

(* However conditionals are nested, the stack is the one of the lines of   *)
(* their first branches, or of the last one so far, and what is reported   *)
(* at the end is what these lines leave open (UpdatePreprocessor,          *)
(* CheckCompletedBlocks).                                                  *)
THEOREM OneBranchIsCounted == Spec => []OneBranchCounts
<1>1. NestInv => OneBranchCounts
  BY Zenon DEF NestInv, OneBranchCounts
<1> QED BY <1>1, NestInvHolds, PTL


-----------------------------------------------------------------------------
(* Sequences of anything                                                   *)

Elements(s) == {s[i] : i \in 1..Len(s)}
IsSequence(s) == s \in Seq(Elements(s))

(* A sequence over a set is one over its elements.                         *)
LEMMA SequenceIs ==
  ASSUME NEW S, NEW s \in Seq(S)
  PROVE  IsSequence(s) /\ Len(s) \in Nat
<1>1. Len(s) \in Nat /\ s = [i \in 1..Len(s) |-> s[i]]
  OBVIOUS
<1>2. \A i \in 1..Len(s) : s[i] \in Elements(s)
  BY DEF Elements
<1> QED BY <1>1, <1>2 DEF IsSequence

(* A tuple is a sequence.                                                  *)
LEMMA TupleIs ==
  ASSUME NEW L \in Nat, NEW p, p = [i \in 1..L |-> p[i]]
  PROVE  IsSequence(p) /\ Len(p) = L
<1> DEFINE S == {p[i] : i \in 1..L}
<1>1. \A i \in 1..L : p[i] \in S
  OBVIOUS
<1> HIDE DEF S
<1>2. p \in Seq(S) /\ Len(p) = L
  BY <1>1
<1> QED BY <1>2, SequenceIs

(* The empty sequence is the one of length zero.                           *)
LEMMA EmptyIs ==
  /\ IsSequence(<<>>) /\ Len(<<>>) = 0
  /\ \A s : IsSequence(s) => Len(s) \in Nat /\ (s = <<>> <=> Len(s) = 0)
<1>1. <<>> \in Seq({})
  BY EmptySeq
<1>2. \A s : IsSequence(s) => Len(s) \in Nat /\ (s = <<>> <=> Len(s) = 0)
  BY EmptySeq DEF IsSequence
<1> QED BY <1>1, <1>2, SequenceIs, EmptySeq

(* A sequence with one element more.                                       *)
LEMMA AppendIs ==
  ASSUME NEW s, IsSequence(s), NEW b
  PROVE  /\ IsSequence(Append(s, b))
         /\ Len(Append(s, b)) = Len(s) + 1
         /\ \A i \in 1..Len(s) : Append(s, b)[i] = s[i]
         /\ Append(s, b)[Len(s) + 1] = b
<1> DEFINE S == Elements(s) \cup {b}
<1>1. s \in Seq(S)
  <2>1. Len(s) \in Nat /\ s = [i \in 1..Len(s) |-> s[i]] /\ \A i \in 1..Len(s) : s[i] \in S
    BY DEF IsSequence
  <2> HIDE DEF S
  <2> QED BY <2>1
<1>2. b \in S
  OBVIOUS
<1> HIDE DEF S
<1>3. Append(s, b) \in Seq(S)
  BY <1>1, <1>2
<1>4. IsSequence(Append(s, b))
  BY <1>3, SequenceIs
<1> QED BY <1>1, <1>2, <1>4

(* One sequence behind another.                                            *)
LEMMA ConcatIs ==
  ASSUME NEW s, IsSequence(s), NEW p, IsSequence(p)
  PROVE  /\ IsSequence(s \o p)
         /\ Len(s \o p) = Len(s) + Len(p)
         /\ \A i \in 1..Len(s) : (s \o p)[i] = s[i]
         /\ \A i \in 1..Len(p) : (s \o p)[Len(s) + i] = p[i]
<1> DEFINE S == Elements(s) \cup Elements(p)
<1>1. s \in Seq(S) /\ p \in Seq(S)
  <2>1. /\ Len(s) \in Nat /\ s = [i \in 1..Len(s) |-> s[i]] /\ \A i \in 1..Len(s) : s[i] \in S
        /\ Len(p) \in Nat /\ p = [i \in 1..Len(p) |-> p[i]] /\ \A i \in 1..Len(p) : p[i] \in S
    BY DEF IsSequence, Elements
  <2> HIDE DEF S
  <2> QED BY <2>1
<1> HIDE DEF S
<1>2. s \o p \in Seq(S)
  BY <1>1
<1>3. IsSequence(s \o p)
  BY <1>2, SequenceIs
<1> QED BY <1>1, <1>3

(* A sequence without its last element.                                    *)
LEMMA FrontIs ==
  ASSUME NEW s, IsSequence(s), s # <<>>
  PROVE  /\ IsSequence(Front(s))
         /\ Len(s) \in Nat \ {0} /\ Len(s) \in 1..Len(s)
         /\ Len(Front(s)) = Len(s) - 1
         /\ \A i \in 1..(Len(s) - 1) : Front(s)[i] = s[i]
         /\ Last(s) = s[Len(s)]
<1>1. s \in Seq(Elements(s))
  BY DEF IsSequence
<1>2. /\ Front(s) \in Seq(Elements(s)) /\ Len(Front(s)) = Len(s) - 1
      /\ \A i \in 1..(Len(s) - 1) : Front(s)[i] = s[i]
  BY <1>1, FrontOfSequence
<1>3. Len(s) \in Nat \ {0}
  BY EmptyIs
<1>4. Last(s) = s[Len(s)]
  BY DEF Last
<1> QED BY <1>2, <1>3, <1>4, SequenceIs

(* A sequence with another last element.                                   *)
LEMMA ChangeTopIs ==
  ASSUME NEW s, IsSequence(s), s # <<>>, NEW b
  PROVE  /\ IsSequence(ChangeTop(s, b))
         /\ Len(ChangeTop(s, b)) = Len(s)
         /\ \A i \in 1..(Len(s) - 1) : ChangeTop(s, b)[i] = s[i]
         /\ ChangeTop(s, b)[Len(s)] = b
<1>1. /\ IsSequence(Front(s))
      /\ Len(s) \in Nat \ {0}
      /\ Len(Front(s)) = Len(s) - 1
      /\ \A i \in 1..(Len(s) - 1) : Front(s)[i] = s[i]
  BY FrontIs
<1>2. /\ IsSequence(Append(Front(s), b))
      /\ Len(Append(Front(s), b)) = Len(Front(s)) + 1
      /\ \A i \in 1..Len(Front(s)) : Append(Front(s), b)[i] = Front(s)[i]
      /\ Append(Front(s), b)[Len(Front(s)) + 1] = b
  BY <1>1, AppendIs
<1>3. ChangeTop(s, b) = Append(Front(s), b)
  BY DEF ChangeTop
<1>4. Len(Front(s)) + 1 = Len(s)
  BY <1>1
<1> QED BY <1>1, <1>2, <1>3, <1>4, Zenon

-----------------------------------------------------------------------------
(* A small text below which there are other blocks.  Whatever Update does  *)
(* with its stack it does with the whole one: m is the line of its blocks, *)
(* n that of the new ones.                                                 *)

At(line, m, n) == IF line = 1 THEN m ELSE n

IsScope(x) == x = [kind |-> x.kind, braced |-> x.braced, line |-> x.line, access |-> x.access]

IsRecord(b) ==
  b = [kind |-> b.kind, seen_open_brace |-> b.seen_open_brace, starting_linenum |-> b.starting_linenum,
       open_parentheses |-> b.open_parentheses, inline_asm |-> b.inline_asm, class_indent |-> b.class_indent,
       access |-> b.access]

Like(x, y, m, n) ==
  /\ IsRecord(x) /\ IsRecord(y)
  /\ x.kind = y.kind /\ x.seen_open_brace = y.seen_open_brace /\ x.access = y.access
  /\ x.open_parentheses = y.open_parentheses /\ x.inline_asm = y.inline_asm
  /\ x.starting_linenum = At(y.starting_linenum, m, n)

LikeScope(x, y, m, n) ==
  /\ IsScope(x) /\ IsScope(y)
  /\ x.kind = y.kind /\ x.braced = y.braced /\ x.access = y.access
  /\ y.kind \in Hidden \/ x.line = At(y.line, m, n)

Alike(what, x, y, m, n) == IF what = "blocks" THEN Like(x, y, m, n) ELSE LikeScope(x, y, m, n)

(* "what" is "blocks" or "scopes" *)
Over(what, s, f, r, m, n) ==
  /\ IsSequence(s) /\ IsSequence(f) /\ IsSequence(r)
  /\ Len(s) = Len(r) + Len(f)
  /\ \A i \in 1..Len(r) : s[i] = r[i]
  /\ \A i \in 1..Len(f) : Alike(what, s[Len(r) + i], f[i], m, n)

(* The block below is complete *)
Closed(r) == r = <<>> \/ Last(r).seen_open_brace

(* The top of a stack that has a block of the small text.                  *)
LEMMA OverTop ==
  ASSUME NEW what, NEW s, NEW f, NEW r, NEW m, NEW n, Over(what, s, f, r, m, n), f # <<>>
  PROVE  s # <<>> /\ Alike(what, Last(s), Last(f), m, n)
<1>1. Len(f) \in Nat \ {0} /\ Len(r) \in Nat /\ Len(s) \in Nat /\ Len(s) = Len(r) + Len(f)
  BY EmptyIs DEF Over
<1>2. s # <<>>
  BY <1>1, EmptyIs
<1>3. Last(s) = s[Len(r) + Len(f)] /\ Last(f) = f[Len(f)]
  BY <1>1 DEF Last
<1> QED BY <1>1, <1>2, <1>3 DEF Over

(* Without one it is what is below.                                        *)
LEMMA OverNone ==
  ASSUME NEW what, NEW s, NEW r, NEW m, NEW n, Over(what, s, <<>>, r, m, n)
  PROVE  s = r
<1>1. IsSequence(s) /\ IsSequence(r) /\ Len(s) = Len(r) /\ \A i \in 1..Len(r) : s[i] = r[i]
  BY EmptyIs DEF Over
<1>2. s = [i \in 1..Len(s) |-> s[i]] /\ r = [i \in 1..Len(r) |-> r[i]]
  <2>1. s \in Seq(Elements(s)) /\ r \in Seq(Elements(r))
    BY <1>1 DEF IsSequence
  <2> QED BY <2>1
<1> QED BY <1>1, <1>2

(* Without a block of the small text.                                      *)
LEMMA OverNothing ==
  ASSUME NEW what, NEW r, NEW m, NEW n, IsSequence(r)
  PROVE  Over(what, r, <<>>, r, m, n)
<1>1. IsSequence(<<>>) /\ Len(<<>>) = 0 /\ Len(r) \in Nat
  BY EmptyIs
<1>2. Len(r) = Len(r) + Len(<<>>) /\ \A i \in 1..Len(<<>>) : FALSE
  BY <1>1
<1> QED BY <1>1, <1>2, Zenon DEF Over

(* One more block.                                                         *)
LEMMA OverAppend ==
  ASSUME NEW what, NEW s, NEW f, NEW r, NEW m, NEW n, Over(what, s, f, r, m, n), NEW x, NEW y, Alike(what, x, y, m, n)
  PROVE  Over(what, Append(s, x), Append(f, y), r, m, n) /\ Append(f, y) # <<>>
<1>1. /\ IsSequence(s) /\ IsSequence(f) /\ IsSequence(r)
      /\ Len(f) \in Nat /\ Len(r) \in Nat /\ Len(s) \in Nat /\ Len(s) = Len(r) + Len(f)
  BY EmptyIs DEF Over
<1> DEFINE S == Append(s, x)
           F == Append(f, y)
<1>2. /\ IsSequence(S) /\ Len(S) = Len(s) + 1 /\ S[Len(s) + 1] = x
      /\ \A i \in 1..Len(s) : S[i] = s[i]
  BY <1>1, AppendIs
<1>3. /\ IsSequence(F) /\ Len(F) = Len(f) + 1 /\ F[Len(f) + 1] = y
      /\ \A i \in 1..Len(f) : F[i] = f[i]
  BY <1>1, AppendIs
<1> HIDE DEF S, F
<1>4. Len(S) = Len(r) + Len(F)
  BY <1>1, <1>2, <1>3
<1>5. \A i \in 1..Len(r) : S[i] = r[i]
  <2>1. \A i \in 1..Len(r) : i \in 1..Len(s)
    BY <1>1
  <2> QED BY <1>2, <2>1, Zenon DEF Over
<1>6. ASSUME NEW i \in 1..Len(F) PROVE Alike(what, S[Len(r) + i], F[i], m, n)
  <2>1. CASE i = Len(f) + 1
    <3>1. Len(r) + i = Len(s) + 1
      BY <1>1, <2>1
    <3> QED BY <1>2, <1>3, <2>1, <3>1
  <2>2. CASE i # Len(f) + 1
    <3>1. i \in 1..Len(f) /\ Len(r) + i \in 1..Len(s)
      BY <1>1, <1>3, <2>2
    <3>2. S[Len(r) + i] = s[Len(r) + i] /\ F[i] = f[i]
      BY <1>2, <1>3, <3>1, Zenon
    <3> QED BY <3>1, <3>2, Zenon DEF Over
  <2> QED BY <2>1, <2>2
<1>7. F # <<>>
  BY <1>1, <1>3, EmptyIs
<1> QED BY <1>1, <1>2, <1>3, <1>4, <1>5, <1>6, <1>7, Zenon DEF Over, S, F

(* One block less.                                                         *)
LEMMA OverFront ==
  ASSUME NEW what, NEW s, NEW f, NEW r, NEW m, NEW n, Over(what, s, f, r, m, n), f # <<>>
  PROVE  Over(what, Front(s), Front(f), r, m, n)
<1>1. /\ IsSequence(s) /\ IsSequence(f) /\ IsSequence(r) /\ s # <<>>
      /\ Len(f) \in Nat \ {0} /\ Len(r) \in Nat /\ Len(s) \in Nat /\ Len(s) = Len(r) + Len(f)
  BY EmptyIs, OverTop DEF Over
<1> DEFINE S == Front(s)
           F == Front(f)
<1>2. /\ IsSequence(S) /\ Len(S) = Len(s) - 1
      /\ \A i \in 1..(Len(s) - 1) : S[i] = s[i]
  BY <1>1, FrontIs
<1>3. /\ IsSequence(F) /\ Len(F) = Len(f) - 1
      /\ \A i \in 1..(Len(f) - 1) : F[i] = f[i]
  BY <1>1, FrontIs
<1> HIDE DEF S, F
<1>4. Len(S) = Len(r) + Len(F)
  BY <1>1, <1>2, <1>3
<1>5. \A i \in 1..Len(r) : S[i] = r[i]
  <2>1. \A i \in 1..Len(r) : i \in 1..(Len(s) - 1)
    BY <1>1
  <2> QED BY <1>2, <2>1, Zenon DEF Over
<1>6. ASSUME NEW i \in 1..Len(F) PROVE Alike(what, S[Len(r) + i], F[i], m, n)
  <2>1. i \in 1..Len(f) /\ i \in 1..(Len(f) - 1) /\ Len(r) + i \in 1..(Len(s) - 1)
    BY <1>1, <1>3
  <2>2. S[Len(r) + i] = s[Len(r) + i] /\ F[i] = f[i]
    BY <1>2, <1>3, <2>1, Zenon
  <2> QED BY <2>1, <2>2, Zenon DEF Over
<1> QED BY <1>1, <1>2, <1>3, <1>4, <1>5, <1>6, Zenon DEF Over, S, F

(* Another top.                                                            *)
LEMMA OverChange ==
  ASSUME NEW what, NEW s, NEW f, NEW r, NEW m, NEW n, Over(what, s, f, r, m, n), f # <<>>, NEW x, NEW y, Alike(what, x, y, m, n)
  PROVE  Over(what, ChangeTop(s, x), ChangeTop(f, y), r, m, n) /\ ChangeTop(f, y) # <<>>
<1>1. s # <<>>
  BY OverTop
<1>2. ChangeTop(s, x) = Append(Front(s), x) /\ ChangeTop(f, y) = Append(Front(f), y)
  BY <1>1, Zenon DEF ChangeTop
<1>3. Over(what, Front(s), Front(f), r, m, n)
  BY OverFront
<1> QED BY <1>2, <1>3, OverAppend

(* Blocks that are appended, one of them like another.                     *)
LEMMA OverConcat ==
  ASSUME NEW what, NEW s, NEW f, NEW r, NEW m, NEW n, Over(what, s, f, r, m, n), NEW p, NEW q, IsSequence(p), IsSequence(q),
         Len(p) = Len(q), \A i \in 1..Len(q) : Alike(what, p[i], q[i], m, n)
  PROVE  Over(what, s \o p, f \o q, r, m, n) /\ (f # <<>> => f \o q # <<>>)
<1>1. /\ IsSequence(s) /\ IsSequence(f) /\ IsSequence(r)
      /\ Len(f) \in Nat /\ Len(r) \in Nat /\ Len(s) \in Nat /\ Len(q) \in Nat /\ Len(s) = Len(r) + Len(f)
  BY EmptyIs DEF Over
<1> DEFINE S == s \o p
           F == f \o q
<1>2. /\ IsSequence(S) /\ Len(S) = Len(s) + Len(p)
      /\ \A i \in 1..Len(s) : S[i] = s[i]
      /\ \A i \in 1..Len(p) : S[Len(s) + i] = p[i]
  <2>1. IsSequence(s) /\ IsSequence(p)
    BY <1>1
  <2>2. IsSequence(s \o p) /\ Len(s \o p) = Len(s) + Len(p)
    BY <2>1, ConcatIs
  <2>3. \A i \in 1..Len(s) : (s \o p)[i] = s[i]
    BY <2>1, ConcatIs
  <2>4. \A i \in 1..Len(p) : (s \o p)[Len(s) + i] = p[i]
    BY <2>1, ConcatIs
  <2> QED BY <2>2, <2>3, <2>4, Zenon
<1>3. /\ IsSequence(F) /\ Len(F) = Len(f) + Len(q)
      /\ \A i \in 1..Len(f) : F[i] = f[i]
      /\ \A i \in 1..Len(q) : F[Len(f) + i] = q[i]
  <2>1. IsSequence(f) /\ IsSequence(q)
    BY <1>1
  <2> QED BY <2>1, ConcatIs
<1> HIDE DEF S, F
<1>4. Len(S) = Len(r) + Len(F)
  BY <1>1, <1>2, <1>3
<1>5. \A i \in 1..Len(r) : S[i] = r[i]
  <2>1. \A i \in 1..Len(r) : i \in 1..Len(s)
    BY <1>1
  <2> QED BY <1>2, <2>1, Zenon DEF Over
<1>6. ASSUME NEW i \in 1..Len(F) PROVE Alike(what, S[Len(r) + i], F[i], m, n)
  <2>1. CASE i <= Len(f)
    <3>1. i \in 1..Len(f) /\ Len(r) + i \in 1..Len(s)
      BY <1>1, <1>3, <2>1
    <3>2. S[Len(r) + i] = s[Len(r) + i] /\ F[i] = f[i]
      BY <1>2, <1>3, <3>1, Zenon
    <3> QED BY <3>1, <3>2, Zenon DEF Over
  <2>2. CASE ~(i <= Len(f))
    <3> DEFINE k == i - Len(f)
    <3>1. k \in 1..Len(q) /\ Len(f) + k = i /\ Len(r) + i = Len(s) + k
      BY <1>1, <1>3, <2>2
    <3> HIDE DEF k
    <3>2. F[i] = q[k] /\ S[Len(r) + i] = p[k]
      BY <1>2, <1>3, <3>1
    <3> QED BY <3>1, <3>2
  <2> QED BY <2>1, <2>2
<1>7. f # <<>> => F # <<>>
  BY <1>1, <1>3, EmptyIs
<1> QED BY <1>1, <1>2, <1>3, <1>4, <1>5, <1>6, <1>7, Zenon DEF Over, S, F

-----------------------------------------------------------------------------
(* Blocks that are changed *)

ABlock(kind, braced, line, depth, asm, indent, access) ==
  [kind |-> kind, seen_open_brace |-> braced, starting_linenum |-> line, open_parentheses |-> depth,
   inline_asm |-> asm, class_indent |-> indent, access |-> access]

(* A block with another value of one of its fields.                        *)
LEMMA ChangedBlock ==
  ASSUME NEW b, IsRecord(b), NEW v
  PROVE  /\ [b EXCEPT !.seen_open_brace = v] =
              ABlock(b.kind, v, b.starting_linenum, b.open_parentheses, b.inline_asm, b.class_indent, b.access)
         /\ [b EXCEPT !.open_parentheses = v] =
              ABlock(b.kind, b.seen_open_brace, b.starting_linenum, v, b.inline_asm, b.class_indent, b.access)
         /\ [b EXCEPT !.inline_asm = v] =
              ABlock(b.kind, b.seen_open_brace, b.starting_linenum, b.open_parentheses, v, b.class_indent, b.access)
         /\ [b EXCEPT !.class_indent = v] =
              ABlock(b.kind, b.seen_open_brace, b.starting_linenum, b.open_parentheses, b.inline_asm, v, b.access)
         /\ [b EXCEPT !.access = v] =
              ABlock(b.kind, b.seen_open_brace, b.starting_linenum, b.open_parentheses, b.inline_asm, b.class_indent, v)
BY SMT DEF IsRecord, ABlock

(* The fields of a block.                                                  *)
LEMMA BlockFields ==
  ASSUME NEW kind, NEW braced, NEW line, NEW depth, NEW asm, NEW indent, NEW access
  PROVE  LET b == ABlock(kind, braced, line, depth, asm, indent, access)
         IN /\ IsRecord(b) /\ b.kind = kind /\ b.seen_open_brace = braced /\ b.starting_linenum = line
            /\ b.open_parentheses = depth /\ b.inline_asm = asm /\ b.class_indent = indent /\ b.access = access
BY Zenon DEF IsRecord, ABlock

(* Blocks that are alike are what a stack has over another.                *)
LEMMA AlikeBlocks ==
  \A x, y, m, n : Alike("blocks", x, y, m, n) <=> Like(x, y, m, n)
BY Zenon DEF Alike

(* Blocks that are alike but for their lines and indentation.              *)
LEMMA LikeBlocks ==
  ASSUME NEW kind, NEW braced, NEW line, NEW old, NEW depth, NEW asm, NEW i1, NEW i2, NEW access, NEW m, NEW n,
         line = At(old, m, n)
  PROVE  Like(ABlock(kind, braced, line, depth, asm, i1, access), ABlock(kind, braced, old, depth, asm, i2, access), m, n)
<1> DEFINE x == ABlock(kind, braced, line, depth, asm, i1, access)
           y == ABlock(kind, braced, old, depth, asm, i2, access)
<1>1. /\ IsRecord(x) /\ x.kind = kind /\ x.seen_open_brace = braced /\ x.starting_linenum = line
      /\ x.open_parentheses = depth /\ x.inline_asm = asm /\ x.access = access
  BY BlockFields
<1>2. /\ IsRecord(y) /\ y.kind = kind /\ y.seen_open_brace = braced /\ y.starting_linenum = old
      /\ y.open_parentheses = depth /\ y.inline_asm = asm /\ y.access = access
  BY BlockFields
<1> HIDE DEF x, y
<1>3. Like(x, y, m, n)
  BY <1>1, <1>2 DEF Like
<1> QED BY <1>3 DEF x, y

(* The same change of the same field.                                      *)
LEMMA LikeChanged ==
  ASSUME NEW x, NEW y, NEW m, NEW n, Like(x, y, m, n), NEW v, NEW w
  PROVE  /\ Like([x EXCEPT !.seen_open_brace = v], [y EXCEPT !.seen_open_brace = v], m, n)
         /\ Like([x EXCEPT !.open_parentheses = v], [y EXCEPT !.open_parentheses = v], m, n)
         /\ Like([x EXCEPT !.inline_asm = v], [y EXCEPT !.inline_asm = v], m, n)
         /\ Like([x EXCEPT !.class_indent = v], [y EXCEPT !.class_indent = w], m, n)
         /\ Like([x EXCEPT !.access = v], [y EXCEPT !.access = v], m, n)
<1>1. /\ IsRecord(x) /\ IsRecord(y)
      /\ x.kind = y.kind /\ x.seen_open_brace = y.seen_open_brace /\ x.access = y.access
      /\ x.open_parentheses = y.open_parentheses /\ x.inline_asm = y.inline_asm
      /\ x.starting_linenum = At(y.starting_linenum, m, n)
  BY Zenon DEF Like
<1> DEFINE line == x.starting_linenum
           old == y.starting_linenum
<1>2. Like([x EXCEPT !.seen_open_brace = v], [y EXCEPT !.seen_open_brace = v], m, n)
  <2>1. [x EXCEPT !.seen_open_brace = v] = ABlock(y.kind, v, line, y.open_parentheses, y.inline_asm, x.class_indent, y.access)
    BY <1>1, SMT DEF IsRecord, ABlock
  <2>2. [y EXCEPT !.seen_open_brace = v] = ABlock(y.kind, v, old, y.open_parentheses, y.inline_asm, y.class_indent, y.access)
    BY <1>1, SMT DEF IsRecord, ABlock
  <2>3. Like(ABlock(y.kind, v, line, y.open_parentheses, y.inline_asm, x.class_indent, y.access),
             ABlock(y.kind, v, old, y.open_parentheses, y.inline_asm, y.class_indent, y.access), m, n)
    BY <1>1, LikeBlocks
  <2> QED BY <2>1, <2>2, <2>3
<1>3. Like([x EXCEPT !.open_parentheses = v], [y EXCEPT !.open_parentheses = v], m, n)
  <2>1. [x EXCEPT !.open_parentheses = v] = ABlock(y.kind, y.seen_open_brace, line, v, y.inline_asm, x.class_indent, y.access)
    BY <1>1, SMT DEF IsRecord, ABlock
  <2>2. [y EXCEPT !.open_parentheses = v] = ABlock(y.kind, y.seen_open_brace, old, v, y.inline_asm, y.class_indent, y.access)
    BY <1>1, SMT DEF IsRecord, ABlock
  <2>3. Like(ABlock(y.kind, y.seen_open_brace, line, v, y.inline_asm, x.class_indent, y.access),
             ABlock(y.kind, y.seen_open_brace, old, v, y.inline_asm, y.class_indent, y.access), m, n)
    BY <1>1, LikeBlocks
  <2> QED BY <2>1, <2>2, <2>3
<1>4. Like([x EXCEPT !.inline_asm = v], [y EXCEPT !.inline_asm = v], m, n)
  <2>1. [x EXCEPT !.inline_asm = v] = ABlock(y.kind, y.seen_open_brace, line, y.open_parentheses, v, x.class_indent, y.access)
    BY <1>1, SMT DEF IsRecord, ABlock
  <2>2. [y EXCEPT !.inline_asm = v] = ABlock(y.kind, y.seen_open_brace, old, y.open_parentheses, v, y.class_indent, y.access)
    BY <1>1, SMT DEF IsRecord, ABlock
  <2>3. Like(ABlock(y.kind, y.seen_open_brace, line, y.open_parentheses, v, x.class_indent, y.access),
             ABlock(y.kind, y.seen_open_brace, old, y.open_parentheses, v, y.class_indent, y.access), m, n)
    BY <1>1, LikeBlocks
  <2> QED BY <2>1, <2>2, <2>3
<1>5. Like([x EXCEPT !.class_indent = v], [y EXCEPT !.class_indent = w], m, n)
  <2>1. [x EXCEPT !.class_indent = v] = ABlock(y.kind, y.seen_open_brace, line, y.open_parentheses, y.inline_asm, v, y.access)
    BY <1>1, SMT DEF IsRecord, ABlock
  <2>2. [y EXCEPT !.class_indent = w] = ABlock(y.kind, y.seen_open_brace, old, y.open_parentheses, y.inline_asm, w, y.access)
    BY <1>1, SMT DEF IsRecord, ABlock
  <2>3. Like(ABlock(y.kind, y.seen_open_brace, line, y.open_parentheses, y.inline_asm, v, y.access),
             ABlock(y.kind, y.seen_open_brace, old, y.open_parentheses, y.inline_asm, w, y.access), m, n)
    BY <1>1, LikeBlocks
  <2> QED BY <2>1, <2>2, <2>3
<1>6. Like([x EXCEPT !.access = v], [y EXCEPT !.access = v], m, n)
  <2>1. [x EXCEPT !.access = v] = ABlock(y.kind, y.seen_open_brace, line, y.open_parentheses, y.inline_asm, x.class_indent, v)
    BY <1>1, SMT DEF IsRecord, ABlock
  <2>2. [y EXCEPT !.access = v] = ABlock(y.kind, y.seen_open_brace, old, y.open_parentheses, y.inline_asm, y.class_indent, v)
    BY <1>1, SMT DEF IsRecord, ABlock
  <2>3. Like(ABlock(y.kind, y.seen_open_brace, line, y.open_parentheses, y.inline_asm, x.class_indent, v),
             ABlock(y.kind, y.seen_open_brace, old, y.open_parentheses, y.inline_asm, y.class_indent, v), m, n)
    BY <1>1, LikeBlocks
  <2> QED BY <2>1, <2>2, <2>3
<1> QED BY <1>2, <1>3, <1>4, <1>5, <1>6

(* A new block of this line.                                               *)
LEMMA LikeNew ==
  ASSUME NEW kind, NEW braced, NEW m, NEW n
  PROVE  Like(BlockInfo(kind, braced, n), BlockInfo(kind, braced, 2), m, n)
<1> DEFINE access == CASE kind = "class"  -> "private" [] kind = "struct" -> "public" [] OTHER -> "none"
<1>1. \A line : BlockInfo(kind, braced, line) = ABlock(kind, braced, line, 0, "no", 0, access)
  BY Zenon DEF BlockInfo, ABlock
<1>2. n = At(2, m, n)
  BY DEF At
<1> HIDE DEF access
<1> QED BY <1>1, <1>2, LikeBlocks, Zenon

-----------------------------------------------------------------------------
(* The steps of Update on the small stack and on the whole one *)

(* CountParentheses                                                        *)
LEMMA OverCount ==
  ASSUME NEW s, NEW f, NEW r, NEW m, NEW n, Over("blocks", s, f, r, m, n), f # <<>> \/ r = <<>>, NEW line
  PROVE  /\ Over("blocks", CountParentheses(s, line), CountParentheses(f, line), r, m, n)
         /\ CountParentheses(f, line) # <<>> \/ r = <<>>
<1>1. CASE f = <<>>
  <2>1. s = <<>> /\ r = <<>>
    BY <1>1, OverNone
  <2> QED BY <1>1, <2>1, Zenon DEF CountParentheses
<1>2. CASE f # <<>>
  <2> DEFINE p(b) == [b EXCEPT !.open_parentheses = @ + line.parens]
             c(b) == [p(b) EXCEPT !.inline_asm = AsmState(@, line, p(b).open_parentheses)]
             x == Last(s)
             y == Last(f)
  <2>1. s # <<>> /\ Like(x, y, m, n)
    BY <1>2, OverTop, AlikeBlocks
  <2>2. CountParentheses(s, line) = ChangeTop(s, c(x)) /\ CountParentheses(f, line) = ChangeTop(f, c(y))
    BY <1>2, <2>1, Zenon DEF CountParentheses
  <2> HIDE DEF x, y
  <2>3. x.open_parentheses = y.open_parentheses
    BY <2>1, Zenon DEF Like
  <2>4. Like(p(x), p(y), m, n)
    <3> DEFINE v == y.open_parentheses + line.parens
    <3>1. p(x) = [x EXCEPT !.open_parentheses = v] /\ p(y) = [y EXCEPT !.open_parentheses = v]
      BY <2>3, Zenon
    <3> HIDE DEF v, p
    <3>2. Like([x EXCEPT !.open_parentheses = v], [y EXCEPT !.open_parentheses = v], m, n)
      BY <2>1, LikeChanged
    <3> QED BY <3>1, <3>2
  <2> HIDE DEF p
  <2>5. p(x).inline_asm = p(y).inline_asm /\ p(x).open_parentheses = p(y).open_parentheses
    BY <2>4, Zenon DEF Like
  <2>6. Like(c(x), c(y), m, n)
    <3> DEFINE v == AsmState(p(y).inline_asm, line, p(y).open_parentheses)
    <3>1. c(x) = [p(x) EXCEPT !.inline_asm = v] /\ c(y) = [p(y) EXCEPT !.inline_asm = v]
      BY <2>5, Zenon
    <3> HIDE DEF v, c
    <3>2. Like([p(x) EXCEPT !.inline_asm = v], [p(y) EXCEPT !.inline_asm = v], m, n)
      BY <2>4, LikeChanged
    <3> QED BY <3>1, <3>2
  <2> HIDE DEF c
  <2> QED BY <1>2, <2>2, <2>6, OverChange, AlikeBlocks
<1> QED BY <1>1, <1>2

(* There is a block of the small text, or none at all.                     *)
Room(f, r) == f # <<>> \/ r = <<>>

(* A block that has its brace.                                             *)
LEMMA OverBrace ==
  ASSUME NEW s, NEW f, NEW r, NEW m, NEW n, Over("blocks", s, f, r, m, n), Closed(r)
  PROVE  SeenOpenBrace(s) <=> SeenOpenBrace(f)
<1>1. CASE f = <<>>
  <2>1. s = r
    BY <1>1, OverNone
  <2> QED BY <1>1, <2>1, Zenon DEF Closed, SeenOpenBrace
<1>2. CASE f # <<>>
  <2>1. s # <<>> /\ Like(Last(s), Last(f), m, n)
    BY <1>2, OverTop, AlikeBlocks
  <2> QED BY <1>2, <2>1, Zenon DEF Like, SeenOpenBrace
<1> QED BY <1>1, <1>2

(* What there is on top.                                                   *)
LEMMA OverRoom ==
  ASSUME NEW s, NEW f, NEW r, NEW m, NEW n, Over("blocks", s, f, r, m, n), Room(f, r)
  PROVE  (s = <<>> <=> f = <<>>) /\ (f # <<>> => Like(Last(s), Last(f), m, n))
<1>1. CASE f = <<>>
  BY <1>1, OverNone DEF Room
<1>2. CASE f # <<>>
  BY <1>2, OverTop, AlikeBlocks
<1> QED BY <1>1, <1>2

(* Leading namespaces                                                      *)
LEMMA OverNamespaces ==
  ASSUME NEW s, NEW f, NEW r, NEW m, NEW n, Over("blocks", s, f, r, m, n), Room(f, r), NEW line, line.ns \in Seq(BOOLEAN)
  PROVE  Over("blocks", Namespaces(s, line, n), Namespaces(f, line, 2), r, m, n) /\ Room(Namespaces(f, line, 2), r)
<1> DEFINE L == Len(line.ns)
           p == [i \in 1..L |-> BlockInfo("namespace", line.ns[i], n)]
           q == [i \in 1..L |-> BlockInfo("namespace", line.ns[i], 2)]
<1>1. L \in Nat
  OBVIOUS
<1>2. Namespaces(s, line, n) = s \o p /\ Namespaces(f, line, 2) = f \o q
  BY Zenon DEF Namespaces
<1>3. \A i \in 1..L : Like(p[i], q[i], m, n)
  BY LikeNew, Zenon
<1> HIDE DEF L
<1>4. p = [i \in 1..L |-> p[i]] /\ q = [i \in 1..L |-> q[i]]
  BY Zenon
<1> HIDE DEF p, q
<1>5. IsSequence(p) /\ IsSequence(q) /\ Len(p) = L /\ Len(q) = L
  BY <1>1, <1>4, TupleIs
<1>6. Over("blocks", s \o p, f \o q, r, m, n) /\ (f # <<>> => f \o q # <<>>)
  <2>1. \A i \in 1..Len(q) : Alike("blocks", p[i], q[i], m, n)
    BY <1>3, <1>5, AlikeBlocks, Zenon
  <2> QED BY <1>5, <2>1, OverConcat
<1> QED BY <1>2, <1>6, Zenon DEF Room

(* A declaration of a class                                                *)
LEMMA OverClass ==
  ASSUME NEW s, NEW f, NEW r, NEW m, NEW n, Over("blocks", s, f, r, m, n), Room(f, r), NEW line
  PROVE  /\ Over("blocks", ClassDeclaration(s, line, n), ClassDeclaration(f, line, 2), r, m, n)
         /\ Room(ClassDeclaration(f, line, 2), r)
<1>1. (s = <<>> <=> f = <<>>) /\ (f # <<>> => Last(s).open_parentheses = Last(f).open_parentheses)
  BY OverRoom, Zenon DEF Like
<1> DEFINE declared == line.cls # "none" /\ (s = <<>> \/ Last(s).open_parentheses = 0) /\ ~line.targ
           small == line.cls # "none" /\ (f = <<>> \/ Last(f).open_parentheses = 0) /\ ~line.targ
           x == [BlockInfo(line.cls, FALSE, n) EXCEPT !.class_indent = line.indent]
           y == [BlockInfo(line.cls, FALSE, 2) EXCEPT !.class_indent = line.indent]
<1>2. declared <=> small
  BY <1>1, Zenon
<1>3. /\ ClassDeclaration(s, line, n) = IF declared THEN Append(s, x) ELSE s
      /\ ClassDeclaration(f, line, 2) = IF small THEN Append(f, y) ELSE f
  BY Zenon DEF ClassDeclaration
<1>4. Like(x, y, m, n)
  BY LikeNew, LikeChanged
<1> HIDE DEF declared, small, x, y
<1>5. Over("blocks", Append(s, x), Append(f, y), r, m, n) /\ Append(f, y) # <<>>
  BY <1>4, OverAppend, AlikeBlocks
<1> QED BY <1>2, <1>3, <1>5, Zenon DEF Room

(* An access label                                                         *)
LEMMA OverAccess ==
  ASSUME NEW s, NEW f, NEW r, NEW m, NEW n, Over("blocks", s, f, r, m, n), Room(f, r), NEW line
  PROVE  Over("blocks", AccessLabel(s, line), AccessLabel(f, line), r, m, n) /\ Room(AccessLabel(f, line), r)
<1>1. (s = <<>> <=> f = <<>>) /\ (f # <<>> => Like(Last(s), Last(f), m, n))
  BY OverRoom, Zenon
<1> DEFINE labels == line.access # "none" /\ s # <<>> /\ IsClass(Last(s))
           small == line.access # "none" /\ f # <<>> /\ IsClass(Last(f))
           x == [Last(s) EXCEPT !.access = line.access]
           y == [Last(f) EXCEPT !.access = line.access]
<1>2. labels <=> small
  BY <1>1, Zenon DEF Like, IsClass
<1>3. /\ AccessLabel(s, line) = IF labels THEN ChangeTop(s, x) ELSE s
      /\ AccessLabel(f, line) = IF small THEN ChangeTop(f, y) ELSE f
  BY Zenon DEF AccessLabel
<1>4. small => Like(x, y, m, n) /\ f # <<>>
  BY <1>1, LikeChanged
<1> HIDE DEF labels, small, x, y
<1>5. small => Over("blocks", ChangeTop(s, x), ChangeTop(f, y), r, m, n) /\ ChangeTop(f, y) # <<>>
  BY <1>4, OverChange, AlikeBlocks
<1> QED BY <1>2, <1>3, <1>5, Zenon DEF Room


(* A token that opens a block or gives it its brace                        *)
LEMMA OverOpenBrace ==
  ASSUME NEW s, NEW f, NEW r, NEW m, NEW n, Over("blocks", s, f, r, m, n), Closed(r), NEW token
  PROVE  Over("blocks", OpenBrace(s, token, n), OpenBrace(f, token, 2), r, m, n)
<1> DEFINE kind == IF token = "extern {" THEN "extern" ELSE "block"
           asm == IF token = "asm {" THEN "block" ELSE "no"
           x == [BlockInfo(kind, TRUE, n) EXCEPT !.inline_asm = asm]
           y == [BlockInfo(kind, TRUE, 2) EXCEPT !.inline_asm = asm]
           braced == [Last(s) EXCEPT !.seen_open_brace = TRUE]
           small == [Last(f) EXCEPT !.seen_open_brace = TRUE]
<1>1. /\ OpenBrace(s, token, n) = IF ~SeenOpenBrace(s) THEN ChangeTop(s, braced) ELSE Append(s, x)
      /\ OpenBrace(f, token, 2) = IF ~SeenOpenBrace(f) THEN ChangeTop(f, small) ELSE Append(f, y)
  BY Zenon DEF OpenBrace
<1>2. SeenOpenBrace(s) <=> SeenOpenBrace(f)
  BY OverBrace, Zenon
<1> HIDE DEF kind, asm
<1>3. Like(x, y, m, n)
  BY LikeNew, LikeChanged
<1>4. ~SeenOpenBrace(f) => f # <<>> /\ Like(braced, small, m, n)
  <2>1. ~SeenOpenBrace(f) => f # <<>>
    BY Zenon DEF SeenOpenBrace
  <2> QED BY <2>1, OverTop, AlikeBlocks, LikeChanged
<1> HIDE DEF x, y, braced, small
<1>5. ~SeenOpenBrace(f) => Over("blocks", ChangeTop(s, braced), ChangeTop(f, small), r, m, n)
  BY <1>4, OverChange, AlikeBlocks
<1>6. Over("blocks", Append(s, x), Append(f, y), r, m, n)
  BY <1>3, OverAppend, AlikeBlocks
<1> QED BY <1>1, <1>2, <1>5, <1>6, Zenon

(* A token; a brace that closes is one of a block of the small text.       *)
LEMMA OverToken ==
  ASSUME NEW s, NEW f, NEW r, NEW m, NEW n, Over("blocks", s, f, r, m, n), Closed(r), NEW token, token = "}" => f # <<>>
  PROVE  Over("blocks", Token(s, token, n), Token(f, token, 2), r, m, n)
<1> DEFINE opens == token \in {"{", "extern {", "asm {"}
           closes == token = "}"
<1>1. /\ Token(s, token, n) = IF opens THEN OpenBrace(s, token, n) ELSE IF closes THEN CloseBrace(s) ELSE DropHead(s)
      /\ Token(f, token, 2) = IF opens THEN OpenBrace(f, token, 2) ELSE IF closes THEN CloseBrace(f) ELSE DropHead(f)
  BY Zenon DEF Token
<1>2. closes => f # <<>>
  OBVIOUS
<1> HIDE DEF opens, closes
<1>3. Over("blocks", OpenBrace(s, token, n), OpenBrace(f, token, 2), r, m, n)
  BY OverOpenBrace
<1>4. f # <<>> => s # <<>> /\ Over("blocks", Front(s), Front(f), r, m, n)
  BY OverTop, OverFront
<1>5. f # <<>> => Over("blocks", CloseBrace(s), CloseBrace(f), r, m, n)
  BY <1>4, Zenon DEF CloseBrace
<1>6. Over("blocks", DropHead(s), DropHead(f), r, m, n)
  <2>1. (SeenOpenBrace(s) <=> SeenOpenBrace(f)) /\ (~SeenOpenBrace(f) => f # <<>>)
    BY OverBrace, Zenon DEF SeenOpenBrace
  <2> QED BY <1>4, <2>1, Zenon DEF DropHead
<1> QED BY <1>1, <1>2, <1>3, <1>5, <1>6, Zenon

-----------------------------------------------------------------------------
(* The tokens of a line *)

ReadTokens(f, s, line, n, K) ==
  /\ f = [k \in 0..K |-> f[k]]
  /\ f[0] = s
  /\ \A k \in 1..K : f[k] = Token(f[k - 1], line.tokens[k], n)

(* There are stacks behind the first tokens of a line.                     *)
LEMMA ReadTokensExist ==
  ASSUME NEW s, NEW line, NEW n, NEW K \in Nat
  PROVE  \E f : ReadTokens(f, s, line, n, K)
<1> DEFINE T == {k \in 0..K : \E f : ReadTokens(f, s, line, n, k)}
<1>1. 0 \in T
  <2> DEFINE f == [k \in 0..0 |-> s]
  <2>1. f = [k \in 0..0 |-> f[k]] /\ f[0] = s /\ \A k \in 1..0 : FALSE
    OBVIOUS
  <2> HIDE DEF f
  <2>2. ReadTokens(f, s, line, n, 0)
    BY <2>1 DEF ReadTokens
  <2> QED BY <2>2
<1>2. ASSUME NEW a \in 0..(K - 1), a \in T PROVE a + 1 \in T
  <2>1. PICK g : ReadTokens(g, s, line, n, a)
    BY <1>2
  <2> DEFINE b == a + 1
             f == [k \in 0..b |-> IF k = b THEN Token(g[a], line.tokens[b], n) ELSE g[k]]
  <2>2. b \in 0..K /\ b \in Nat /\ b - 1 = a /\ 0 \in 0..a /\ 1..b = 1..a \cup {b}
    OBVIOUS
  <2>3. /\ f = [k \in 0..b |-> f[k]] /\ f[b] = Token(g[a], line.tokens[b], n)
        /\ \A k \in 0..a : f[k] = g[k]
    <3>1. b \in 0..b /\ \A k \in 0..a : k \in 0..b /\ k # b
      OBVIOUS
    <3> HIDE DEF b
    <3> QED BY <3>1
  <2> HIDE DEF b, f, T
  <2>4. f[0] = s
    BY <2>1, <2>2, <2>3, Zenon DEF ReadTokens
  <2>5. ASSUME NEW k \in 1..b PROVE f[k] = Token(f[k - 1], line.tokens[k], n)
    <3>1. k - 1 \in 0..a /\ (k = b \/ (k \in 1..a /\ k \in 0..a))
      BY <2>2
    <3>2. CASE k = b
      <4>1. f[k - 1] = g[a]
        BY <2>2, <2>3, <3>1, <3>2
      <4> QED BY <2>3, <3>2, <4>1, Zenon
    <3>3. CASE k \in 1..a /\ k \in 0..a
      <4>1. f[k] = g[k] /\ f[k - 1] = g[k - 1]
        BY <2>3, <3>1, <3>3, Zenon
      <4> QED BY <2>1, <3>3, <4>1, Zenon DEF ReadTokens
    <3> QED BY <3>1, <3>2, <3>3
  <2>6. ReadTokens(f, s, line, n, b)
    BY <2>3, <2>4, <2>5, Zenon DEF ReadTokens
  <2> QED BY <2>2, <2>6 DEF T, b
<1>3. K \in 0..K
  OBVIOUS
<1> HIDE DEF T
<1>4. K \in T
  BY <1>1, <1>2, <1>3, Upwards
<1> QED BY <1>4 DEF T

(* Reading gives them.                                                     *)
LEMMA ReadingIs ==
  ASSUME NEW s, NEW line, NEW n, Len(line.tokens) \in Nat
  PROVE  ReadTokens(Reading(s, line, n), s, line, n, Len(line.tokens))
<1> DEFINE K == Len(line.tokens)
           IsRead(f) == f = [k \in 0..K |-> IF k = 0 THEN s ELSE Token(f[k - 1], line.tokens[k], n)]
           read == CHOOSE f : IsRead(f)
<1>1. Reading(s, line, n) = read
  BY Zenon DEF Reading
<1>2. K \in Nat
  OBVIOUS
<1> HIDE DEF K
<1>3. PICK g : ReadTokens(g, s, line, n, K)
  BY <1>2, ReadTokensExist
<1>4. (\A k \in 0..K : k = 0 \/ k \in 1..K) /\ (\A k \in 1..K : k \in 0..K /\ k # 0) /\ 0 \in 0..K
  BY <1>2
<1>5. IsRead(g)
  <2>1. \A k \in 0..K : g[k] = IF k = 0 THEN s ELSE Token(g[k - 1], line.tokens[k], n)
    BY <1>3, <1>4, Zenon DEF ReadTokens
  <2>2. g = [k \in 0..K |-> g[k]]
    BY <1>3, Zenon DEF ReadTokens
  <2> QED BY <2>1, <2>2, Zenon
<1>6. IsRead(read)
  <2> HIDE DEF IsRead
  <2> QED BY <1>5
<1> HIDE DEF read
<1>7. \A k \in 0..K : read[k] = IF k = 0 THEN s ELSE Token(read[k - 1], line.tokens[k], n)
  BY <1>6, Zenon
<1>8. read = [k \in 0..K |-> read[k]]
  BY <1>6, SMT
<1>9. ReadTokens(read, s, line, n, K)
  BY <1>4, <1>7, <1>8, Zenon DEF ReadTokens
<1> QED BY <1>1, <1>9 DEF K

(* Every brace that closes is one of a block of the small text.            *)
ClosesItsOwn(line, read) == \A k \in 1..Len(line.tokens) : line.tokens[k] = "}" => read[k - 1] # <<>>

(* Reading a line on the small stack and on the whole one                  *)
LEMMA OverReading ==
  ASSUME NEW s, NEW f, NEW r, NEW m, NEW n, Over("blocks", s, f, r, m, n), Closed(r),
         NEW line, Len(line.tokens) \in Nat, ClosesItsOwn(line, Reading(f, line, 2))
  PROVE  \A k \in 0..Len(line.tokens) : Over("blocks", Reading(s, line, n)[k], Reading(f, line, 2)[k], r, m, n)
<1> DEFINE K == Len(line.tokens)
           whole == Reading(s, line, n)
           small == Reading(f, line, 2)
           T == {k \in 0..K : Over("blocks", whole[k], small[k], r, m, n)}
<1>1. ReadTokens(whole, s, line, n, K) /\ ReadTokens(small, f, line, 2, K)
  BY ReadingIs
<1>2. K \in Nat /\ ClosesItsOwn(line, small)
  OBVIOUS
<1>2a. \A k \in 1..K : line.tokens[k] = "}" => small[k - 1] # <<>>
  BY <1>2, Zenon DEF ClosesItsOwn
<1> HIDE DEF K, whole, small
<1>3. 0 \in T
  <2>1. whole[0] = s /\ small[0] = f
    BY <1>1, Zenon DEF ReadTokens
  <2>2. Over("blocks", whole[0], small[0], r, m, n)
    BY <2>1, Zenon
  <2>3. 0 \in 0..K
    BY <1>2
  <2> QED BY <2>2, <2>3, Zenon
<1>4. ASSUME NEW k \in 0..(K - 1), k \in T PROVE k + 1 \in T
  <2> HIDE DEF T
  <2>1. k + 1 \in 1..K /\ (k + 1) - 1 = k /\ k + 1 \in 0..K
    BY <1>2
  <2>2. /\ whole[k + 1] = Token(whole[k], line.tokens[k + 1], n)
        /\ small[k + 1] = Token(small[k], line.tokens[k + 1], 2)
    <3>1. /\ whole[k + 1] = Token(whole[(k + 1) - 1], line.tokens[k + 1], n)
          /\ small[k + 1] = Token(small[(k + 1) - 1], line.tokens[k + 1], 2)
      BY <1>1, <2>1, Zenon DEF ReadTokens
    <3> QED BY <2>1, <3>1
  <2>3. Over("blocks", whole[k], small[k], r, m, n)
    BY <1>4, Zenon DEF T
  <2>4. line.tokens[k + 1] = "}" => small[k] # <<>>
    BY <1>2a, <2>1, Zenon
  <2>5. Over("blocks", Token(whole[k], line.tokens[k + 1], n), Token(small[k], line.tokens[k + 1], 2), r, m, n)
    BY <2>3, <2>4, OverToken
  <2> QED BY <2>1, <2>2, <2>5, Zenon DEF T
<1> HIDE DEF T
<1>5. \A k \in 0..K : k \in T
  BY <1>2, <1>3, <1>4, Upwards
<1>6. \A k \in 0..K : Over("blocks", whole[k], small[k], r, m, n)
  BY <1>5, Zenon DEF T
<1> QED BY <1>6 DEF K, whole, small

(* The steps in front of the tokens                                        *)
LEMMA OverDeclarations ==
  ASSUME NEW s, NEW f, NEW r, NEW m, NEW n, Over("blocks", s, f, r, m, n), Room(f, r), NEW line,
         line.ns \in Seq(BOOLEAN)
  PROVE  Over("blocks", Declarations(CountParentheses(s, line), line, n),
              Declarations(CountParentheses(f, line), line, 2), r, m, n)
<1> DEFINE s1 == CountParentheses(s, line)
           f1 == CountParentheses(f, line)
           s2 == Namespaces(s1, line, n)
           f2 == Namespaces(f1, line, 2)
           s3 == ClassDeclaration(s2, line, n)
           f3 == ClassDeclaration(f2, line, 2)
           s4 == AccessLabel(s3, line)
           f4 == AccessLabel(f3, line)
<1>1. Declarations(s1, line, n) = s4 /\ Declarations(f1, line, 2) = f4
  BY Zenon DEF Declarations
<1>2. Over("blocks", s1, f1, r, m, n) /\ Room(f1, r)
  BY OverCount, Zenon DEF Room
<1> HIDE DEF s1, f1
<1>3. Over("blocks", s2, f2, r, m, n) /\ Room(f2, r)
  BY <1>2, OverNamespaces
<1> HIDE DEF s2, f2
<1>4. Over("blocks", s3, f3, r, m, n) /\ Room(f3, r)
  BY <1>3, OverClass
<1> HIDE DEF s3, f3
<1>5. Over("blocks", s4, f4, r, m, n)
  BY <1>4, OverAccess
<1> HIDE DEF s4, f4
<1> QED BY <1>1, <1>5 DEF s1, f1

(* A whole line, and the blocks that end on it                             *)
LEMMA OverLine ==
  ASSUME NEW s, NEW f, NEW r, NEW m, NEW n, Over("blocks", s, f, r, m, n), Room(f, r), Closed(r), NEW line,
         line.ns \in Seq(BOOLEAN), Len(line.tokens) \in Nat,
         ClosesItsOwn(line, Reading(Declarations(CountParentheses(f, line), line, 2), line, 2))
  PROVE  /\ Over("blocks", ReadLine(s, line, n).stack, ReadLine(f, line, 2).stack, r, m, n)
         /\ \A b \in ReadLine(s, line, n).ended : \E y \in ReadLine(f, line, 2).ended : Like(b, y, m, n)
         /\ \A y \in ReadLine(f, line, 2).ended : \E b \in ReadLine(s, line, n).ended : Like(b, y, m, n)
<1> DEFINE K == Len(line.tokens)
           s2 == Declarations(CountParentheses(s, line), line, n)
           f2 == Declarations(CountParentheses(f, line), line, 2)
           whole == Reading(s2, line, n)
           small == Reading(f2, line, 2)
           Closes(k) == line.tokens[k] = "}"
<1>1. Over("blocks", s2, f2, r, m, n)
  BY OverDeclarations
<1>2. /\ ReadLine(s, line, n).stack = whole[K]
      /\ ReadLine(s, line, n).ended = {Last(whole[k - 1]) : k \in {i \in 1..K : Closes(i) /\ whole[i - 1] # <<>>}}
  BY Zenon DEF ReadLine, Tokens
<1>3. /\ ReadLine(f, line, 2).stack = small[K]
      /\ ReadLine(f, line, 2).ended = {Last(small[k - 1]) : k \in {i \in 1..K : Closes(i) /\ small[i - 1] # <<>>}}
  BY Zenon DEF ReadLine, Tokens
<1>4. ClosesItsOwn(line, small)
  OBVIOUS
<1> HIDE DEF s2, f2
<1>5. \A k \in 0..K : Over("blocks", whole[k], small[k], r, m, n)
  BY <1>1, <1>4, OverReading
<1>6. \A k \in 1..K : Closes(k) => small[k - 1] # <<>>
  BY <1>4, Zenon DEF ClosesItsOwn
<1>7. K \in 0..K /\ \A k \in 1..K : k - 1 \in 0..K
  OBVIOUS
<1> HIDE DEF K, whole, small, Closes
<1>8. ASSUME NEW k \in 1..K, Closes(k)
      PROVE  /\ whole[k - 1] # <<>> /\ small[k - 1] # <<>>
             /\ Like(Last(whole[k - 1]), Last(small[k - 1]), m, n)
  <2>1. Over("blocks", whole[k - 1], small[k - 1], r, m, n) /\ small[k - 1] # <<>>
    BY <1>5, <1>6, <1>7, <1>8
  <2> QED BY <2>1, OverTop, AlikeBlocks
<1>9. ASSUME NEW b \in {Last(whole[k - 1]) : k \in {i \in 1..K : Closes(i) /\ whole[i - 1] # <<>>}}
      PROVE  \E y \in {Last(small[k - 1]) : k \in {i \in 1..K : Closes(i) /\ small[i - 1] # <<>>}} : Like(b, y, m, n)
  <2>1. PICK k \in 1..K : Closes(k) /\ b = Last(whole[k - 1])
    BY <1>9
  <2> QED BY <1>8, <2>1
<1>10. ASSUME NEW y \in {Last(small[k - 1]) : k \in {i \in 1..K : Closes(i) /\ small[i - 1] # <<>>}}
       PROVE  \E b \in {Last(whole[k - 1]) : k \in {i \in 1..K : Closes(i) /\ whole[i - 1] # <<>>}} : Like(b, y, m, n)
  <2>1. PICK k \in 1..K : Closes(k) /\ y = Last(small[k - 1])
    BY <1>10
  <2> QED BY <1>8, <2>1
<1>11. Over("blocks", whole[K], small[K], r, m, n)
  BY <1>5, <1>7
<1> QED BY <1>2, <1>3, <1>9, <1>10, <1>11, Zenon

-----------------------------------------------------------------------------
(* The scopes of the text, in the same way *)

(* Scopes that are alike are what a text has over others.                  *)
LEMMA AlikeScopes ==
  \A x, y, m, n : Alike("scopes", x, y, m, n) <=> LikeScope(x, y, m, n)
BY Zenon DEF Alike

(* New scopes of this line, and the same change of the same field.         *)
LEMMA LikeScopes ==
  ASSUME NEW m, NEW n
  PROVE  /\ \A kind, braced : LikeScope(Scope(kind, braced, n), Scope(kind, braced, 2), m, n)
         /\ \A x, y : LikeScope(x, y, m, n) => LikeScope([x EXCEPT !.braced = TRUE], [y EXCEPT !.braced = TRUE], m, n)
         /\ \A x, y, v : LikeScope(x, y, m, n) => LikeScope([x EXCEPT !.access = v], [y EXCEPT !.access = v], m, n)
<1>1. ASSUME NEW kind, NEW braced
      PROVE  LikeScope(Scope(kind, braced, n), Scope(kind, braced, 2), m, n)
  <2> DEFINE access == CASE kind = "class"  -> "private" [] kind = "struct" -> "public" [] OTHER -> "none"
  <2>1. \A line : Scope(kind, braced, line) = [kind |-> kind, braced |-> braced, line |-> line, access |-> access]
    BY Zenon DEF Scope
  <2> HIDE DEF access
  <2> QED BY <2>1 DEF LikeScope, IsScope, At
<1>2. ASSUME NEW x, NEW y, LikeScope(x, y, m, n)
      PROVE  LikeScope([x EXCEPT !.braced = TRUE], [y EXCEPT !.braced = TRUE], m, n)
  <2>1. ASSUME NEW v PROVE LikeScope([x EXCEPT !.braced = v], [y EXCEPT !.braced = v], m, n)
    BY <1>2, SMT DEF LikeScope, IsScope
  <2> QED BY <2>1
<1>3. ASSUME NEW x, NEW y, NEW v, LikeScope(x, y, m, n)
      PROVE  LikeScope([x EXCEPT !.access = v], [y EXCEPT !.access = v], m, n)
  BY <1>3, SMT DEF LikeScope, IsScope
<1> QED BY <1>1, <1>2, <1>3, Zenon

IsEvent(event) == event.do \in {"open", "head", "brace", "close", "label"}

(* An event that needs a scope has one of the small text.                  *)
LEMMA OverDo ==
  ASSUME NEW s, NEW f, NEW r, NEW m, NEW n, Over("scopes", s, f, r, m, n), NEW event, IsEvent(event),
         event.do \notin {"open", "head"} => f # <<>>
  PROVE  Over("scopes", Do(s, event, n), Do(f, event, 2), r, m, n)
<1>1. CASE event.do = "open"
  <2>1. Do(s, event, n) = Append(s, Scope(event.kind, TRUE, n)) /\ Do(f, event, 2) = Append(f, Scope(event.kind, TRUE, 2))
    BY <1>1 DEF Do
  <2> QED BY <2>1, LikeScopes, AlikeScopes, OverAppend
<1>2. CASE event.do = "head"
  <2>1. Do(s, event, n) = Append(s, Scope(event.kind, FALSE, n)) /\ Do(f, event, 2) = Append(f, Scope(event.kind, FALSE, 2))
    BY <1>2 DEF Do
  <2> QED BY <2>1, LikeScopes, AlikeScopes, OverAppend
<1>3. CASE event.do = "brace"
  <2> DEFINE x == [Last(s) EXCEPT !.braced = TRUE]
             y == [Last(f) EXCEPT !.braced = TRUE]
  <2>1. Do(s, event, n) = ChangeTop(s, x) /\ Do(f, event, 2) = ChangeTop(f, y)
    BY <1>3 DEF Do
  <2>2. f # <<>>
    BY <1>3
  <2>3. LikeScope(x, y, m, n)
    BY <2>2, OverTop, LikeScopes, AlikeScopes
  <2> HIDE DEF x, y
  <2> QED BY <2>1, <2>2, <2>3, AlikeScopes, OverChange
<1>4. CASE event.do = "close"
  <2>1. Do(s, event, n) = Front(s) /\ Do(f, event, 2) = Front(f)
    BY <1>4 DEF Do
  <2>2. f # <<>>
    BY <1>4
  <2> QED BY <2>1, <2>2, OverFront
<1>5. CASE event.do = "label"
  <2> DEFINE x == [Last(s) EXCEPT !.access = event.kind]
             y == [Last(f) EXCEPT !.access = event.kind]
  <2>1. Do(s, event, n) = ChangeTop(s, x) /\ Do(f, event, 2) = ChangeTop(f, y)
    BY <1>5 DEF Do
  <2>2. f # <<>>
    BY <1>5
  <2>3. LikeScope(x, y, m, n)
    BY <2>2, OverTop, LikeScopes, AlikeScopes
  <2> HIDE DEF x, y
  <2> QED BY <2>1, <2>2, <2>3, AlikeScopes, OverChange
<1> QED BY <1>1, <1>2, <1>3, <1>4, <1>5 DEF IsEvent

DoesEvents(f, s, line, n, K) ==
  /\ f = [k \in 0..K |-> f[k]]
  /\ f[0] = s
  /\ \A k \in 1..K : f[k] = Do(f[k - 1], line.means[k], n)

(* There are scopes behind the first events of a line.                     *)
LEMMA DoesEventsExist ==
  ASSUME NEW s, NEW line, NEW n, NEW K \in Nat
  PROVE  \E f : DoesEvents(f, s, line, n, K)
<1> DEFINE T == {k \in 0..K : \E f : DoesEvents(f, s, line, n, k)}
<1>1. 0 \in T
  <2> DEFINE f == [k \in 0..0 |-> s]
  <2>1. f = [k \in 0..0 |-> f[k]] /\ f[0] = s /\ \A k \in 1..0 : FALSE
    OBVIOUS
  <2> HIDE DEF f
  <2>2. DoesEvents(f, s, line, n, 0)
    BY <2>1 DEF DoesEvents
  <2> QED BY <2>2
<1>2. ASSUME NEW a \in 0..(K - 1), a \in T PROVE a + 1 \in T
  <2>1. PICK g : DoesEvents(g, s, line, n, a)
    BY <1>2
  <2> DEFINE b == a + 1
             f == [k \in 0..b |-> IF k = b THEN Do(g[a], line.means[b], n) ELSE g[k]]
  <2>2. b \in 0..K /\ b \in Nat /\ b - 1 = a /\ 0 \in 0..a /\ 1..b = 1..a \cup {b}
    OBVIOUS
  <2>3. /\ f = [k \in 0..b |-> f[k]] /\ f[b] = Do(g[a], line.means[b], n)
        /\ \A k \in 0..a : f[k] = g[k]
    <3>1. b \in 0..b /\ \A k \in 0..a : k \in 0..b /\ k # b
      OBVIOUS
    <3> HIDE DEF b
    <3> QED BY <3>1
  <2> HIDE DEF b, f, T
  <2>4. f[0] = s
    BY <2>1, <2>2, <2>3, Zenon DEF DoesEvents
  <2>5. ASSUME NEW k \in 1..b PROVE f[k] = Do(f[k - 1], line.means[k], n)
    <3>1. k - 1 \in 0..a /\ (k = b \/ (k \in 1..a /\ k \in 0..a))
      BY <2>2
    <3>2. CASE k = b
      <4>1. f[k - 1] = g[a]
        BY <2>2, <2>3, <3>1, <3>2
      <4> QED BY <2>3, <3>2, <4>1, Zenon
    <3>3. CASE k \in 1..a /\ k \in 0..a
      <4>1. f[k] = g[k] /\ f[k - 1] = g[k - 1]
        BY <2>3, <3>1, <3>3, Zenon
      <4> QED BY <2>1, <3>3, <4>1, Zenon DEF DoesEvents
    <3> QED BY <3>1, <3>2, <3>3
  <2>6. DoesEvents(f, s, line, n, b)
    BY <2>3, <2>4, <2>5, Zenon DEF DoesEvents
  <2> QED BY <2>2, <2>6 DEF T, b
<1>3. K \in 0..K
  OBVIOUS
<1> HIDE DEF T
<1>4. K \in T
  BY <1>1, <1>2, <1>3, Upwards
<1> QED BY <1>4 DEF T

(* Doing gives them.                                                       *)
LEMMA DoingIs ==
  ASSUME NEW s, NEW line, NEW n, Len(line.means) \in Nat
  PROVE  DoesEvents(Doing(s, line, n), s, line, n, Len(line.means))
<1> DEFINE K == Len(line.means)
           IsDone(f) == f = [k \in 0..K |-> IF k = 0 THEN s ELSE Do(f[k - 1], line.means[k], n)]
           done == CHOOSE f : IsDone(f)
<1>1. Doing(s, line, n) = done
  BY Zenon DEF Doing
<1>2. K \in Nat
  OBVIOUS
<1> HIDE DEF K
<1>3. PICK g : DoesEvents(g, s, line, n, K)
  BY <1>2, DoesEventsExist
<1>4. (\A k \in 0..K : k = 0 \/ k \in 1..K) /\ (\A k \in 1..K : k \in 0..K /\ k # 0) /\ 0 \in 0..K
  BY <1>2
<1>5. IsDone(g)
  <2>1. \A k \in 0..K : g[k] = IF k = 0 THEN s ELSE Do(g[k - 1], line.means[k], n)
    BY <1>3, <1>4, Zenon DEF DoesEvents
  <2>2. g = [k \in 0..K |-> g[k]]
    BY <1>3, Zenon DEF DoesEvents
  <2> QED BY <2>1, <2>2, Zenon
<1>6. IsDone(done)
  <2> HIDE DEF IsDone
  <2> QED BY <1>5
<1> HIDE DEF done
<1>7. \A k \in 0..K : done[k] = IF k = 0 THEN s ELSE Do(done[k - 1], line.means[k], n)
  BY <1>6, Zenon
<1>8. done = [k \in 0..K |-> done[k]]
  BY <1>6, SMT
<1>9. DoesEvents(done, s, line, n, K)
  BY <1>4, <1>7, <1>8, Zenon DEF DoesEvents
<1> QED BY <1>1, <1>9 DEF K

(* Every event that needs a scope has one of the small text.               *)
HasItsScopes(line, done) ==
  \A k \in 1..Len(line.means) :
    IsEvent(line.means[k]) /\ (line.means[k].do \notin {"open", "head"} => done[k - 1] # <<>>)

(* What a line means to the small text and to the whole one                *)
LEMMA OverDoing ==
  ASSUME NEW s, NEW f, NEW r, NEW m, NEW n, Over("scopes", s, f, r, m, n),
         NEW line, Len(line.means) \in Nat, HasItsScopes(line, Doing(f, line, 2))
  PROVE  Over("scopes", DoLine(s, line, n), DoLine(f, line, 2), r, m, n)
<1> DEFINE K == Len(line.means)
           whole == Doing(s, line, n)
           small == Doing(f, line, 2)
           T == {k \in 0..K : Over("scopes", whole[k], small[k], r, m, n)}
<1>1. DoesEvents(whole, s, line, n, K) /\ DoesEvents(small, f, line, 2, K)
  BY DoingIs
<1>2. K \in Nat /\ HasItsScopes(line, small)
  OBVIOUS
<1>3. DoLine(s, line, n) = whole[K] /\ DoLine(f, line, 2) = small[K]
  BY Zenon DEF DoLine
<1>4. \A k \in 1..K : IsEvent(line.means[k]) /\ (line.means[k].do \notin {"open", "head"} => small[k - 1] # <<>>)
  BY <1>2, Zenon DEF HasItsScopes
<1> HIDE DEF K, whole, small
<1>5. 0 \in T
  <2>1. whole[0] = s /\ small[0] = f
    BY <1>1, Zenon DEF DoesEvents
  <2>2. Over("scopes", whole[0], small[0], r, m, n)
    BY <2>1, Zenon
  <2>3. 0 \in 0..K
    BY <1>2
  <2> QED BY <2>2, <2>3, Zenon
<1>6. ASSUME NEW k \in 0..(K - 1), k \in T PROVE k + 1 \in T
  <2> HIDE DEF T
  <2>1. k + 1 \in 1..K /\ (k + 1) - 1 = k /\ k + 1 \in 0..K
    BY <1>2
  <2>2. /\ whole[k + 1] = Do(whole[k], line.means[k + 1], n)
        /\ small[k + 1] = Do(small[k], line.means[k + 1], 2)
    <3>1. /\ whole[k + 1] = Do(whole[(k + 1) - 1], line.means[k + 1], n)
          /\ small[k + 1] = Do(small[(k + 1) - 1], line.means[k + 1], 2)
      BY <1>1, <2>1, Zenon DEF DoesEvents
    <3> QED BY <2>1, <3>1
  <2>3. Over("scopes", whole[k], small[k], r, m, n)
    BY <1>6, Zenon DEF T
  <2>4. IsEvent(line.means[k + 1]) /\ (line.means[k + 1].do \notin {"open", "head"} => small[k] # <<>>)
    BY <1>4, <2>1
  <2>5. Over("scopes", Do(whole[k], line.means[k + 1], n), Do(small[k], line.means[k + 1], 2), r, m, n)
    BY <2>3, <2>4, OverDo
  <2> QED BY <2>1, <2>2, <2>5, Zenon DEF T
<1>7. K \in 0..K
  BY <1>2
<1> HIDE DEF T
<1>8. K \in T
  BY <1>2, <1>5, <1>6, <1>7, Upwards
<1> QED BY <1>3, <1>8 DEF T

-----------------------------------------------------------------------------
(* A stack and the scopes it matches are over a small text *)

Fit(s, scopes) ==
  /\ IsSequence(s) /\ \A i \in 1..Len(s) : IsRecord(s[i])
  /\ IsSequence(scopes) /\ \A i \in 1..Len(scopes) : IsScope(scopes[i])
  /\ Matches(s, scopes)

(* The blocks and scopes below that of a small text                        *)
Below(r, q) ==
  /\ IsSequence(r) /\ IsSequence(q) /\ Len(r) = Len(q)
  /\ \A i \in 1..Len(r) : IsRecord(r[i]) /\ IsScope(q[i]) /\ Covers(r[i], q[i], FALSE, "none")

(* Sequences with the same elements are the same.                          *)
LEMMA SameSequence ==
  ASSUME NEW s, NEW p, IsSequence(s), IsSequence(p), Len(s) = Len(p), \A i \in 1..Len(s) : s[i] = p[i]
  PROVE  s = p
<1>1. s \in Seq(Elements(s)) /\ p \in Seq(Elements(p))
  BY DEF IsSequence
<1>2. s = [i \in 1..Len(s) |-> s[i]] /\ p = [i \in 1..Len(p) |-> p[i]]
  BY <1>1
<1> QED BY <1>2

(* A sequence and its last element.                                        *)
LEMMA AppendParts ==
  ASSUME NEW s, IsSequence(s)
  PROVE  /\ \A x : Front(Append(s, x)) = s /\ Last(Append(s, x)) = x /\ Append(s, x) # <<>>
         /\ s # <<>> => s = Append(Front(s), Last(s))
<1>1. ASSUME NEW x PROVE Front(Append(s, x)) = s /\ Last(Append(s, x)) = x /\ Append(s, x) # <<>>
  <2> DEFINE p == Append(s, x)
  <2>1. /\ Len(s) \in Nat /\ IsSequence(p) /\ Len(p) = Len(s) + 1
        /\ (\A i \in 1..Len(s) : p[i] = s[i]) /\ p[Len(s) + 1] = x
    BY AppendIs, EmptyIs
  <2> HIDE DEF p
  <2>2. p # <<>>
    BY <2>1, EmptyIs
  <2>3. /\ IsSequence(Front(p)) /\ Len(Front(p)) = Len(p) - 1
        /\ (\A i \in 1..(Len(p) - 1) : Front(p)[i] = p[i]) /\ Last(p) = p[Len(p)]
    BY <2>1, <2>2, FrontIs
  <2>4. Len(p) - 1 = Len(s)
    BY <2>1
  <2>5. \A i \in 1..Len(s) : s[i] = Front(p)[i]
    BY <2>1, <2>3, <2>4, Zenon
  <2>6. s = Front(p)
    BY <2>1, <2>3, <2>4, <2>5, SameSequence
  <2> QED BY <2>1, <2>2, <2>3, <2>6 DEF p
<1>2. ASSUME s # <<>> PROVE s = Append(Front(s), Last(s))
  <2> DEFINE p == Append(Front(s), Last(s))
  <2>1. /\ IsSequence(Front(s)) /\ Len(s) \in Nat \ {0} /\ Len(Front(s)) = Len(s) - 1
        /\ (\A i \in 1..(Len(s) - 1) : Front(s)[i] = s[i]) /\ Last(s) = s[Len(s)]
    BY <1>2, FrontIs
  <2>2. /\ IsSequence(p) /\ Len(p) = Len(Front(s)) + 1
        /\ (\A i \in 1..Len(Front(s)) : p[i] = Front(s)[i]) /\ p[Len(Front(s)) + 1] = Last(s)
    BY <2>1, AppendIs
  <2> HIDE DEF p
  <2>3. Len(s) = Len(p) /\ Len(Front(s)) + 1 = Len(s)
    BY <2>1, <2>2
  <2>4. ASSUME NEW i \in 1..Len(s) PROVE s[i] = p[i]
    <3>1. i = Len(s) \/ (i \in 1..(Len(s) - 1) /\ i \in 1..Len(Front(s)))
      BY <2>1
    <3> QED BY <2>1, <2>2, <2>3, <3>1
  <2> QED BY <2>2, <2>3, <2>4, SameSequence DEF p
<1> QED BY <1>1, <1>2

(* The kinds of blocks and of the other scopes are not the same.           *)
LEMMA KindsApart == (\A kind \in Kinds : kind \notin Hidden) /\ "none" \notin Hidden
BY DEF Kinds, Hidden

(* Scopes without and with one that is no block                            *)
LEMMA WithinIs ==
  ASSUME NEW c, IsSequence(c)
  PROVE  /\ c = <<>> \/ Last(c).kind \in Kinds => Within(c) = "none" /\ BlocksOf(c) = c
         /\ \A x : x.kind \in Hidden => Within(Append(c, x)) = x.kind /\ BlocksOf(Append(c, x)) = c
<1>1. ASSUME c = <<>> \/ Last(c).kind \in Kinds PROVE Within(c) = "none" /\ BlocksOf(c) = c
  <2>1. ~(c # <<>> /\ Last(c).kind \in Hidden)
    BY <1>1, KindsApart, Zenon
  <2> QED BY <2>1, Zenon DEF Within, BlocksOf
<1>2. ASSUME NEW x, x.kind \in Hidden PROVE Within(Append(c, x)) = x.kind /\ BlocksOf(Append(c, x)) = c
  <2>1. Front(Append(c, x)) = c /\ Last(Append(c, x)) = x /\ Append(c, x) # <<>>
    BY AppendParts
  <2>2. Within(Append(c, x)) = x.kind /\ x.kind # "none"
    BY <1>2, <2>1, KindsApart, Zenon DEF Within
  <2> QED BY <2>1, <2>2, Zenon DEF BlocksOf
<1> QED BY <1>1, <1>2, Zenon

(* What scopes are made of                                                 *)
LEMMA ScopesAre ==
  ASSUME NEW scopes, IsSequence(scopes)
  PROVE  /\ IsSequence(BlocksOf(scopes))
         /\ Within(scopes) = "none" => scopes = BlocksOf(scopes)
         /\ Within(scopes) # "none" =>
              /\ scopes # <<>> /\ Within(scopes) \in Hidden /\ Last(scopes).kind = Within(scopes)
              /\ scopes = Append(BlocksOf(scopes), Last(scopes))
<1>1. CASE Within(scopes) = "none"
  <2>1. BlocksOf(scopes) = scopes
    BY <1>1, Zenon DEF BlocksOf
  <2> QED BY <1>1, <2>1
<1>2. CASE Within(scopes) # "none"
  <2>1. BlocksOf(scopes) = Front(scopes)
    BY <1>2, Zenon DEF BlocksOf
  <2>2. scopes # <<>> /\ Last(scopes).kind \in Hidden /\ Last(scopes).kind = Within(scopes)
    BY <1>2, Zenon DEF Within
  <2>3. IsSequence(Front(scopes)) /\ scopes = Append(Front(scopes), Last(scopes))
    BY <2>2, FrontIs, AppendParts
  <2> QED BY <1>2, <2>1, <2>2, <2>3
<1> QED BY <1>1, <1>2

(* The small block of a block, and the small scope of its scope            *)
SmallOf(b) == SmallBlock(b.kind, b.seen_open_brace, b.open_parentheses, b.inline_asm, b.access)
SmallScopeOf(x) == SmallScope(x.kind, x.braced, x.access)

(* They are alike.                                                         *)
LEMMA LikeSmall ==
  ASSUME NEW m, NEW n
  PROVE  /\ \A b : IsRecord(b) /\ b.starting_linenum = m => Like(b, SmallOf(b), m, n)
         /\ \A x : IsScope(x) /\ (x.kind \in Hidden \/ x.line = m) => LikeScope(x, SmallScopeOf(x), m, n)
<1>1. ASSUME NEW b, IsRecord(b), b.starting_linenum = m PROVE Like(b, SmallOf(b), m, n)
  <2>1. SmallOf(b) = ABlock(b.kind, b.seen_open_brace, 1, b.open_parentheses, b.inline_asm, 0, b.access)
    BY Zenon DEF SmallOf, SmallBlock, ABlock
  <2> DEFINE y == SmallOf(b)
  <2>2. /\ IsRecord(y) /\ y.kind = b.kind /\ y.seen_open_brace = b.seen_open_brace /\ y.starting_linenum = 1
        /\ y.open_parentheses = b.open_parentheses /\ y.inline_asm = b.inline_asm /\ y.access = b.access
    BY <2>1, BlockFields
  <2> HIDE DEF y
  <2>3. m = At(y.starting_linenum, m, n)
    BY <2>2 DEF At
  <2>4. Like(b, y, m, n)
    BY <1>1, <2>2, <2>3, Zenon DEF Like
  <2> QED BY <2>4 DEF y
<1>2. ASSUME NEW x, IsScope(x), x.kind \in Hidden \/ x.line = m PROVE LikeScope(x, SmallScopeOf(x), m, n)
  <2> DEFINE y == SmallScopeOf(x)
  <2>1. y = [kind |-> x.kind, braced |-> x.braced, line |-> 1, access |-> x.access]
    BY Zenon DEF SmallScopeOf, SmallScope
  <2> HIDE DEF y
  <2>2. IsScope(y) /\ y.kind = x.kind /\ y.braced = x.braced /\ y.line = 1 /\ y.access = x.access
    BY <2>1, Zenon DEF IsScope
  <2>3. m = At(y.line, m, n)
    BY <2>2 DEF At
  <2>4. LikeScope(x, y, m, n)
    BY <1>2, <2>2, <2>3, Zenon DEF LikeScope
  <2> QED BY <2>4 DEF y
<1> QED BY <1>1, <1>2

(* They cover each other as those they stand for.                          *)
LEMMA CoversSmall ==
  ASSUME NEW b, NEW x, NEW innermost, NEW within, IsRecord(b), IsScope(x), Covers(b, x, innermost, within)
  PROVE  Covers(SmallOf(b), SmallScopeOf(x), innermost, within)
<1> DEFINE y == SmallOf(b)
           z == SmallScopeOf(x)
<1>1. /\ y.kind = b.kind /\ y.seen_open_brace = b.seen_open_brace /\ y.starting_linenum = 1
      /\ y.open_parentheses = b.open_parentheses /\ y.inline_asm = b.inline_asm /\ y.access = b.access
  BY Zenon DEF SmallOf, SmallBlock
<1>2. z.kind = x.kind /\ z.braced = x.braced /\ z.line = 1 /\ z.access = x.access
  BY Zenon DEF SmallScopeOf, SmallScope
<1> HIDE DEF y, z
<1>3. IsBlock(y, z)
  BY <1>1, <1>2, Zenon DEF Covers, IsBlock
<1>4. Covers(y, z, innermost, within)
  BY <1>1, <1>2, <1>3, Zenon DEF Covers
<1> QED BY <1>4 DEF y, z

(* The top of a stack is the small text.                                   *)
LEMMA SmallTop ==
  ASSUME NEW s, IsSequence(s), \A i \in 1..Len(s) : IsRecord(s[i]), s # <<>>, NEW n
  PROVE  Over("blocks", s, <<SmallOf(Last(s))>>, Front(s), Last(s).starting_linenum, n)
<1> DEFINE r == Front(s)
           x == Last(s)
           m == x.starting_linenum
<1>1. IsSequence(r) /\ Len(s) \in 1..Len(s) /\ x = s[Len(s)] /\ s = Append(r, x)
  BY FrontIs, AppendParts
<1>2. Like(x, SmallOf(x), m, n)
  BY <1>1, LikeSmall
<1> HIDE DEF r, x, m
<1>3. Over("blocks", r, <<>>, r, m, n)
  BY <1>1, OverNothing
<1>4. Over("blocks", Append(r, x), Append(<<>>, SmallOf(x)), r, m, n)
  BY <1>2, <1>3, AlikeBlocks, OverAppend
<1>5. Append(<<>>, SmallOf(x)) = <<SmallOf(x)>>
  OBVIOUS
<1> QED BY <1>1, <1>4, <1>5 DEF r, x, m

(* The innermost scope is the small one.                                   *)
LEMMA SmallInnermost ==
  ASSUME NEW s, IsSequence(s), \A i \in 1..Len(s) : IsScope(s[i]), s # <<>>, NEW m, Last(s).line = m, NEW n
  PROVE  Over("scopes", s, <<SmallScopeOf(Last(s))>>, Front(s), m, n)
<1> DEFINE r == Front(s)
           x == Last(s)
<1>1. IsSequence(r) /\ Len(s) \in 1..Len(s) /\ x = s[Len(s)] /\ s = Append(r, x)
  BY FrontIs, AppendParts
<1>2. LikeScope(x, SmallScopeOf(x), m, n)
  BY <1>1, LikeSmall
<1> HIDE DEF r, x
<1>3. Over("scopes", r, <<>>, r, m, n)
  BY <1>1, OverNothing
<1>4. Over("scopes", Append(r, x), Append(<<>>, SmallScopeOf(x)), r, m, n)
  BY <1>2, <1>3, AlikeScopes, OverAppend
<1>5. Append(<<>>, SmallScopeOf(x)) = <<SmallScopeOf(x)>>
  OBVIOUS
<1> QED BY <1>1, <1>4, <1>5 DEF r, x

(* No block, or one                                                        *)
IsSmall(c) ==
  c = <<>> \/ \E x : c = <<SmallScopeOf(x)>> /\ x.kind \in Kinds /\ x.braced \in BOOLEAN /\ x.access \in Accesses

(* The blocks of a stack and of a text over those of a small text          *)
AreOver(s, blocks, within, n, f, r, c, q, m) ==
  /\ Over("blocks", s, f, r, m, n) /\ Over("scopes", blocks, c, q, m, n)
  /\ Below(r, q) /\ Room(f, r) /\ Closed(r)
  /\ Fits(f, c, within) /\ f \in SmallStacks /\ IsSmall(c)
  /\ blocks = <<>> <=> c = <<>>
  /\ c = <<>> => r = <<>>
  /\ c # <<>> => c = <<SmallScopeOf(Last(blocks))>>

(* A block has a small block.                                              *)
LEMMA InSmallStacks ==
  ASSUME NEW b, b.kind \in Kinds, b.seen_open_brace \in BOOLEAN, b.open_parentheses \in {0, 1},
         b.inline_asm \in {"no", "inside", "end"}, b.access \in Accesses
  PROVE  <<SmallOf(b)>> \in SmallStacks
BY DEF SmallStacks, SmallOf

(* So have a block and the scope that it covers.                           *)
LEMMA CoveredSmall ==
  ASSUME NEW b, NEW x, NEW innermost, NEW within, Covers(b, x, innermost, within)
  PROVE  <<SmallOf(b)>> \in SmallStacks /\ IsSmall(<<SmallScopeOf(x)>>)
<1>1. /\ b.kind \in Kinds /\ b.access \in Accesses /\ x.braced \in BOOLEAN
      /\ b.kind = x.kind /\ b.seen_open_brace = x.braced /\ b.access = x.access
  BY Zenon DEF Covers, IsBlock
<1>2. b.open_parentheses \in {0, 1}
  BY DEF Covers
<1>3. b.inline_asm \in {"no", "inside", "end"}
  BY DEF Covers
<1>4. <<SmallOf(b)>> \in SmallStacks
  BY <1>1, <1>2, <1>3, InSmallStacks
<1>5. IsSmall(<<SmallScopeOf(x)>>)
  BY <1>1, Zenon DEF IsSmall
<1> QED BY <1>4, <1>5

(* A stack and its blocks are over those of a small text.                  *)
LEMMA SmallBlocks ==
  ASSUME NEW s, IsSequence(s), \A i \in 1..Len(s) : IsRecord(s[i]),
         NEW blocks, IsSequence(blocks), \A i \in 1..Len(blocks) : IsScope(blocks[i]),
         NEW within, Fits(s, blocks, within), NEW n
  PROVE  \E f, r, c, q, m : AreOver(s, blocks, within, n, f, r, c, q, m)
<1>1. Len(s) \in Nat /\ Len(blocks) \in Nat /\ IsSequence(<<>>) /\ Len(<<>>) = 0
  BY EmptyIs
<1>2. Below(<<>>, <<>>) /\ Closed(<<>>)
  BY <1>1 DEF Below, Closed
<1>3. \A m : Over("scopes", <<>>, <<>>, <<>>, m, n) /\ Over("blocks", <<>>, <<>>, <<>>, m, n)
  BY <1>1, OverNothing
<1>4. CASE blocks = <<>> /\ s = <<>>
  <2>1. AreOver(<<>>, <<>>, within, n, <<>>, <<>>, <<>>, <<>>, 1)
    <3>1. <<>> \in SmallStacks
      BY DEF SmallStacks
    <3>2. Fits(<<>>, <<>>, within)
      BY <1>4
    <3>3. IsSmall(<<>>) /\ Room(<<>>, <<>>)
      BY Zenon DEF IsSmall, Room
    <3> QED BY <1>2, <1>3, <3>1, <3>2, <3>3, Zenon DEF AreOver
  <2> QED BY <1>4, <2>1, Zenon
<1>5. CASE blocks = <<>> /\ s # <<>>
  <2>1. Len(s) = 1 /\ IsHead(s[1]) /\ within = "params"
    <3>1. Len(blocks) = 0 /\ Len(s) # 0
      BY <1>1, <1>5, EmptyIs
    <3> QED BY <3>1 DEF Fits
  <2> DEFINE b == s[1]
             f == <<SmallOf(b)>>
             m == b.starting_linenum
  <2>2. Last(s) = b /\ Front(s) = <<>>
    <3>1. IsSequence(Front(s)) /\ Len(Front(s)) = Len(s) - 1 /\ Last(s) = s[Len(s)]
      BY <1>5, FrontIs
    <3>2. Len(Front(s)) = 0
      BY <2>1, <3>1
    <3> QED BY <2>1, <3>1, <3>2, EmptyIs
  <2>3. Over("blocks", s, f, <<>>, m, n)
    BY <1>5, <2>2, SmallTop
  <2>4. f \in SmallStacks
    <3>1. /\ b.kind \in Kinds /\ b.access \in Accesses /\ b.seen_open_brace = FALSE /\ b.open_parentheses = 0
          /\ b.inline_asm = "no"
      BY <2>1, Zenon DEF IsHead
    <3> HIDE DEF b
    <3>2. b.seen_open_brace \in BOOLEAN /\ b.open_parentheses \in {0, 1} /\ b.inline_asm \in {"no", "inside", "end"}
      BY <3>1, Zenon
    <3> QED BY <3>1, <3>2, InSmallStacks
  <2>5. Fits(f, <<>>, within)
    <3> DEFINE y == SmallOf(b)
    <3>1. /\ y.kind = b.kind /\ y.access = b.access /\ y.seen_open_brace = b.seen_open_brace
          /\ y.open_parentheses = b.open_parentheses /\ y.inline_asm = b.inline_asm
      BY Zenon DEF SmallOf, SmallBlock
    <3>2. IsHead(b)
      BY <2>1
    <3> HIDE DEF y, b
    <3>3. IsHead(y)
      BY <3>1, <3>2, Zenon DEF IsHead
    <3>4. f = <<y>>
      BY DEF y
    <3> HIDE DEF f
    <3>5. Len(f) = 1 /\ f[1] = y /\ Len(<<>>) = 0 /\ within # "asm" /\ \A i \in 1..Len(<<>>) : FALSE
      BY <2>1, <3>4
    <3> QED BY <2>1, <3>3, <3>5 DEF Fits
  <2>6. IsSmall(<<>>) /\ Room(f, <<>>)
    BY Zenon DEF IsSmall, Room
  <2> HIDE DEF f, m
  <2>7. AreOver(s, <<>>, within, n, f, <<>>, <<>>, <<>>, m)
    BY <1>2, <1>3, <2>3, <2>4, <2>5, <2>6, Zenon DEF AreOver
  <2> QED BY <1>5, <2>7, Zenon
<1>6. CASE blocks # <<>>
  <2> DEFINE K == Len(blocks)
             x == Last(s)
             z == Last(blocks)
             m == x.starting_linenum
  <2>1. K \in Nat \ {0} /\ Len(s) = K
    <3>1. K # 0
      BY <1>1, <1>6, EmptyIs
    <3> QED BY <1>1, <3>1 DEF Fits
  <2>2. s # <<>>
    BY <1>1, <2>1, EmptyIs
  <2>3. /\ IsSequence(Front(s)) /\ Len(Front(s)) = K - 1
        /\ (\A i \in 1..(K - 1) : Front(s)[i] = s[i]) /\ x = s[K]
    BY <2>1, <2>2, FrontIs
  <2>4. /\ IsSequence(Front(blocks)) /\ Len(Front(blocks)) = K - 1
        /\ (\A i \in 1..(K - 1) : Front(blocks)[i] = blocks[i]) /\ z = blocks[K]
    BY <1>6, FrontIs
  <2>5. \A i \in 1..K : IsRecord(s[i]) /\ IsScope(blocks[i]) /\ Covers(s[i], blocks[i], i = K, within)
    BY <2>1 DEF Fits
  <2> HIDE DEF K
  <2>6. K \in 1..K /\ \A i \in 1..(K - 1) : i \in 1..K /\ i # K
    BY <2>1
  <2>7. IsRecord(x) /\ IsScope(z) /\ Covers(x, z, TRUE, within)
    <3>1. Covers(s[K], blocks[K], K = K, within)
      BY <2>5, <2>6
    <3> QED BY <2>3, <2>4, <2>5, <2>6, <3>1
  <2>8. Below(Front(s), Front(blocks))
    <3>1. ASSUME NEW i \in 1..(K - 1)
          PROVE  IsRecord(s[i]) /\ IsScope(blocks[i]) /\ Covers(s[i], blocks[i], FALSE, "none")
      <4>1. Covers(s[i], blocks[i], i = K, within) /\ i # K
        BY <2>5, <2>6
      <4>2. Covers(s[i], blocks[i], FALSE, "none")
        BY <4>1, Zenon DEF Covers
      <4> QED BY <2>5, <2>6, <4>2
    <3> QED BY <2>3, <2>4, <3>1, Zenon DEF Below
  <2>9. Closed(Front(s))
    <3>1. CASE Front(s) = <<>>
      BY <3>1, Zenon DEF Closed
    <3>2. CASE Front(s) # <<>>
      <4>1. Len(Front(s)) \in 1..Len(Front(s)) /\ Last(Front(s)) = Front(s)[Len(Front(s))]
        BY <2>3, <3>2, FrontIs
      <4>2. Covers(Last(Front(s)), Front(blocks)[Len(Front(s))], FALSE, "none")
        BY <2>8, <4>1 DEF Below
      <4> QED BY <4>2, Zenon DEF Covers, Closed
    <3> QED BY <3>1, <3>2
  <2>10. z.line = m
    BY <2>7, Zenon DEF Covers, IsBlock
  <2>11. Over("blocks", s, <<SmallOf(x)>>, Front(s), m, n)
    BY <2>2, SmallTop
  <2>12. Over("scopes", blocks, <<SmallScopeOf(z)>>, Front(blocks), m, n)
    BY <1>6, <2>10, SmallInnermost
  <2> DEFINE f == <<SmallOf(x)>>
             c == <<SmallScopeOf(z)>>
  <2>13. f \in SmallStacks /\ IsSmall(c)
    BY <2>7, CoveredSmall
  <2>14. Fits(f, c, within)
    <3>1. Covers(SmallOf(x), SmallScopeOf(z), TRUE, within)
      BY <2>7, CoversSmall
    <3>2. /\ Len(f) = 1 /\ Len(c) = 1 /\ f[1] = SmallOf(x) /\ c[1] = SmallScopeOf(z)
          /\ \A i \in 1..1 : i = 1
      OBVIOUS
    <3> HIDE DEF f, c
    <3>3. ASSUME NEW i \in 1..Len(c) PROVE Covers(f[i], c[i], i = Len(c), within)
      <4>1. i = 1 /\ i = Len(c) /\ (i = Len(c)) = TRUE
        BY <3>2
      <4> QED BY <3>1, <3>2, <4>1, Zenon
    <3>4. Len(c) > 0
      BY <3>2
    <3> QED BY <3>2, <3>3, <3>4, Zenon DEF Fits
  <2>15. f # <<>> /\ c # <<>>
    OBVIOUS
  <2> HIDE DEF f, c, m
  <2>16. AreOver(s, blocks, within, n, f, Front(s), c, Front(blocks), m)
    BY <1>6, <2>8, <2>9, <2>11, <2>12, <2>13, <2>14, <2>15, Zenon DEF AreOver, Room, f, c
  <2> QED BY <2>16, Zenon
<1> QED BY <1>4, <1>5, <1>6

(* A stack and the scopes of a text over those of a small text             *)
IsOver(s, scopes, n, f, r, c, q, m) ==
  /\ [stack |-> f, nest |-> c] \in SmallTexts
  /\ Over("blocks", s, f, r, m, n) /\ Over("scopes", scopes, c, q, m, n)
  /\ Below(r, q) /\ Room(f, r) /\ Closed(r)
  /\ Innermost(c) = Innermost(scopes)
  /\ BlocksOf(c) = <<>> => r = <<>>

(* Scopes with the same innermost one                                      *)
LEMMA SameInnermost ==
  ASSUME NEW c, NEW d, c = <<>> <=> d = <<>>,
         c # <<>> => Last(c).kind = Last(d).kind /\ Last(c).braced = Last(d).braced
  PROVE  Innermost(c) = Innermost(d)
<1>1. CASE c = <<>>
  BY <1>1
<1>2. CASE c # <<>>
  <2>1. c # <<>> /\ d # <<>> /\ Last(c).kind = Last(d).kind /\ Last(c).braced = Last(d).braced
    BY <1>2
  <2>2. CASE Last(c).braced
    <3>1. Innermost(c) = Last(c).kind /\ Innermost(d) = Last(d).kind
      BY <2>1, <2>2, Zenon DEF Innermost
    <3> QED BY <2>1, <3>1
  <2>3. CASE ~Last(c).braced
    <3>1. Innermost(c) = "head" /\ Innermost(d) = "head"
      BY <2>1, <2>3, Zenon DEF Innermost
    <3> QED BY <3>1
  <2> QED BY <2>2, <2>3
<1> QED BY <1>1, <1>2

(* A small stack and small scopes are a small text if they match.          *)
LEMMA IsSmallText ==
  ASSUME NEW f \in SmallStacks, NEW c \in SmallNests, Matches(f, c)
  PROVE  [stack |-> f, nest |-> c] \in SmallTexts
<1> DEFINE t == [stack |-> f, nest |-> c]
<1>1. t \in [stack : SmallStacks, nest : SmallNests] /\ t.stack = f /\ t.nest = c
  OBVIOUS
<1> HIDE DEF t
<1>2. t \in SmallTexts
  BY <1>1, Zenon DEF SmallTexts
<1> QED BY <1>2 DEF t

(* A pair                                                                  *)
LEMMA PairIs ==
  ASSUME NEW y, NEW h
  PROVE  Append(<<y>>, h) = <<y, h>>
<1> DEFINE s == <<y>>
           p == Append(s, h)
           q == <<y, h>>
<1>1. s \in Seq({y, h}) /\ Len(s) = 1 /\ s[1] = y
  OBVIOUS
<1>2. q \in Seq({y, h}) /\ Len(q) = 2 /\ q[1] = y /\ q[2] = h
  OBVIOUS
<1> HIDE DEF s, q
<1>3. IsSequence(p) /\ Len(p) = Len(s) + 1 /\ (\A i \in 1..Len(s) : p[i] = s[i]) /\ p[Len(s) + 1] = h
  BY <1>1, SequenceIs, AppendIs
<1> HIDE DEF p
<1>4. Len(p) = Len(q) /\ p[1] = y /\ p[2] = h
  BY <1>1, <1>2, <1>3
<1>5. \A i \in 1..Len(p) : i = 1 \/ i = 2
  BY <1>2, <1>4
<1>6. \A i \in 1..Len(p) : p[i] = q[i]
  BY <1>2, <1>4, <1>5
<1>7. p = q
  BY <1>2, <1>3, <1>4, <1>6, SequenceIs, SameSequence
<1> QED BY <1>7 DEF p, s, q

(* Small scopes, without and with one that is no block.                    *)
LEMMA InSmallNests ==
  ASSUME NEW c, IsSmall(c)
  PROVE  /\ c \in SmallNests
         /\ \A kind \in Hidden : Append(c, SmallScope(kind, TRUE, "none")) \in SmallNests
<1> DEFINE scopes == {SmallScope(kind, braced, access) : kind \in Kinds, braced \in BOOLEAN, access \in Accesses}
           hidden == {SmallScope(kind, TRUE, "none") : kind \in Hidden}
<1>1. SmallNests = {<<>>} \cup {<<scope>> : scope \in scopes \cup hidden}
                     \cup {<<scope, within>> : scope \in scopes, within \in hidden}
  BY DEF SmallNests
<1>2. \A kind \in Hidden : SmallScope(kind, TRUE, "none") \in hidden
  BY Zenon
<1>3. ASSUME NEW kind \in Kinds, NEW braced \in BOOLEAN, NEW access \in Accesses
      PROVE  SmallScope(kind, braced, access) \in scopes
  OBVIOUS
<1> HIDE DEF scopes, hidden
<1>4. <<>> \in SmallNests /\ \A h \in hidden : <<h>> \in SmallNests
  BY <1>1
<1>5. \A y \in scopes : <<y>> \in SmallNests /\ \A h \in hidden : <<y, h>> \in SmallNests
  BY <1>1
<1>6. CASE c = <<>>
  <2>1. \A x : Append(c, x) = <<x>>
    BY <1>6
  <2> QED BY <1>2, <1>4, <1>6, <2>1
<1>7. CASE c # <<>>
  <2>1. PICK x : c = <<SmallScopeOf(x)>> /\ x.kind \in Kinds /\ x.braced \in BOOLEAN /\ x.access \in Accesses
    BY <1>7, Zenon DEF IsSmall
  <2> DEFINE y == SmallScopeOf(x)
  <2>2. y \in scopes
    BY <1>3, <2>1, Zenon DEF SmallScopeOf
  <2> HIDE DEF y
  <2>3. c = <<y>>
    BY <2>1 DEF y
  <2>4. \A h : Append(c, h) = <<y, h>>
    BY <2>3, PairIs
  <2> QED BY <1>2, <1>5, <2>2, <2>3, <2>4
<1> QED BY <1>6, <1>7

(* A stack and the scopes it matches are over those of a small text.       *)
LEMMA SmallText ==
  ASSUME NEW s, NEW scopes, Fit(s, scopes), NEW n
  PROVE  \E f, r, c, q, m : IsOver(s, scopes, n, f, r, c, q, m)
<1> DEFINE blocks == BlocksOf(scopes)
           within == Within(scopes)
           h == Last(scopes)
<1>1. /\ IsSequence(s) /\ IsSequence(scopes)
      /\ \A i \in 1..Len(s) : IsRecord(s[i])
      /\ \A i \in 1..Len(scopes) : IsScope(scopes[i])
      /\ Fits(s, blocks, within)
      /\ within # "none" => h.braced = TRUE /\ h.access = "none"
  BY Zenon DEF Fit, Matches
<1>2. /\ IsSequence(blocks)
      /\ within = "none" => scopes = blocks
      /\ within # "none" => scopes # <<>> /\ within \in Hidden /\ h.kind = within /\ scopes = Append(blocks, h)
  BY <1>1, ScopesAre
<1> HIDE DEF blocks, within, h
<1>3. \A i \in 1..Len(blocks) : IsScope(blocks[i])
  <2>1. CASE within = "none"
    BY <1>1, <1>2, <2>1
  <2>2. CASE within # "none"
    <3>1. /\ Len(blocks) \in Nat /\ Len(scopes) = Len(blocks) + 1
          /\ \A i \in 1..Len(blocks) : scopes[i] = blocks[i]
      BY <1>2, <2>2, AppendIs, EmptyIs
    <3>2. \A i \in 1..Len(blocks) : i \in 1..Len(scopes)
      BY <3>1
    <3> QED BY <1>1, <3>1, <3>2, Zenon
  <2> QED BY <2>1, <2>2
<1>4. PICK f, r, b, q, m : AreOver(s, blocks, within, n, f, r, b, q, m)
  BY <1>1, <1>2, <1>3, SmallBlocks
<1>5. /\ Over("blocks", s, f, r, m, n) /\ Over("scopes", blocks, b, q, m, n)
      /\ Below(r, q) /\ Room(f, r) /\ Closed(r)
      /\ Fits(f, b, within) /\ f \in SmallStacks /\ IsSmall(b)
      /\ blocks = <<>> <=> b = <<>>
      /\ b = <<>> => r = <<>>
      /\ b # <<>> => b = <<SmallScopeOf(Last(blocks))>>
  BY <1>4, Zenon DEF AreOver
<1>6. IsSequence(b)
  BY <1>5 DEF Over
<1>7. b = <<>> \/ (Last(b).kind \in Kinds /\ Last(b) = SmallScopeOf(Last(blocks)))
  <2>1. CASE b # <<>>
    <3>1. PICK x : b = <<SmallScopeOf(x)>> /\ x.kind \in Kinds
      BY <1>5, <2>1, Zenon DEF IsSmall
    <3>2. SmallScopeOf(x).kind = x.kind
      BY Zenon DEF SmallScopeOf, SmallScope
    <3>3. \A y : Len(<<y>>) = 1 /\ <<y>>[1] = y
      OBVIOUS
    <3>4. Last(b) = SmallScopeOf(x) /\ Last(b) = SmallScopeOf(Last(blocks))
      BY <1>5, <2>1, <3>1, <3>3 DEF Last
    <3> QED BY <3>1, <3>2, <3>4
  <2> QED BY <2>1
<1>8. CASE within = "none"
  <2>1. Within(b) = "none" /\ BlocksOf(b) = b
    BY <1>6, <1>7, WithinIs
  <2>2. Matches(f, b)
    BY <1>5, <1>8, <2>1, Zenon DEF Matches
  <2>3. [stack |-> f, nest |-> b] \in SmallTexts
    BY <1>5, <2>2, InSmallNests, IsSmallText
  <2>4. Innermost(b) = Innermost(scopes)
    <3>1. scopes = blocks /\ (blocks = <<>> <=> b = <<>>)
      BY <1>2, <1>5, <1>8
    <3>2. b # <<>> => Last(b).kind = Last(blocks).kind /\ Last(b).braced = Last(blocks).braced
      <4>1. \A x : SmallScopeOf(x).kind = x.kind /\ SmallScopeOf(x).braced = x.braced
        BY Zenon DEF SmallScopeOf, SmallScope
      <4> QED BY <1>7, <4>1
    <3> QED BY <3>1, <3>2, SameInnermost
  <2>5. IsOver(s, scopes, n, f, r, b, q, m)
    BY <1>2, <1>5, <1>8, <2>1, <2>3, <2>4, Zenon DEF IsOver
  <2> QED BY <2>5, Zenon
<1>9. CASE within # "none"
  <2> DEFINE y == SmallScope(within, TRUE, "none")
             c == Append(b, y)
  <2>1. /\ scopes # <<>> /\ within \in Hidden /\ h.kind = within /\ scopes = Append(blocks, h)
        /\ h.braced = TRUE /\ h.access = "none"
    BY <1>1, <1>2, <1>9
  <2>2. IsScope(h)
    <3>1. Len(scopes) \in 1..Len(scopes) /\ h = scopes[Len(scopes)]
      BY <1>1, <2>1, FrontIs DEF h
    <3> QED BY <1>1, <3>1
  <2>3. y = SmallScopeOf(h)
    BY <2>1, Zenon DEF SmallScopeOf
  <2>4. LikeScope(h, y, m, n)
    BY <2>1, <2>2, <2>3, LikeSmall
  <2>5. y.kind = within /\ y.braced = TRUE /\ y.access = "none"
    BY Zenon DEF SmallScope
  <2>6. c \in SmallNests
    BY <1>5, <2>1, InSmallNests
  <2> HIDE DEF y
  <2>7. Over("scopes", scopes, c, q, m, n)
    BY <1>5, <2>1, <2>4, AlikeScopes, OverAppend
  <2>8. Within(c) = within /\ BlocksOf(c) = b
    BY <1>6, <2>1, <2>5, WithinIs
  <2>9. Last(c) = y /\ c # <<>>
    BY <1>6, AppendParts
  <2> HIDE DEF c
  <2>10. Matches(f, c)
    BY <1>5, <2>5, <2>8, <2>9, Zenon DEF Matches
  <2>11. [stack |-> f, nest |-> c] \in SmallTexts
    BY <1>5, <2>6, <2>10, IsSmallText
  <2>12. Innermost(c) = Innermost(scopes)
    <3>1. Last(c).kind = Last(scopes).kind /\ Last(c).braced = Last(scopes).braced
      BY <2>1, <2>5, <2>9 DEF h
    <3> QED BY <2>1, <2>9, <3>1, SameInnermost
  <2>13. IsOver(s, scopes, n, f, r, c, q, m)
    BY <1>5, <2>7, <2>8, <2>11, <2>12, Zenon DEF IsOver
  <2> QED BY <2>13, Zenon
<1> QED BY <1>8, <1>9

-----------------------------------------------------------------------------
(* What matches on the small text matches on the whole one *)

(* Every element is one below or one of the small text.                    *)
LEMMA OverEach ==
  ASSUME NEW what, NEW s, NEW f, NEW r, NEW m, NEW n, Over(what, s, f, r, m, n), NEW i \in 1..Len(s)
  PROVE  \/ i \in 1..Len(r) /\ s[i] = r[i]
         \/ \E j \in 1..Len(f) : i = Len(r) + j /\ Alike(what, s[i], f[j], m, n)
<1>1. Len(f) \in Nat /\ Len(r) \in Nat /\ Len(s) \in Nat /\ Len(s) = Len(r) + Len(f)
  BY EmptyIs DEF Over
<1>2. CASE i <= Len(r)
  <2>1. i \in 1..Len(r)
    BY <1>1, <1>2
  <2> QED BY <2>1, Zenon DEF Over
<1>3. CASE ~(i <= Len(r))
  <2> DEFINE j == i - Len(r)
  <2>1. j \in 1..Len(f) /\ i = Len(r) + j
    BY <1>1, <1>3
  <2> HIDE DEF j
  <2>2. Alike(what, s[Len(r) + j], f[j], m, n)
    BY <2>1, Zenon DEF Over
  <2> QED BY <2>1, <2>2
<1> QED BY <1>2, <1>3

(* Blocks and scopes like those of the small text cover each other alike.  *)
LEMMA CoversLike ==
  ASSUME NEW x, NEW y, NEW u, NEW z, NEW m, NEW n, NEW innermost, NEW within,
         Covers(y, z, innermost, within), Like(x, y, m, n), LikeScope(u, z, m, n)
  PROVE  Covers(x, u, innermost, within)
<1>1. /\ x.kind = y.kind /\ x.seen_open_brace = y.seen_open_brace /\ x.access = y.access
      /\ x.open_parentheses = y.open_parentheses /\ x.inline_asm = y.inline_asm
      /\ x.starting_linenum = At(y.starting_linenum, m, n)
  BY Zenon DEF Like
<1>2. /\ u.kind = z.kind /\ u.braced = z.braced /\ u.access = z.access
      /\ z.kind \in Hidden \/ u.line = At(z.line, m, n)
  BY Zenon DEF LikeScope
<1>3. /\ y.kind = z.kind /\ y.seen_open_brace = z.braced /\ y.starting_linenum = z.line /\ y.access = z.access
      /\ y.kind \in Kinds
  BY Zenon DEF Covers, IsBlock
<1>4. z.kind \notin Hidden
  BY <1>3, KindsApart, Zenon
<1>5. IsBlock(x, u)
  BY <1>1, <1>2, <1>3, <1>4, Zenon DEF IsBlock
<1> QED BY <1>1, <1>2, <1>5, Zenon DEF Covers

(* A complete block below is also a complete innermost one.                *)
LEMMA CoversBelow ==
  ASSUME NEW x, NEW u, Covers(x, u, FALSE, "none")
  PROVE  /\ \A within : Covers(x, u, FALSE, within)
         /\ Covers(x, u, TRUE, "none")
<1>1. /\ IsBlock(x, u) /\ x.kind \in Kinds /\ x.access \in Accesses /\ u.braced \in BOOLEAN
      /\ x.seen_open_brace /\ x.open_parentheses = 0 /\ x.inline_asm = "no"
  BY Zenon DEF Covers
<1>2. \A within : Covers(x, u, FALSE, within)
  BY <1>1, Zenon DEF Covers
<1>3. "none" \notin {"params", "args", "asm"} /\ "none" # "asm" /\ "no" \in {"no", "end"}
  OBVIOUS
<1>4. Covers(x, u, TRUE, "none")
  BY <1>1, <1>3, Zenon DEF Covers
<1> QED BY <1>2, <1>4

(* The elements of both are records.                                       *)
LEMMA OverRecords ==
  ASSUME NEW s, NEW scopes, NEW f, NEW r, NEW c, NEW q, NEW m, NEW n,
         Over("blocks", s, f, r, m, n), Over("scopes", scopes, c, q, m, n), Below(r, q)
  PROVE  /\ \A i \in 1..Len(s) : IsRecord(s[i])
         /\ \A i \in 1..Len(scopes) : IsScope(scopes[i])
<1>1. ASSUME NEW i \in 1..Len(s) PROVE IsRecord(s[i])
  <2>1. CASE i \in 1..Len(r) /\ s[i] = r[i]
    BY <2>1 DEF Below
  <2>2. CASE \E j \in 1..Len(f) : i = Len(r) + j /\ Alike("blocks", s[i], f[j], m, n)
    <3>1. PICK j \in 1..Len(f) : Like(s[i], f[j], m, n)
      BY <2>2, AlikeBlocks
    <3> QED BY <3>1, Zenon DEF Like
  <2>3. \/ i \in 1..Len(r) /\ s[i] = r[i]
        \/ \E j \in 1..Len(f) : i = Len(r) + j /\ Alike("blocks", s[i], f[j], m, n)
    BY OverEach
  <2> QED BY <2>1, <2>2, <2>3, Zenon
<1>2. ASSUME NEW i \in 1..Len(scopes) PROVE IsScope(scopes[i])
  <2>1. CASE i \in 1..Len(q) /\ scopes[i] = q[i]
    BY <2>1, Zenon DEF Below
  <2>2. CASE \E j \in 1..Len(c) : i = Len(q) + j /\ Alike("scopes", scopes[i], c[j], m, n)
    <3>1. PICK j \in 1..Len(c) : LikeScope(scopes[i], c[j], m, n)
      BY <2>2, AlikeScopes
    <3> QED BY <3>1, Zenon DEF LikeScope
  <2>3. \/ i \in 1..Len(q) /\ scopes[i] = q[i]
        \/ \E j \in 1..Len(c) : i = Len(q) + j /\ Alike("scopes", scopes[i], c[j], m, n)
    BY OverEach
  <2> QED BY <2>1, <2>2, <2>3, Zenon
<1> QED BY <1>1, <1>2

(* The scopes below are blocks.                                            *)
LEMMA BelowBlocks ==
  ASSUME NEW r, NEW q, Below(r, q)
  PROVE  Within(q) = "none" /\ BlocksOf(q) = q /\ \A i \in 1..Len(q) : q[i].kind \in Kinds
<1>1. IsSequence(q) /\ Len(r) = Len(q) /\ \A i \in 1..Len(q) : Covers(r[i], q[i], FALSE, "none")
  BY DEF Below
<1>2. \A i \in 1..Len(q) : q[i].kind \in Kinds
  BY <1>1, Zenon DEF Covers, IsBlock
<1>3. q = <<>> \/ Last(q).kind \in Kinds
  <2>1. CASE q # <<>>
    BY <1>1, <1>2, <2>1, FrontIs
  <2> QED BY <2>1
<1> QED BY <1>1, <1>2, <1>3, WithinIs

(* The blocks of the text are over those of the small text.                *)
LEMMA OverBlocksOf ==
  ASSUME NEW scopes, NEW c, NEW q, NEW m, NEW n, Over("scopes", scopes, c, q, m, n), c # <<>>
  PROVE  /\ Within(scopes) = Within(c)
         /\ Over("scopes", BlocksOf(scopes), BlocksOf(c), q, m, n)
         /\ scopes # <<>> /\ Last(scopes).braced = Last(c).braced /\ Last(scopes).access = Last(c).access
         /\ Last(scopes).kind = Last(c).kind
<1>1. /\ scopes # <<>> /\ Last(scopes).kind = Last(c).kind
      /\ Last(scopes).braced = Last(c).braced /\ Last(scopes).access = Last(c).access
  <2>1. scopes # <<>> /\ LikeScope(Last(scopes), Last(c), m, n)
    BY OverTop, AlikeScopes
  <2> QED BY <2>1, Zenon DEF LikeScope
<1>2. Within(scopes) = Within(c)
  BY <1>1, Zenon DEF Within
<1>3. Over("scopes", Front(scopes), Front(c), q, m, n)
  BY OverFront
<1>4. Over("scopes", BlocksOf(scopes), BlocksOf(c), q, m, n)
  BY <1>2, <1>3, Zenon DEF BlocksOf
<1> QED BY <1>1, <1>2, <1>4

(* A stack with its blocks over those of a small text that fit             *)
LEMMA LiftFits ==
  ASSUME NEW s, NEW blocks, NEW f, NEW r, NEW c, NEW q, NEW m, NEW n, NEW within,
         Over("blocks", s, f, r, m, n), Over("scopes", blocks, c, q, m, n), Below(r, q),
         Fits(f, c, within), c = <<>> => r = <<>> \/ within = "none"
  PROVE  Fits(s, blocks, within)
<1>1. /\ Len(s) \in Nat /\ Len(f) \in Nat /\ Len(r) \in Nat /\ Len(s) = Len(r) + Len(f)
      /\ Len(blocks) \in Nat /\ Len(c) \in Nat /\ Len(q) \in Nat /\ Len(blocks) = Len(q) + Len(c)
      /\ IsSequence(s) /\ IsSequence(f) /\ IsSequence(r) /\ IsSequence(blocks) /\ IsSequence(c) /\ IsSequence(q)
  BY EmptyIs DEF Over
<1>2. Len(r) = Len(q) /\ \A i \in 1..Len(r) : Covers(r[i], q[i], FALSE, "none")
  BY DEF Below
<1>3. /\ \/ Len(f) = Len(c)
         \/ within = "params" /\ Len(c) = 0 /\ Len(f) = 1 /\ IsHead(f[1])
      /\ within = "asm" => Len(c) > 0
      /\ \A j \in 1..Len(c) : Covers(f[j], c[j], j = Len(c), within)
  BY Zenon DEF Fits
<1>4. Len(c) = 0 => Len(r) = 0 \/ within = "none"
  BY <1>1, EmptyIs
<1>5. ASSUME NEW i \in 1..Len(blocks) PROVE Covers(s[i], blocks[i], i = Len(blocks), within)
  <2>1. CASE i \in 1..Len(r)
    <3>1. s[i] = r[i] /\ blocks[i] = q[i] /\ Covers(s[i], blocks[i], FALSE, "none")
      <4>1. s[i] = r[i]
        BY <2>1, Zenon DEF Over
      <4>2. blocks[i] = q[i]
        BY <1>2, <2>1, Zenon DEF Over
      <4> QED BY <1>2, <2>1, <4>1, <4>2
    <3>2. CASE i = Len(blocks)
      <4>1. Len(c) = 0
        BY <1>1, <1>2, <2>1, <3>2
      <4>2. within = "none" /\ (i = Len(blocks)) = TRUE
        BY <1>1, <1>4, <2>1, <3>2, <4>1
      <4>3. Covers(s[i], blocks[i], TRUE, within)
        BY <3>1, <4>2, CoversBelow, Zenon
      <4> QED BY <4>2, <4>3, Zenon
    <3>3. CASE i # Len(blocks)
      <4>1. Covers(s[i], blocks[i], FALSE, within)
        BY <3>1, CoversBelow
      <4>2. (i = Len(blocks)) = FALSE
        BY <3>3
      <4> QED BY <4>1, <4>2, Zenon
    <3> QED BY <3>2, <3>3
  <2>2. CASE ~(i \in 1..Len(r))
    <3> DEFINE j == i - Len(r)
    <3>1. j \in 1..Len(c) /\ i = Len(r) + j /\ i = Len(q) + j /\ (i = Len(blocks)) = (j = Len(c))
      BY <1>1, <1>2, <2>2
    <3>2. Len(f) = Len(c)
      BY <1>1, <1>3, <3>1
    <3> HIDE DEF j
    <3>3. Like(s[i], f[j], m, n)
      BY <3>1, <3>2, AlikeBlocks DEF Over
    <3>4. LikeScope(blocks[i], c[j], m, n)
      BY <3>1, AlikeScopes DEF Over
    <3>5. Covers(f[j], c[j], j = Len(c), within)
      BY <1>3, <3>1
    <3>6. Covers(s[i], blocks[i], j = Len(c), within)
      BY <3>3, <3>4, <3>5, CoversLike
    <3> QED BY <3>1, <3>6
  <2> QED BY <2>1, <2>2
<1>6. \/ Len(s) = Len(blocks)
      \/ within = "params" /\ Len(blocks) = 0 /\ Len(s) = 1 /\ IsHead(s[1])
  <2>1. CASE Len(f) = Len(c)
    BY <1>1, <1>2, <2>1
  <2>2. CASE within = "params" /\ Len(c) = 0 /\ Len(f) = 1 /\ IsHead(f[1])
    <3>1. Len(r) = 0 /\ Len(blocks) = 0 /\ Len(s) = 1 /\ 1 \in 1..Len(f) /\ Len(r) + 1 = 1
      BY <1>1, <1>2, <1>4, <2>2
    <3>2. Like(s[1], f[1], m, n)
      BY <3>1, AlikeBlocks DEF Over
    <3>3. IsHead(s[1])
      BY <2>2, <3>2, Zenon DEF IsHead, Like
    <3> QED BY <2>2, <3>1, <3>3
  <2> QED BY <1>3, <2>1, <2>2
<1>7. within = "asm" => Len(blocks) > 0
  BY <1>1, <1>3
<1> QED BY <1>5, <1>6, <1>7, Zenon DEF Fits

(* The stack and the scopes match if those of the small text do.           *)
LEMMA Lift ==
  ASSUME NEW s, NEW scopes, NEW f, NEW r, NEW c, NEW q, NEW m, NEW n,
         Over("blocks", s, f, r, m, n), Over("scopes", scopes, c, q, m, n), Below(r, q),
         Matches(f, c), c # <<>> /\ BlocksOf(c) = <<>> => r = <<>>
  PROVE  Fit(s, scopes) /\ Within(scopes) = Within(c)
<1>1. IsSequence(s) /\ IsSequence(scopes)
  BY DEF Over
<1>2. (\A i \in 1..Len(s) : IsRecord(s[i])) /\ \A i \in 1..Len(scopes) : IsScope(scopes[i])
  BY OverRecords
<1>3. Fits(f, BlocksOf(c), Within(c)) /\ (Within(c) # "none" => Last(c).braced = TRUE /\ Last(c).access = "none")
  BY Zenon DEF Matches
<1>4. CASE c = <<>>
  <2>1. Within(c) = "none" /\ BlocksOf(c) = <<>>
    BY <1>4, Zenon DEF Within, BlocksOf
  <2>2. scopes = q
    BY <1>4, OverNone
  <2>3. Within(scopes) = "none" /\ BlocksOf(scopes) = scopes
    BY <2>2, BelowBlocks
  <2>4. Fits(s, scopes, "none")
    <3>1. Over("scopes", scopes, <<>>, q, m, n) /\ Fits(f, <<>>, "none")
      BY <1>3, <1>4, <2>1
    <3> QED BY <3>1, LiftFits
  <2>5. Matches(s, scopes)
    BY <2>3, <2>4, Zenon DEF Matches
  <2> QED BY <1>1, <1>2, <2>1, <2>3, <2>5, Zenon DEF Fit
<1>5. CASE c # <<>>
  <2>1. /\ Within(scopes) = Within(c)
        /\ Over("scopes", BlocksOf(scopes), BlocksOf(c), q, m, n)
        /\ Last(scopes).braced = Last(c).braced /\ Last(scopes).access = Last(c).access
    BY <1>5, OverBlocksOf
  <2>2. BlocksOf(c) = <<>> => r = <<>>
    BY <1>5
  <2>3. Fits(s, BlocksOf(scopes), Within(scopes))
    <3>1. Fits(s, BlocksOf(scopes), Within(c))
      BY <1>3, <2>1, <2>2, LiftFits
    <3> QED BY <2>1, <3>1
  <2>4. Matches(s, scopes)
    BY <1>3, <2>1, <2>3, Zenon DEF Matches
  <2> QED BY <1>1, <1>2, <2>1, <2>4, Zenon DEF Fit
<1> QED BY <1>4, <1>5

(* The text is in assembly if that is its innermost scope.                 *)
LEMMA AssemblyIs ==
  ASSUME NEW s, NEW scopes, IsSequence(scopes), Matches(s, scopes)
  PROVE  Assembly(scopes) <=> Within(scopes) = "asm"
<1> DEFINE blocks == BlocksOf(scopes)
<1>1. /\ IsSequence(blocks)
      /\ Within(scopes) = "none" => scopes = blocks
      /\ Within(scopes) # "none" =>
           scopes # <<>> /\ Last(scopes).kind = Within(scopes) /\ scopes = Append(blocks, Last(scopes))
  BY ScopesAre
<1>2. \A i \in 1..Len(blocks) : blocks[i].kind \in Kinds
  BY Zenon DEF Matches, Fits, Covers, IsBlock
<1>3. \A i \in 1..Len(blocks) : blocks[i].kind # "asm"
  <2>1. \A kind \in Kinds : kind # "asm"
    BY DEF Kinds
  <2> QED BY <1>2, <2>1
<1>4. Assembly(scopes) <=> \E i \in 1..Len(scopes) : scopes[i].kind = "asm"
  <2>1. DOMAIN scopes = 1..Len(scopes)
    <3>1. scopes \in Seq(Elements(scopes))
      BY DEF IsSequence
    <3> QED BY <3>1
  <2> QED BY <2>1, Zenon DEF Assembly, ToSet
<1> HIDE DEF blocks
<1>5. CASE Within(scopes) = "none"
  BY <1>1, <1>3, <1>4, <1>5
<1>6. CASE Within(scopes) # "none"
  <2> DEFINE top == Last(scopes)
  <2>1. top.kind = Within(scopes) /\ scopes = Append(blocks, top)
    BY <1>1, <1>6
  <2> HIDE DEF top
  <2>2. /\ Len(blocks) \in Nat /\ Len(scopes) = Len(blocks) + 1 /\ scopes[Len(blocks) + 1] = top
        /\ \A i \in 1..Len(blocks) : scopes[i] = blocks[i]
    BY <1>1, <2>1, AppendIs, EmptyIs
  <2>3. \A i \in 1..Len(scopes) : i = Len(blocks) + 1 \/ i \in 1..Len(blocks)
    BY <2>2
  <2>4. Len(blocks) + 1 \in 1..Len(scopes)
    BY <2>2
  <2> QED BY <1>3, <1>4, <2>1, <2>2, <2>3, <2>4
<1> QED BY <1>5, <1>6

AsmEnds(s) == s # <<>> /\ Last(s).inline_asm = "end"

(* The top of the stack is just behind assembly if that of the small one is. *)
LEMMA OverEnds ==
  ASSUME NEW s, NEW f, NEW r, NEW q, NEW m, NEW n, Over("blocks", s, f, r, m, n), Below(r, q)
  PROVE  AsmEnds(s) <=> AsmEnds(f)
<1>1. CASE f = <<>>
  <2>1. s = r
    BY <1>1, OverNone
  <2>2. CASE r = <<>>
    BY <1>1, <2>1, <2>2, Zenon DEF AsmEnds
  <2>3. CASE r # <<>>
    <3>1. IsSequence(r) /\ \A i \in 1..Len(r) : Covers(r[i], q[i], FALSE, "none")
      BY DEF Below
    <3>2. Len(r) \in 1..Len(r) /\ Last(r) = r[Len(r)]
      BY <2>3, <3>1, FrontIs
    <3>3. Last(r).inline_asm = "no"
      BY <3>1, <3>2, Zenon DEF Covers
    <3> QED BY <1>1, <2>1, <3>3 DEF AsmEnds
  <2> QED BY <2>2, <2>3
<1>2. CASE f # <<>>
  <2>1. s # <<>> /\ Like(Last(s), Last(f), m, n)
    BY <1>2, OverTop, AlikeBlocks
  <2> QED BY <1>2, <2>1, Zenon DEF Like, AsmEnds
<1> QED BY <1>1, <1>2

(* A line of a small text                                                  *)
LEMMA SmallLine ==
  ASSUME NEW f, NEW c, [stack |-> f, nest |-> c] \in SmallTexts, NEW x \in DOMAIN Source,
         Innermost(c) \in Source[x].where \/ Source[x].pp # "none"
  PROVE  LET line == Source[x]
             d == DoLine(c, line, 2)
             g == ReadLine(f, line, 2).stack
         IN /\ Matches(f, c) /\ Matches(g, d)
            /\ line.ns \in Seq(BOOLEAN) /\ Len(line.tokens) \in Nat /\ Len(line.means) \in Nat
            /\ ClosesItsOwn(line, Reading(Declarations(CountParentheses(f, line), line, 2), line, 2))
            /\ HasItsScopes(line, Doing(c, line, 2))
            /\ BlocksOf(c) # <<>> /\ BlocksOf(d) = <<>> => d = <<>>
            /\ AsmEnds(g) <=> Assembly(c) /\ ~Assembly(d)
<1> DEFINE line == Source[x]
           t == [stack |-> f, nest |-> c]
           read == Reading(Declarations(CountParentheses(f, line), line, 2), line, 2)
           done == Doing(c, line, 2)
           g == read[Len(line.tokens)]
           d == done[Len(line.means)]
<1>1. t.stack = f /\ t.nest = c
  BY Zenon
<1>2. t \in SmallTexts
  OBVIOUS
<1> HIDE DEF t
<1>3. IsLine(line) /\ MeansWhatItShows(line, t)
  BY <1>1, <1>2, LinesMean, Zenon
<1>4. Matches(f, c)
  BY <1>1, <1>2, Zenon DEF SmallTexts
<1>5. g = ReadLine(f, line, 2).stack /\ d = DoLine(c, line, 2)
  BY Zenon DEF ReadLine, Tokens, DoLine
<1>6. line.ns \in Seq(BOOLEAN) /\ Len(line.tokens) \in Nat /\ Len(line.means) \in Nat
  BY <1>3, Zenon DEF IsLine
<1>7. /\ Matches(g, d)
      /\ \A k \in 1..Len(line.tokens) : line.tokens[k] = "}" => read[k - 1] # <<>>
      /\ \A k \in 1..Len(line.means) : line.means[k].do \notin {"open", "head"} => done[k - 1] # <<>>
      /\ BlocksOf(c) # <<>> /\ BlocksOf(d) = <<>> => d = <<>>
      /\ AsmEnds(g) <=> Assembly(c) /\ ~Assembly(d)
  BY <1>1, <1>3, Zenon DEF MeansWhatItShows, AsmEnds
<1>8. ClosesItsOwn(line, read)
  BY <1>7, Zenon DEF ClosesItsOwn
<1>9. HasItsScopes(line, done)
  BY <1>3, <1>7, Zenon DEF HasItsScopes, IsLine, IsEvent
<1> QED BY <1>4, <1>5, <1>6, <1>7, <1>8, <1>9, Zenon

(* A line keeps the stack that of the scopes, and assembly ends in both.   *)
LEMMA LineKeepsMatch ==
  ASSUME NEW s, NEW scopes, Fit(s, scopes), NEW x \in DOMAIN Source, NEW n,
         Innermost(scopes) \in Source[x].where \/ Source[x].pp # "none"
  PROVE  LET s2 == ReadLine(s, Source[x], n).stack
             scopes2 == DoLine(scopes, Source[x], n)
         IN Fit(s2, scopes2) /\ (AsmEnds(s2) <=> Assembly(scopes) /\ ~Assembly(scopes2))
<1> DEFINE line == Source[x]
           s2 == ReadLine(s, line, n).stack
           scopes2 == DoLine(scopes, line, n)
<1>1. PICK f, r, c, q, m : IsOver(s, scopes, n, f, r, c, q, m)
  BY SmallText
<1>2. /\ [stack |-> f, nest |-> c] \in SmallTexts
      /\ Over("blocks", s, f, r, m, n) /\ Over("scopes", scopes, c, q, m, n)
      /\ Below(r, q) /\ Room(f, r) /\ Closed(r)
      /\ Innermost(c) = Innermost(scopes)
      /\ BlocksOf(c) = <<>> => r = <<>>
  BY <1>1, Zenon DEF IsOver
<1> DEFINE d == DoLine(c, line, 2)
           g == ReadLine(f, line, 2).stack
<1>3. /\ Matches(f, c) /\ Matches(g, d)
      /\ line.ns \in Seq(BOOLEAN) /\ Len(line.tokens) \in Nat /\ Len(line.means) \in Nat
      /\ ClosesItsOwn(line, Reading(Declarations(CountParentheses(f, line), line, 2), line, 2))
      /\ HasItsScopes(line, Doing(c, line, 2))
      /\ BlocksOf(c) # <<>> /\ BlocksOf(d) = <<>> => d = <<>>
      /\ AsmEnds(g) <=> Assembly(c) /\ ~Assembly(d)
  <2>1. Innermost(c) \in Source[x].where \/ Source[x].pp # "none"
    BY <1>2
  <2> QED BY <1>2, <2>1, SmallLine, Zenon
<1> HIDE DEF line
<1>4. Over("blocks", s2, g, r, m, n)
  BY <1>2, <1>3, OverLine
<1>5. Over("scopes", scopes2, d, q, m, n)
  BY <1>2, <1>3, OverDoing
<1> HIDE DEF s2, scopes2, d, g
<1>6. Within(scopes) = Within(c)
  BY <1>2, <1>3, Lift
<1>7. Fit(s2, scopes2) /\ Within(scopes2) = Within(d)
  <2>1. d # <<>> /\ BlocksOf(d) = <<>> => r = <<>>
    BY <1>2, <1>3
  <2> QED BY <1>2, <1>3, <1>4, <1>5, <2>1, Lift
<1>8. Assembly(scopes) <=> Assembly(c)
  <2>1. IsSequence(c) /\ IsSequence(scopes) /\ Matches(s, scopes)
    BY <1>2 DEF Over, Fit
  <2> QED BY <1>3, <1>6, <2>1, AssemblyIs
<1>9. Assembly(scopes2) <=> Assembly(d)
  <2>1. IsSequence(d) /\ IsSequence(scopes2) /\ Matches(s2, scopes2)
    BY <1>5, <1>7 DEF Over, Fit
  <2> QED BY <1>3, <1>7, <2>1, AssemblyIs
<1>10. AsmEnds(s2) <=> AsmEnds(g)
  BY <1>2, <1>4, OverEnds
<1> QED BY <1>3, <1>7, <1>8, <1>9, <1>10 DEF line, s2, scopes2

-----------------------------------------------------------------------------
(* The inductive invariant of the texts: the stack of the text and of each *)
(* of its starts is that of its scopes, since a line is read behind any of *)
(* them.                                                                   *)

NestMatches(t) == \A n \in 0..Len(t) : Fit(StackOf(Start(t, n)), Nest(Start(t, n)))

SourceInv ==
  /\ NestInv
  /\ nest = Nest(text)
  /\ NestMatches(text)
  /\ AsmLinesSkipped

(* All of a text                                                           *)
LEMMA WholeText ==
  ASSUME NEW t \in Texts
  PROVE  Len(t) \in 0..Len(t) /\ Start(t, Len(t)) = t
<1>1. Len(t) \in Nat
  BY DEF Texts
<1>2. Start(t, Len(t)) = t
  BY SMT DEF Start, Texts
<1> QED BY <1>1, <1>2

(* No text                                                                 *)
LEMMA NothingMatches == Fit(<<>>, <<>>) /\ NestMatches(<<>>)
<1>1. IsSequence(<<>>) /\ Len(<<>>) = 0 /\ 1..0 = {}
  BY EmptyIs
<1>2. Within(<<>>) = "none" /\ BlocksOf(<<>>) = <<>>
  BY Zenon DEF Within, BlocksOf
<1>3. Fits(<<>>, <<>>, "none")
  BY <1>1 DEF Fits
<1>4. Fit(<<>>, <<>>)
  BY <1>1, <1>2, <1>3 DEF Fit, Matches
<1>5. <<>> \in Texts
  BY EmptySeq DEF Texts
<1>6. ASSUME NEW n \in 0..Len(<<>>) PROVE Fit(StackOf(Start(<<>>, n)), Nest(Start(<<>>, n)))
  <2>1. Start(<<>>, n) = <<>>
    <3>1. n = Len(<<>>)
      BY <1>1
    <3> QED BY <1>5, <3>1, WholeText
  <2> QED BY <1>4, <2>1, NothingRead
<1> QED BY <1>4, <1>6, Zenon DEF NestMatches

(* The line that is checked is in assembly in both.                        *)
LEMMA InAssembly ==
  ASSUME NEW s, NEW scopes, Fit(s, scopes)
  PROVE  /\ (s # <<>> /\ Last(s).inline_asm # "no") <=> (Within(scopes) = "asm" \/ AsmEnds(s))
         /\ Innermost(scopes) = "asm" <=> Within(scopes) = "asm"
         /\ Within(scopes) = "params" => Innermost(scopes) = "params"
<1> DEFINE blocks == BlocksOf(scopes)
           within == Within(scopes)
<1>1. /\ IsSequence(s) /\ IsSequence(scopes) /\ Fits(s, blocks, within)
      /\ within # "none" => Last(scopes).braced = TRUE
  BY Zenon DEF Fit, Matches
<1>2. /\ IsSequence(blocks)
      /\ within # "none" => scopes # <<>> /\ Last(scopes).kind = within
  BY <1>1, ScopesAre
<1>3. within # "none" => Innermost(scopes) = within
  BY <1>1, <1>2, Zenon DEF Innermost
<1>4. Innermost(scopes) = "asm" => within = "asm"
  <2>1. CASE scopes = <<>>
    <3>1. Innermost(scopes) = "file"
      BY <2>1, Zenon DEF Innermost
    <3> QED BY <3>1
  <2>2. CASE scopes # <<>> /\ ~Last(scopes).braced
    <3>1. Innermost(scopes) = "head"
      BY <2>2, Zenon DEF Innermost
    <3> QED BY <3>1
  <2>3. CASE scopes # <<>> /\ Last(scopes).braced
    <3>1. Innermost(scopes) = Last(scopes).kind
      BY <2>3, Zenon DEF Innermost
    <3>2. "asm" \in Hidden
      BY DEF Hidden
    <3> QED BY <2>3, <3>1, <3>2, Zenon DEF Within
  <2> QED BY <2>1, <2>2, <2>3
<1> HIDE DEF blocks, within
<1>5. Len(s) \in Nat /\ Len(blocks) \in Nat
  BY <1>1, <1>2, EmptyIs
<1>6. (s # <<>> /\ Last(s).inline_asm # "no") <=> (within = "asm" \/ AsmEnds(s))
  <2>1. CASE s = <<>>
    <3>1. Len(blocks) = 0
      <4>1. Len(s) = 0
        BY <1>1, <2>1, EmptyIs
      <4> QED BY <1>1, <1>5, <4>1 DEF Fits
    <3>2. within # "asm"
      BY <1>1, <3>1 DEF Fits
    <3> QED BY <2>1, <3>2 DEF AsmEnds
  <2>2. CASE s # <<>> /\ Len(s) = Len(blocks)
    <3>1. Len(s) \in 1..Len(blocks) /\ Last(s) = s[Len(s)]
      BY <1>1, <2>2, FrontIs
    <3>2. Covers(s[Len(s)], blocks[Len(s)], Len(s) = Len(blocks), within)
      BY <1>1, <3>1, Zenon DEF Fits
    <3>3. Last(s).inline_asm \in IF within = "asm" THEN {"inside"} ELSE {"no", "end"}
      BY <2>2, <3>1, <3>2 DEF Covers
    <3> QED BY <2>2, <3>3 DEF AsmEnds
  <2>3. CASE s # <<>> /\ within = "params" /\ Len(blocks) = 0 /\ Len(s) = 1 /\ IsHead(s[1])
    <3>1. Last(s) = s[1]
      BY <2>3 DEF Last
    <3>2. Last(s).inline_asm = "no"
      BY <2>3, <3>1 DEF IsHead
    <3> QED BY <2>3, <3>2 DEF AsmEnds
  <2> QED BY <1>1, <2>1, <2>2, <2>3 DEF Fits
<1>7. within = "asm" => Innermost(scopes) = "asm"
  BY <1>3
<1>8. within = "params" => Innermost(scopes) = "params"
  BY <1>3
<1> QED BY <1>4, <1>6, <1>7, <1>8 DEF within

(* One more line of a text                                                 *)
LEMMA LineKeepsNest ==
  ASSUME NestInv, nest = Nest(text), NestMatches(text), NEW x \in DOMAIN Source,
         Innermost(nest) \in Source[x].where
  PROVE  LET t == Append(text, x)
         IN /\ NestMatches(t)
            /\ Source[x].pp = "none" =>
                 /\ Nest(t) = DoLine(nest, Source[x], Len(t))
                 /\ AsmEnds(StackOf(t)) <=> Assembly(nest) /\ ~Assembly(Nest(t))
<1> DEFINE t == Append(text, x)
           s == [stack |-> stack, pp_stack |-> pp_stack]
<1>1. text \in Texts /\ stack = StackOf(text) /\ HasCheckpoints(text, pp_stack)
  BY DEF NestInv
<1>2. s.pp_stack = pp_stack /\ s = [stack |-> StackOf(text), pp_stack |-> s.pp_stack]
  BY <1>1
<1> HIDE DEF s
<1>3. PICK a : IsBehind(t, a) /\ (Source[x].pp \notin {"if", "else", "endif"} => a = Len(text))
  BY <1>1, <1>2, UpdatePreprocessorIsRight
<1>4. /\ t \in Texts /\ Len(text) \in Nat /\ Len(t) = Len(text) + 1 /\ t[Len(text) + 1] = x /\ t # <<>>
      /\ \A n \in 0..Len(text) : Start(t, n) = Start(text, n)
  BY <1>1, MoreText
<1> HIDE DEF t
<1>5. /\ StackOf(t) = ReadLine(StackOf(Start(t, a)), Source[x], Len(t)).stack
      /\ Nest(t) = DoLine(Nest(Start(t, a)), Source[x], Len(t))
  <2>1. t[Len(t)] = x
    BY <1>4
  <2> QED BY <1>3, <1>4, <2>1, ReadLast
<1>6. a \in 0..Len(text) /\ Start(t, a) = Start(text, a)
  BY <1>3, <1>4 DEF IsBehind
<1>7. Fit(StackOf(Start(t, a)), Nest(Start(t, a)))
  BY <1>6, Zenon DEF NestMatches
<1>8. Source[x].pp = "none" => Nest(Start(t, a)) = nest
  BY <1>1, <1>3, <1>6, WholeText
<1>9. Innermost(Nest(Start(t, a))) \in Source[x].where \/ Source[x].pp # "none"
  BY <1>8
<1>10. /\ Fit(StackOf(t), Nest(t))
       /\ AsmEnds(StackOf(t)) <=> Assembly(Nest(Start(t, a))) /\ ~Assembly(Nest(t))
  BY <1>5, <1>7, <1>9, LineKeepsMatch
<1>11. NestMatches(t)
  <2>1. ASSUME NEW n \in 0..Len(t) PROVE Fit(StackOf(Start(t, n)), Nest(Start(t, n)))
    <3>1. CASE n = Len(t)
      BY <1>4, <1>10, <3>1, WholeText
    <3>2. CASE n # Len(t)
      <4>1. n \in 0..Len(text) /\ Start(t, n) = Start(text, n)
        BY <1>4, <3>2
      <4> QED BY <4>1, Zenon DEF NestMatches
    <3> QED BY <3>1, <3>2
  <2> QED BY <2>1, Zenon DEF NestMatches
<1> QED BY <1>5, <1>8, <1>10, <1>11 DEF t

(* The scopes, the line and what is in front of it                         *)
LEMMA WriteKeeps ==
  ASSUME SourceInv, WriteLine
  PROVE  SourceInv'
<1>1. PICK x \in NextLines : Innermost(nest) \in Source[x].where /\ Update(x)
  BY Zenon DEF WriteLine
<1>2. x \in DOMAIN Source
  BY AlphabetsAssumption DEF NextLines
<1>3. /\ before' = nest /\ nest' = NestOfNext(text')
      /\ text' = Append(text, x)
  BY <1>1, Zenon DEF WriteLine, Update
<1>4. NestInv /\ nest = Nest(text) /\ NestMatches(text)
  BY DEF SourceInv
<1>5. NestInv'
  BY <1>1, <1>2, <1>4, UpdateKeepsNest
<1> DEFINE t == Append(text, x)
<1>6. /\ NestMatches(t)
      /\ Source[x].pp = "none" =>
           /\ Nest(t) = DoLine(nest, Source[x], Len(t))
           /\ AsmEnds(StackOf(t)) <=> Assembly(nest) /\ ~Assembly(Nest(t))
  BY <1>1, <1>2, <1>4, LineKeepsNest
<1>7. t \in Texts /\ Last(t) = x /\ t # <<>> /\ Len(t) \in 0..Len(t) /\ Start(t, Len(t)) = t
  <2>1. text \in Texts
    BY <1>4 DEF NestInv
  <2>2. /\ t \in Texts /\ Len(text) \in Nat /\ Len(t) = Len(text) + 1 /\ t[Len(text) + 1] = x /\ t # <<>>
    BY <1>2, <2>1, MoreText
  <2> HIDE DEF t
  <2>3. Last(t) = x
    BY <2>2 DEF Last
  <2> QED BY <2>2, <2>3, WholeText
<1>8. text' = t
  BY <1>3
<1> HIDE DEF t
<1>9. nest' = Nest(t)
  <2>1. nest' = IF Source[x].pp # "none" THEN Nest(t) ELSE DoLine(nest, Source[x], Len(t))
    BY <1>3, <1>7, <1>8, Zenon DEF NestOfNext
  <2> QED BY <1>6, <2>1
<1>10. stack' = StackOf(t)
  BY <1>5, <1>8, Zenon DEF NestInv
<1>11. Fit(stack', nest')
  BY <1>6, <1>7, <1>9, <1>10, Zenon DEF NestMatches
<1>12. AsmLinesSkipped'
  <2> SUFFICES ASSUME Source[x].pp = "none"
               PROVE  InAsmBlock' <=> Assembly(nest') \/ (Assembly(before') /\ Innermost(nest') # "asm")
    BY <1>7, <1>8, Zenon DEF AsmLinesSkipped
  <2>1. InAsmBlock' <=> Within(nest') = "asm" \/ AsmEnds(stack')
    BY <1>11, InAssembly, Zenon DEF InAsmBlock
  <2>2. Innermost(nest') = "asm" <=> Within(nest') = "asm"
    BY <1>11, InAssembly
  <2>3. Assembly(nest') <=> Within(nest') = "asm"
    BY <1>11, AssemblyIs, Zenon DEF Fit
  <2>4. AsmEnds(stack') <=> Assembly(before') /\ ~Assembly(nest')
    BY <1>3, <1>6, <1>9, <1>10
  <2> QED BY <2>1, <2>2, <2>3, <2>4, Zenon
<1>13. NestMatches(text)' /\ (nest = Nest(text))'
  BY <1>6, <1>8, <1>9
<1> QED BY <1>5, <1>12, <1>13, Zenon DEF SourceInv

(* The invariant, from the start of a text to its end                      *)
LEMMA SourceInvHolds == SourceSpec => []SourceInv
<1>1. SourceInit => SourceInv
  <2> SUFFICES ASSUME SourceInit PROVE SourceInv
    OBVIOUS
  <2>1. Init /\ nest = <<>> /\ text = <<>>
    BY DEF SourceInit, Init
  <2>2. AsmLinesSkipped
    BY <2>1, Zenon DEF AsmLinesSkipped
  <2> QED BY <2>1, <2>2, InitNest, NothingRead, NothingMatches, Zenon DEF SourceInv
<1>2. SourceInv /\ [SourceNext]_<<vars, nest, before, item>> => SourceInv'
  <2> SUFFICES ASSUME SourceInv, [SourceNext]_<<vars, nest, before, item>> PROVE SourceInv'
    OBVIOUS
  <2>1. CASE WriteLine
    BY <2>1, WriteKeeps
  <2>2. CASE EndOfText
    <3>1. CheckCompletedBlocks /\ UNCHANGED <<nest, before>>
      BY <2>2 DEF EndOfText
    <3>2. UNCHANGED <<text, stack, pp_stack>> /\ reports' = {b.starting_linenum : b \in Unfinished(stack)}
      BY <3>1 DEF CheckCompletedBlocks
    <3>3. NestInv'
      BY <3>1, Zenon DEF CheckCompletedBlocks, NestInv, SourceInv
    <3>4. AsmLinesSkipped'
      BY <3>1, <3>2, Zenon DEF SourceInv, AsmLinesSkipped, InAsmBlock
    <3> QED BY <3>1, <3>2, <3>3, <3>4, Zenon DEF SourceInv
  <2>3. CASE UNCHANGED <<vars, nest, before>>
    <3>1. UNCHANGED <<text, stack, pp_stack, completed, reports, nest, before>>
      BY <2>3 DEF vars
    <3>2. NestInv'
      BY <3>1, Zenon DEF NestInv, SourceInv
    <3>3. AsmLinesSkipped'
      BY <3>1, Zenon DEF SourceInv, AsmLinesSkipped, InAsmBlock
    <3> QED BY <3>1, <3>2, <3>3, Zenon DEF SourceInv
  <2>4. WriteDeclaration => UNCHANGED <<vars, nest, before>>
    BY Zenon DEF WriteDeclaration
  <2>5. UNCHANGED <<vars, nest, before, item>> => UNCHANGED <<vars, nest, before>>
    OBVIOUS
  <2> QED BY <2>1, <2>2, <2>3, <2>4, <2>5, Zenon DEF SourceNext
<1> QED BY <1>1, <1>2, PTL DEF SourceSpec

(* The classes and namespaces of a stack are those of its scopes.          *)
LEMMA SameUnfinished ==
  ASSUME NEW s, NEW scopes, Fit(s, scopes), Len(s) = Len(BlocksOf(scopes))
  PROVE  {b.starting_linenum : b \in Unfinished(s)} =
           {scope.line : scope \in {x \in ToSet(scopes) : IsClass(x) \/ x.kind = "namespace"}}
<1> DEFINE blocks == BlocksOf(scopes)
           IsOne(x) == IsClass(x) \/ x.kind = "namespace"
<1>1. IsSequence(s) /\ IsSequence(scopes) /\ \A i \in 1..Len(blocks) : IsBlock(s[i], blocks[i])
  BY Zenon DEF Fit, Matches, Fits, Covers
<1>2. /\ IsSequence(blocks)
      /\ Within(scopes) = "none" => scopes = blocks
      /\ Within(scopes) # "none" =>
           /\ scopes # <<>> /\ Within(scopes) \in Hidden /\ Last(scopes).kind = Within(scopes)
           /\ scopes = Append(blocks, Last(scopes))
  BY <1>1, ScopesAre
<1>3. ToSet(s) = {s[i] : i \in 1..Len(s)} /\ ToSet(scopes) = {scopes[i] : i \in 1..Len(scopes)}
  <2>1. DOMAIN s = 1..Len(s) /\ DOMAIN scopes = 1..Len(scopes)
    <3>1. s \in Seq(Elements(s)) /\ scopes \in Seq(Elements(scopes))
      BY <1>1 DEF IsSequence
    <3> QED BY <3>1
  <2> QED BY <2>1, Zenon DEF ToSet
<1>4. Len(s) = Len(blocks)
  OBVIOUS
<1> HIDE DEF blocks
<1>5. /\ \A i \in 1..Len(blocks) : i \in 1..Len(scopes) /\ scopes[i] = blocks[i]
      /\ \A i \in 1..Len(scopes) : i \in 1..Len(blocks) \/ scopes[i].kind \in Hidden
  <2>1. CASE Within(scopes) = "none"
    BY <1>2, <2>1
  <2>2. CASE Within(scopes) # "none"
    <3> DEFINE top == Last(scopes)
    <3>1. top.kind \in Hidden /\ scopes = Append(blocks, top)
      BY <1>2, <2>2
    <3> HIDE DEF top
    <3>2. /\ Len(blocks) \in Nat /\ Len(scopes) = Len(blocks) + 1 /\ scopes[Len(blocks) + 1] = top
          /\ \A i \in 1..Len(blocks) : scopes[i] = blocks[i]
      BY <1>2, <3>1, AppendIs, EmptyIs
    <3>3. (\A i \in 1..Len(blocks) : i \in 1..Len(scopes)) /\
          \A i \in 1..Len(scopes) : i \in 1..Len(blocks) \/ i = Len(blocks) + 1
      BY <3>2
    <3> QED BY <3>1, <3>2, <3>3, Zenon
  <2> QED BY <2>1, <2>2
<1>6. \A x : IsOne(x) => x.kind \notin Hidden
  BY DEF IsClass, Hidden
<1>7. \A b, x : IsBlock(b, x) => b.starting_linenum = x.line /\ (IsOne(b) <=> IsOne(x))
  BY Zenon DEF IsBlock, IsClass
<1>8. Unfinished(s) = {b \in ToSet(s) : IsOne(b)}
  BY Zenon DEF Unfinished
<1> HIDE DEF IsOne
<1>9. ASSUME NEW b \in Unfinished(s)
      PROVE  \E x \in {y \in ToSet(scopes) : IsOne(y)} : b.starting_linenum = x.line
  <2>1. PICK i \in 1..Len(s) : b = s[i] /\ IsOne(b)
    BY <1>3, <1>8
  <2>2. IsBlock(b, blocks[i]) /\ blocks[i] \in ToSet(scopes)
    BY <1>1, <1>3, <1>4, <1>5, <2>1
  <2> QED BY <1>7, <2>1, <2>2
<1>10. ASSUME NEW x \in {y \in ToSet(scopes) : IsOne(y)}
       PROVE  \E b \in Unfinished(s) : b.starting_linenum = x.line
  <2>1. PICK i \in 1..Len(scopes) : x = scopes[i] /\ IsOne(x)
    BY <1>3
  <2>2. i \in 1..Len(blocks) /\ x = blocks[i]
    BY <1>5, <1>6, <2>1
  <2>3. IsBlock(s[i], x) /\ s[i] \in ToSet(s)
    BY <1>1, <1>3, <1>4, <2>2
  <2>4. IsOne(s[i]) /\ s[i].starting_linenum = x.line
    BY <1>7, <2>1, <2>3
  <2> QED BY <1>8, <2>3, <2>4
<1>11. {b.starting_linenum : b \in Unfinished(s)} = {x.line : x \in {y \in ToSet(scopes) : IsOne(y)}}
  BY <1>9, <1>10
<1> QED BY <1>11 DEF IsOne

(* The stack of the linter is the nesting of the text (Update), in every   *)
(* text of any length of lines that mean, in the smallest texts they can   *)
(* stand in, what they show; and the end of the file reports the classes   *)
(* and namespaces it leaves open (CheckCompletedBlocks).                   *)
THEOREM NestingIsTracked == SourceSpec => []Tracks
<1>1. SourceInv => Tracks
  <2> SUFFICES ASSUME SourceInv, ~InParams PROVE Tracks
    BY DEF Tracks
  <2>1. text \in Texts /\ stack = StackOf(text)
        /\ (completed => reports = {b.starting_linenum : b \in Unfinished(stack)})
    BY Zenon DEF SourceInv, NestInv
  <2>2. Fit(stack, nest)
    <3>1. Len(text) \in 0..Len(text) /\ Start(text, Len(text)) = text
      BY <2>1, WholeText
    <3> QED BY <2>1, <3>1, Zenon DEF SourceInv, NestMatches
  <2>3. Within(nest) # "params"
    BY <2>2, InAssembly DEF InParams
  <2>4. Len(stack) = Len(BlocksOf(nest)) /\ \A i \in 1..Len(BlocksOf(nest)) : IsBlock(stack[i], BlocksOf(nest)[i])
    BY <2>2, <2>3, Zenon DEF Fit, Matches, Fits, Covers
  <2>5. completed =>
          reports = {scope.line : scope \in {x \in ToSet(nest) : IsClass(x) \/ x.kind = "namespace"}}
    BY <2>1, <2>2, <2>4, SameUnfinished, Zenon
  <2> QED BY <2>4, <2>5, Zenon DEF Tracks
<1> QED BY <1>1, SourceInvHolds, PTL

(* The checks of a line are skipped as assembly exactly from the line that *)
(* opens an asm statement to the one that ends it, in every such text      *)
(* (Update, InAsmBlock).                                                   *)
THEOREM AsmLinesAreSkipped == SourceSpec => []AsmLinesSkipped
<1>1. SourceInv => AsmLinesSkipped
  BY DEF SourceInv
<1> QED BY <1>1, SourceInvHolds, PTL

-----------------------------------------------------------------------------
(* The layout *)

(* From a line to itself there is none.                                    *)
LEMMA NoDistance ==
  ASSUME NEW lines, NEW n \in Nat
  PROVE  Distance(lines, n, n) = 0
<1> DEFINE S == n..(n - 1)
           IsSum(f) == f = [s \in SUBSET S |->
                              IF s = {} THEN 0
                              ELSE LET x == CHOOSE x \in s : TRUE
                                   IN Source[lines[x]].times + f[s \ {x}]]
           sum == CHOOSE f : IsSum(f)
<1>1. Distance(lines, n, n) = sum[S]
  BY Zenon DEF Distance, MapThenSumSet, MapThenFoldSet
<1>2. S = {}
  OBVIOUS
<1> HIDE DEF S
<1>3. IsSum([s \in SUBSET S |-> 0])
  BY <1>2
<1>4. IsSum(sum)
  <2> HIDE DEF IsSum
  <2> QED BY <1>3
<1> HIDE DEF sum
<1>5. sum[{}] = 0
  BY <1>2, <1>4
<1> QED BY <1>1, <1>2, <1>5
-----------------------------------------------------------------------------
(* What is known of the blocks on the stack *)

(* A block starts on one of the first n lines, and a class is indented as  *)
(* the line it starts on.                                                  *)
KnownBlock(b, t, n) ==
  /\ IsRecord(b)
  /\ b.starting_linenum \in 1..n
  /\ IsClass(b) => b.class_indent = Source[t[b.starting_linenum]].indent
Known(s, t, n) == IsSequence(s) /\ \A i \in 1..Len(s) : KnownBlock(s[i], t, n)

(* The top of a stack, and what is below it                                *)
LEMMA KnownTop ==
  ASSUME NEW t, NEW n, NEW s, Known(s, t, n), s # <<>>
  PROVE  KnownBlock(Last(s), t, n) /\ Known(Front(s), t, n)
<1>1. /\ IsSequence(s) /\ IsSequence(Front(s)) /\ Len(s) \in Nat \ {0} /\ Len(s) \in 1..Len(s)
      /\ Len(Front(s)) = Len(s) - 1 /\ Last(s) = s[Len(s)]
      /\ \A i \in 1..(Len(s) - 1) : Front(s)[i] = s[i]
  BY FrontIs DEF Known
<1>2. \A i \in 1..(Len(s) - 1) : i \in 1..Len(s)
  BY <1>1
<1>3. \A i \in 1..Len(Front(s)) : KnownBlock(Front(s)[i], t, n)
  BY <1>1, <1>2, Zenon DEF Known
<1> QED BY <1>1, <1>3, Zenon DEF Known

(* One more block                                                          *)
LEMMA KnownAppend ==
  ASSUME NEW t, NEW n, NEW s, Known(s, t, n), NEW b, KnownBlock(b, t, n)
  PROVE  Known(Append(s, b), t, n)
<1> DEFINE p == Append(s, b)
<1>1. /\ IsSequence(p) /\ Len(p) = Len(s) + 1 /\ p[Len(s) + 1] = b /\ Len(s) \in Nat
      /\ \A i \in 1..Len(s) : p[i] = s[i]
  BY AppendIs, EmptyIs DEF Known
<1> HIDE DEF p
<1>2. \A i \in 1..Len(p) : i = Len(s) + 1 \/ i \in 1..Len(s)
  BY <1>1
<1>3. \A i \in 1..Len(p) : KnownBlock(p[i], t, n)
  BY <1>1, <1>2, Zenon DEF Known
<1> QED BY <1>1, <1>3, Zenon DEF Known, p

(* Another top                                                             *)
LEMMA KnownChange ==
  ASSUME NEW t, NEW n, NEW s, Known(s, t, n), s # <<>>, NEW b, KnownBlock(b, t, n)
  PROVE  Known(ChangeTop(s, b), t, n)
<1>1. ChangeTop(s, b) = Append(Front(s), b)
  BY DEF ChangeTop
<1>2. Known(Front(s), t, n)
  BY KnownTop
<1> QED BY <1>1, <1>2, KnownAppend

(* A block that is changed is as known as it was.                          *)
LEMMA KnownChanged ==
  ASSUME NEW t, NEW n, NEW b, KnownBlock(b, t, n), NEW v
  PROVE  /\ KnownBlock([b EXCEPT !.seen_open_brace = v], t, n)
         /\ KnownBlock([b EXCEPT !.open_parentheses = v], t, n)
         /\ KnownBlock([b EXCEPT !.inline_asm = v], t, n)
         /\ KnownBlock([b EXCEPT !.access = v], t, n)
<1>1. IsRecord(b)
  BY DEF KnownBlock
<1>2. ASSUME NEW braced, NEW depth, NEW asm, NEW access
      PROVE  KnownBlock(ABlock(b.kind, braced, b.starting_linenum, depth, asm, b.class_indent, access), t, n)
  <2> DEFINE c == ABlock(b.kind, braced, b.starting_linenum, depth, asm, b.class_indent, access)
  <2>1. IsRecord(c) /\ c.kind = b.kind /\ c.starting_linenum = b.starting_linenum /\ c.class_indent = b.class_indent
    BY BlockFields
  <2> HIDE DEF c
  <2>2. KnownBlock(c, t, n)
    BY <2>1, Zenon DEF KnownBlock, IsClass
  <2> QED BY <2>2 DEF c
<1>3. KnownBlock([b EXCEPT !.seen_open_brace = v], t, n)
  <2> DEFINE c == [b EXCEPT !.seen_open_brace = v]
  <2>1. c = ABlock(b.kind, v, b.starting_linenum, b.open_parentheses, b.inline_asm, b.class_indent, b.access)
    BY <1>1, ChangedBlock
  <2> HIDE DEF c
  <2>2. KnownBlock(c, t, n)
    BY <1>2, <2>1, Zenon
  <2> QED BY <2>2 DEF c
<1>4. KnownBlock([b EXCEPT !.open_parentheses = v], t, n)
  <2> DEFINE c == [b EXCEPT !.open_parentheses = v]
  <2>1. c = ABlock(b.kind, b.seen_open_brace, b.starting_linenum, v, b.inline_asm, b.class_indent, b.access)
    BY <1>1, ChangedBlock
  <2> HIDE DEF c
  <2>2. KnownBlock(c, t, n)
    BY <1>2, <2>1, Zenon
  <2> QED BY <2>2 DEF c
<1>5. KnownBlock([b EXCEPT !.inline_asm = v], t, n)
  <2> DEFINE c == [b EXCEPT !.inline_asm = v]
  <2>1. c = ABlock(b.kind, b.seen_open_brace, b.starting_linenum, b.open_parentheses, v, b.class_indent, b.access)
    BY <1>1, ChangedBlock
  <2> HIDE DEF c
  <2>2. KnownBlock(c, t, n)
    BY <1>2, <2>1, Zenon
  <2> QED BY <2>2 DEF c
<1>6. KnownBlock([b EXCEPT !.access = v], t, n)
  <2> DEFINE c == [b EXCEPT !.access = v]
  <2>1. c = ABlock(b.kind, b.seen_open_brace, b.starting_linenum, b.open_parentheses, b.inline_asm, b.class_indent, v)
    BY <1>1, ChangedBlock
  <2> HIDE DEF c
  <2>2. KnownBlock(c, t, n)
    BY <1>2, <2>1, Zenon
  <2> QED BY <2>2 DEF c
<1> QED BY <1>3, <1>4, <1>5, <1>6

(* A new block of this line                                                *)
LEMMA KnownNew ==
  ASSUME NEW t, NEW n \in Nat \ {0}, NEW kind, NEW braced
  PROVE  /\ kind \notin {"class", "struct"} => KnownBlock(BlockInfo(kind, braced, n), t, n)
         /\ KnownBlock([BlockInfo(kind, braced, n) EXCEPT !.class_indent = Source[t[n]].indent], t, n)
<1> DEFINE access == CASE kind = "class"  -> "private" [] kind = "struct" -> "public" [] OTHER -> "none"
           b == BlockInfo(kind, braced, n)
           indent == Source[t[n]].indent
           c == [b EXCEPT !.class_indent = indent]
<1>1. n \in 1..n
  OBVIOUS
<1>2. b = ABlock(kind, braced, n, 0, "no", 0, access)
  BY Zenon DEF BlockInfo, ABlock
<1> HIDE DEF access, b, indent
<1>3. /\ IsRecord(b) /\ b.kind = kind /\ b.seen_open_brace = braced /\ b.starting_linenum = n
      /\ b.open_parentheses = 0 /\ b.inline_asm = "no" /\ b.access = access
  BY <1>2, BlockFields
<1>4. c = ABlock(kind, braced, n, 0, "no", indent, access)
  <2>1. c = ABlock(b.kind, b.seen_open_brace, b.starting_linenum, b.open_parentheses, b.inline_asm, indent, b.access)
    BY <1>3, ChangedBlock
  <2> HIDE DEF c
  <2> QED BY <1>3, <2>1, Zenon
<1> HIDE DEF c
<1>5. IsRecord(c) /\ c.starting_linenum = n /\ c.class_indent = indent
  BY <1>4, BlockFields
<1>6. kind \notin {"class", "struct"} => KnownBlock(b, t, n)
  BY <1>1, <1>3 DEF KnownBlock, IsClass
<1>7. KnownBlock(c, t, n)
  BY <1>1, <1>5, Zenon DEF KnownBlock, indent
<1> QED BY <1>6, <1>7 DEF c, b, indent

(* The steps of Update in front of the tokens                              *)
LEMMA KnownDeclarations ==
  ASSUME NEW t, NEW n \in Nat \ {0}, NEW s, Known(s, t, n), NEW line, line = Source[t[n]], line.ns \in Seq(BOOLEAN)
  PROVE  Known(Declarations(CountParentheses(s, line), line, n), t, n)
<1> DEFINE s1 == CountParentheses(s, line)
           s2 == Namespaces(s1, line, n)
           s3 == ClassDeclaration(s2, line, n)
           s4 == AccessLabel(s3, line)
<1>1. Known(s1, t, n)
  <2>1. CASE s = <<>>
    <3>1. s1 = s
      BY <2>1, Zenon DEF CountParentheses
    <3> QED BY <3>1
  <2>2. CASE s # <<>>
    <3> DEFINE b == Last(s)
               c == [b EXCEPT !.open_parentheses = @ + line.parens]
               d == [c EXCEPT !.inline_asm = AsmState(@, line, c.open_parentheses)]
    <3>1. s1 = ChangeTop(s, d)
      BY <2>2, Zenon DEF CountParentheses
    <3>2. KnownBlock(b, t, n)
      BY <2>2, KnownTop
    <3> HIDE DEF b
    <3>3. KnownBlock(c, t, n)
      BY <3>2, KnownChanged
    <3> HIDE DEF c
    <3>4. KnownBlock(d, t, n)
      BY <3>3, KnownChanged
    <3> HIDE DEF d, s1
    <3> QED BY <2>2, <3>1, <3>4, KnownChange
  <2> QED BY <2>1, <2>2
<1> HIDE DEF s1
<1>2. Known(s2, t, n)
  <2> DEFINE L == Len(line.ns)
             p == [i \in 1..L |-> BlockInfo("namespace", line.ns[i], n)]
  <2>1. L \in Nat /\ s2 = s1 \o p
    BY Zenon, LenProperties DEF Namespaces
  <2> HIDE DEF L
  <2>2. p = [i \in 1..L |-> p[i]] /\ \A i \in 1..L : KnownBlock(p[i], t, n)
    <3>1. \A braced : KnownBlock(BlockInfo("namespace", braced, n), t, n)
      BY KnownNew
    <3> QED BY <3>1, Zenon
  <2> HIDE DEF p
  <2>3. IsSequence(p) /\ Len(p) = L
    BY <2>1, <2>2, TupleIs
  <2>4. IsSequence(s1) /\ Len(s1) \in Nat
    BY <1>1, EmptyIs DEF Known
  <2> DEFINE u == s1 \o p
  <2>5. IsSequence(u) /\ Len(u) = Len(s1) + Len(p)
    BY <2>3, <2>4, ConcatIs
  <2>6. \A i \in 1..Len(s1) : u[i] = s1[i]
    BY <2>3, <2>4, ConcatIs
  <2>7. \A i \in 1..Len(p) : u[Len(s1) + i] = p[i]
    BY <2>3, <2>4, ConcatIs
  <2> HIDE DEF u
  <2>8. ASSUME NEW i \in 1..Len(u) PROVE KnownBlock(u[i], t, n)
    <3>1. CASE i \in 1..Len(s1)
      BY <1>1, <2>6, <3>1, Zenon DEF Known
    <3>2. CASE i \notin 1..Len(s1)
      <4>1. i - Len(s1) \in 1..Len(p) /\ i - Len(s1) \in 1..L /\ Len(s1) + (i - Len(s1)) = i
        BY <2>1, <2>3, <2>4, <2>5, <3>2
      <4>2. u[i] = p[i - Len(s1)]
        BY <2>7, <4>1
      <4> QED BY <2>2, <4>1, <4>2, Zenon
    <3> QED BY <3>1, <3>2
  <2>9. Known(u, t, n)
    BY <2>5, <2>8, Zenon DEF Known
  <2> QED BY <2>1, <2>9 DEF u
<1> HIDE DEF s2
<1>3. Known(s3, t, n)
  <2> DEFINE b == [BlockInfo(line.cls, FALSE, n) EXCEPT !.class_indent = line.indent]
  <2>1. s3 = s2 \/ s3 = Append(s2, b)
    BY Zenon DEF ClassDeclaration
  <2>2. KnownBlock(b, t, n)
    BY KnownNew
  <2> HIDE DEF b, s3
  <2> QED BY <1>2, <2>1, <2>2, KnownAppend
<1> HIDE DEF s3
<1>4. Known(s4, t, n)
  <2> DEFINE b == [Last(s3) EXCEPT !.access = line.access]
  <2>1. s4 = s3 \/ (s3 # <<>> /\ s4 = ChangeTop(s3, b))
    BY Zenon DEF AccessLabel
  <2>2. s3 # <<>> => KnownBlock(b, t, n)
    BY <1>3, KnownTop, KnownChanged
  <2> HIDE DEF b, s4
  <2> QED BY <1>3, <2>1, <2>2, KnownChange
<1>5. Declarations(s1, line, n) = s4
  BY Zenon DEF Declarations, s2, s3
<1> QED BY <1>4, <1>5 DEF s1

(* A token                                                                 *)
LEMMA KnownToken ==
  ASSUME NEW t, NEW n \in Nat \ {0}, NEW s, Known(s, t, n), NEW token
  PROVE  Known(Token(s, token, n), t, n)
<1> DEFINE kind == IF token = "extern {" THEN "extern" ELSE "block"
           asm == IF token = "asm {" THEN "block" ELSE "no"
           b == [BlockInfo(kind, TRUE, n) EXCEPT !.inline_asm = asm]
           braced == [Last(s) EXCEPT !.seen_open_brace = TRUE]
<1>1. OpenBrace(s, token, n) = IF ~SeenOpenBrace(s) THEN ChangeTop(s, braced) ELSE Append(s, b)
  BY Zenon DEF OpenBrace
<1>2. kind \notin {"class", "struct"}
  OBVIOUS
<1> HIDE DEF kind, asm
<1>3. KnownBlock(b, t, n)
  <2>1. KnownBlock(BlockInfo(kind, TRUE, n), t, n)
    BY <1>2, KnownNew
  <2> QED BY <2>1, KnownChanged
<1>4. ~SeenOpenBrace(s) => s # <<>>
  BY DEF SeenOpenBrace
<1>5. s # <<>> => KnownBlock(braced, t, n) /\ Known(Front(s), t, n)
  BY KnownTop, KnownChanged
<1> HIDE DEF b, braced
<1>6. Known(OpenBrace(s, token, n), t, n)
  BY <1>1, <1>3, <1>4, <1>5, KnownAppend, KnownChange
<1>7. Known(CloseBrace(s), t, n) /\ Known(DropHead(s), t, n)
  BY <1>4, <1>5, Zenon DEF CloseBrace, DropHead
<1> QED BY <1>6, <1>7, Zenon DEF Token

(* A line keeps the blocks known, those that end on it too.                *)
LEMMA KnownLine ==
  ASSUME NEW t, NEW n \in Nat \ {0}, NEW s, Known(s, t, n), NEW line, line = Source[t[n]],
         line.ns \in Seq(BOOLEAN), Len(line.tokens) \in Nat
  PROVE  /\ Known(ReadLine(s, line, n).stack, t, n)
         /\ \A b \in ReadLine(s, line, n).ended : KnownBlock(b, t, n)
<1> DEFINE K == Len(line.tokens)
           s2 == Declarations(CountParentheses(s, line), line, n)
           after == Reading(s2, line, n)
           T == {k \in 0..K : Known(after[k], t, n)}
           ends == {k \in 1..K : line.tokens[k] = "}" /\ after[k - 1] # <<>>}
<1>1. ReadLine(s, line, n).stack = after[K] /\ ReadLine(s, line, n).ended = {Last(after[k - 1]) : k \in ends}
  BY Zenon DEF ReadLine, Tokens
<1>2. Known(s2, t, n)
  BY KnownDeclarations
<1> HIDE DEF s2
<1>3. ReadTokens(after, s2, line, n, K) /\ K \in Nat
  BY ReadingIs
<1> HIDE DEF K, after
<1>4. 0 \in T
  <2>1. after[0] = s2 /\ 0 \in 0..K
    BY <1>3 DEF ReadTokens
  <2> QED BY <1>2, <2>1, Zenon
<1>5. ASSUME NEW k \in 0..(K - 1), k \in T PROVE k + 1 \in T
  <2> HIDE DEF T
  <2>1. k + 1 \in 1..K /\ (k + 1) - 1 = k /\ k + 1 \in 0..K
    BY <1>3
  <2>2. after[k + 1] = Token(after[(k + 1) - 1], line.tokens[k + 1], n)
    BY <1>3, <2>1, Zenon DEF ReadTokens
  <2>3. Known(after[k], t, n)
    BY <1>5, Zenon DEF T
  <2>4. Known(Token(after[k], line.tokens[k + 1], n), t, n)
    BY <2>3, KnownToken
  <2> QED BY <2>1, <2>2, <2>4, Zenon DEF T
<1>6. K \in 0..K /\ \A k \in 1..K : k - 1 \in 0..K
  BY <1>3
<1> HIDE DEF T
<1>7. \A k \in 0..K : k \in T
  BY <1>3, <1>4, <1>5, Upwards
<1>8. \A k \in 0..K : Known(after[k], t, n)
  BY <1>7, Zenon DEF T
<1>9. ASSUME NEW b \in {Last(after[k - 1]) : k \in ends} PROVE KnownBlock(b, t, n)
  <2>1. PICK k \in 1..K : after[k - 1] # <<>> /\ b = Last(after[k - 1])
    BY <1>9
  <2>2. Known(after[k - 1], t, n)
    BY <1>6, <1>8, <2>1
  <2> QED BY <2>1, <2>2, KnownTop
<1> QED BY <1>1, <1>6, <1>8, <1>9, Zenon
-----------------------------------------------------------------------------
(* What the checks of the layout see in a small text they see in the whole *)
(* one.                                                                    *)

(* What a small text is made of: a block of it starts on line 1, and if    *)
(* its innermost scope is one it is the only one.                          *)
LEMMA InSmallText ==
  ASSUME NEW f, NEW c, [stack |-> f, nest |-> c] \in SmallTexts
  PROVE  /\ Matches(f, c)
         /\ f # <<>> => Len(f) = 1 /\ Last(f).starting_linenum = 1
         /\ c # <<>> => Last(c).line = 1
         /\ c # <<>> /\ Last(c).kind \in Kinds => Len(c) = 1 /\ Front(c) = <<>> /\ f # <<>>
<1> DEFINE t == [stack |-> f, nest |-> c]
<1>1. t.stack = f /\ t.nest = c /\ t \in SmallTexts
  BY Zenon
<1> HIDE DEF t
<1>2. Matches(f, c)
  BY <1>1, Zenon DEF SmallTexts
<1>3. f \in SmallStacks /\ c \in SmallNests
  <2>1. t \in [stack : SmallStacks, nest : SmallNests]
    BY <1>1, Zenon DEF SmallTexts
  <2> QED BY <1>1, <2>1
<1>4. f # <<>> => \E b : f = <<b>> /\ b.starting_linenum = 1
  <2>1. \A kind, braced, depth, asm, access : SmallBlock(kind, braced, depth, asm, access).starting_linenum = 1
    BY DEF SmallBlock
  <2>2. f # <<>> => \E kind, braced, depth, asm, access : f = <<SmallBlock(kind, braced, depth, asm, access)>>
    BY <1>3 DEF SmallStacks
  <2> QED BY <2>1, <2>2
<1>5. f # <<>> => Len(f) = 1 /\ Last(f).starting_linenum = 1
  BY <1>4 DEF Last
<1>6. \A kind, braced, access : SmallScope(kind, braced, access).line = 1 /\ SmallScope(kind, braced, access).kind = kind
  BY DEF SmallScope
<1>7. \/ c = <<>>
      \/ \E x : c = <<x>> /\ x.line = 1
      \/ \E x, y : c = <<x, y>> /\ y.line = 1 /\ y.kind \in Hidden
  <2> DEFINE scopes == {SmallScope(kind, braced, access) : kind \in Kinds, braced \in BOOLEAN, access \in Accesses}
             hidden == {SmallScope(kind, TRUE, "none") : kind \in Hidden}
  <2>1. (\A x \in scopes : x.line = 1) /\ \A y \in hidden : y.line = 1 /\ y.kind \in Hidden
    <3>1. ASSUME NEW x \in scopes PROVE x.line = 1
      BY <1>6, <3>1
    <3>2. ASSUME NEW y \in hidden PROVE y.line = 1 /\ y.kind \in Hidden
      <4>1. PICK kind \in Hidden : y = SmallScope(kind, TRUE, "none")
        BY <3>2, Zenon
      <4> QED BY <1>6, <4>1, Zenon
    <3> HIDE DEF scopes, hidden
    <3> QED BY <3>1, <3>2
  <2>2. SmallNests = {<<>>} \cup {<<scope>> : scope \in scopes \cup hidden}
                       \cup {<<scope, within>> : scope \in scopes, within \in hidden}
    BY DEF SmallNests
  <2> HIDE DEF scopes, hidden
  <2> QED BY <1>3, <2>1, <2>2
<1>8. c # <<>> => Last(c).line = 1
  BY <1>7 DEF Last
<1>9. ASSUME c # <<>>, Last(c).kind \in Kinds PROVE Len(c) = 1 /\ Front(c) = <<>> /\ f # <<>>
  <2>1. PICK x : c = <<x>>
    <3>1. ASSUME NEW x, NEW y, c = <<x, y>>, y.kind \in Hidden PROVE FALSE
      <4>1. Last(c) = y
        BY <3>1 DEF Last
      <4> QED BY <1>9, <3>1, <4>1, KindsApart
    <3> QED BY <1>7, <1>9, <3>1, Zenon
  <2>2. IsSequence(<<>>) /\ Append(<<>>, x) = <<x>> /\ Len(<<x>>) = 1
    BY EmptyIs
  <2>3. Front(c) = <<>> /\ IsSequence(c)
    <3>1. Front(Append(<<>>, x)) = <<>>
      BY <2>2, AppendParts
    <3>2. IsSequence(Append(<<>>, x))
      BY <2>2, AppendIs
    <3> QED BY <2>1, <2>2, <3>1, <3>2
  <2>4. Within(c) = "none" /\ BlocksOf(c) = c
    BY <1>9, <2>3, WithinIs
  <2>5. Len(f) = Len(c)
    <3>1. Fits(f, c, "none")
      BY <1>2, <2>4, Zenon DEF Matches
    <3> QED BY <3>1 DEF Fits
  <2>6. Len(c) = 1
    BY <2>1, <2>2
  <2>7. f # <<>>
    BY <2>5, <2>6, EmptyIs
  <2> QED BY <2>3, <2>6, <2>7
<1> QED BY <1>2, <1>5, <1>8, <1>9

(* Scopes over the same ones, of which each is a block, are the same.      *)
LEMMA SameOver ==
  ASSUME NEW s, NEW p, NEW f, NEW r, NEW m, NEW n, Over("scopes", s, f, r, m, n), Over("scopes", p, f, r, m, n),
         \A i \in 1..Len(f) : f[i].kind \notin Hidden
  PROVE  s = p
<1>1. /\ IsSequence(s) /\ IsSequence(p) /\ Len(r) \in Nat /\ Len(f) \in Nat
      /\ Len(s) = Len(r) + Len(f) /\ Len(p) = Len(r) + Len(f)
  BY EmptyIs DEF Over
<1>2. ASSUME NEW i \in 1..Len(s) PROVE s[i] = p[i]
  <2>1. CASE i \in 1..Len(r)
    BY <2>1, Zenon DEF Over
  <2>2. CASE i \notin 1..Len(r)
    <3> DEFINE j == i - Len(r)
    <3>1. j \in 1..Len(f) /\ i = Len(r) + j
      BY <1>1, <2>2
    <3> HIDE DEF j
    <3>2. LikeScope(s[i], f[j], m, n)
      BY <3>1, AlikeScopes DEF Over
    <3>3. LikeScope(p[i], f[j], m, n)
      BY <3>1, AlikeScopes DEF Over
    <3>4. f[j].kind \notin Hidden
      BY <3>1
    <3>5. /\ s[i].kind = p[i].kind /\ s[i].braced = p[i].braced /\ s[i].line = p[i].line /\ s[i].access = p[i].access
          /\ IsScope(s[i]) /\ IsScope(p[i])
      BY <3>2, <3>3, <3>4, Zenon DEF LikeScope
    <3> QED BY <3>5 DEF IsScope
  <2> QED BY <2>1, <2>2
<1> QED BY <1>1, <1>2, SameSequence

(* Only blocks are checked.                                                *)
LEMMA CheckedKinds ==
  /\ \A x : ChecksIndentation(x) => x.kind \in Kinds
  /\ \A x, y : x.kind = y.kind => (ChecksIndentation(x) <=> ChecksIndentation(y)) /\ (IsClass(x) <=> IsClass(y))
BY DEF ChecksIndentation, IsClass, Kinds

(* The innermost scope of the text and that of the small one               *)
LEMMA OverInnermost ==
  ASSUME NEW s, NEW scopes, NEW n, NEW f, NEW r, NEW c, NEW q, NEW m, IsOver(s, scopes, n, f, r, c, q, m)
  PROVE  /\ scopes # <<>> <=> c # <<>>
         /\ c # <<>> => Last(scopes).kind = Last(c).kind
         /\ c # <<>> /\ Last(c).kind \in Kinds => Last(scopes).line = m /\ Front(scopes) = q
<1>1. /\ [stack |-> f, nest |-> c] \in SmallTexts
      /\ Over("scopes", scopes, c, q, m, n) /\ Below(r, q)
      /\ BlocksOf(c) = <<>> => r = <<>>
  BY Zenon DEF IsOver
<1>2. c # <<>> => scopes # <<>> /\ LikeScope(Last(scopes), Last(c), m, n)
  BY <1>1, OverTop, AlikeScopes
<1>3. ASSUME c = <<>> PROVE scopes = <<>>
  <2>1. BlocksOf(c) = <<>>
    BY <1>3, Zenon DEF Within, BlocksOf
  <2>2. scopes = q
    BY <1>1, <1>3, OverNone
  <2>3. IsSequence(q) /\ Len(q) = 0
    BY <1>1, <2>1, EmptyIs DEF Below
  <2> QED BY <2>2, <2>3, EmptyIs
<1>4. ASSUME c # <<>>, Last(c).kind \in Kinds PROVE Last(scopes).line = m /\ Front(scopes) = q
  <2>1. Last(c).line = 1 /\ Front(c) = <<>>
    BY <1>1, <1>4, InSmallText
  <2>2. Last(scopes).line = m
    BY <1>2, <1>4, <2>1, KindsApart DEF LikeScope, At
  <2>3. Over("scopes", Front(scopes), <<>>, q, m, n)
    <3>1. Over("scopes", Front(scopes), Front(c), q, m, n)
      BY <1>1, <1>4, OverFront
    <3> QED BY <2>1, <3>1
  <2> QED BY <2>2, <2>3, OverNone
<1>5. c # <<>> => Last(scopes).kind = Last(c).kind
  BY <1>2, Zenon DEF LikeScope
<1> QED BY <1>2, <1>3, <1>4, <1>5

(* The innermost scope ends.                                               *)
LEMMA EndsAlike ==
  ASSUME NEW s, NEW scopes, NEW n, NEW f, NEW r, NEW c, NEW q, NEW m, IsOver(s, scopes, n, f, r, c, q, m),
         NEW after, NEW d, Over("scopes", after, d, q, m, n)
  PROVE  EndsItem(scopes, after) <=> EndsItem(c, d)
<1>1. [stack |-> f, nest |-> c] \in SmallTexts
  BY Zenon DEF IsOver
<1>2. scopes # <<>> <=> c # <<>>
  BY OverInnermost
<1>3. c # <<>> => (ChecksIndentation(Last(scopes)) <=> ChecksIndentation(Last(c)))
  BY OverInnermost, CheckedKinds
<1>4. ASSUME c # <<>>, ChecksIndentation(Last(c)) PROVE Front(scopes) = after <=> Front(c) = d
  <2>1. Last(c).kind \in Kinds
    BY <1>4, CheckedKinds
  <2>2. Front(scopes) = q
    BY <1>4, <2>1, OverInnermost
  <2>3. Front(c) = <<>>
    BY <1>1, <1>4, <2>1, InSmallText
  <2>4. d = <<>> => after = q
    BY OverNone
  <2>5. after = q => d = <<>>
    <3>1. Len(after) = Len(q) + Len(d) /\ Len(q) \in Nat /\ Len(d) \in Nat /\ IsSequence(d)
      BY EmptyIs DEF Over
    <3> QED BY <3>1, EmptyIs
  <2> QED BY <2>2, <2>3, <2>4, <2>5
<1> QED BY <1>2, <1>3, <1>4, Zenon DEF EndsItem, Inside

(* A scope begins directly in a namespace.                                 *)
LEMMA BeginsAlike ==
  ASSUME NEW s, NEW scopes, NEW n, NEW f, NEW r, NEW c, NEW q, NEW m, IsOver(s, scopes, n, f, r, c, q, m),
         NEW after, NEW d, Over("scopes", after, d, q, m, n), f # <<>> => m # n
  PROVE  BeginsItem(scopes, after) <=> BeginsItem(c, d)
<1>1. [stack |-> f, nest |-> c] \in SmallTexts /\ Over("scopes", scopes, c, q, m, n)
  BY Zenon DEF IsOver
<1>2. InNamespace(scopes) <=> InNamespace(c)
  BY OverInnermost, Zenon DEF InNamespace
<1>3. d # <<>> => after # <<>> /\ (ChecksIndentation(Last(after)) <=> ChecksIndentation(Last(d)))
  <2>1. d # <<>> => after # <<>> /\ LikeScope(Last(after), Last(d), m, n)
    BY OverTop, AlikeScopes
  <2> QED BY <2>1, CheckedKinds, Zenon DEF LikeScope
<1>4. /\ Len(q) \in Nat /\ Len(c) \in Nat /\ Len(d) \in Nat
      /\ Len(scopes) = Len(q) + Len(c) /\ Len(after) = Len(q) + Len(d)
      /\ IsSequence(scopes) /\ IsSequence(after) /\ IsSequence(c) /\ IsSequence(d)
  BY <1>1, EmptyIs DEF Over
<1>4a. Len(scopes) = Len(after) - 1 /\ Len(c) = 1 => Len(d) = 2
  <2>1. \A a, b, e \in Nat : a + b = (a + e) - 1 /\ b = 1 => e = 2
    OBVIOUS
  <2> QED BY <1>4, <2>1, Zenon
<1>5. ASSUME InNamespace(c) PROVE d # <<>> /\ Front(d) = c <=> after # <<>> /\ Front(after) = scopes
  <2>1. "namespace" \in Kinds /\ c # <<>> /\ Last(c).kind = "namespace"
    BY <1>5 DEF Kinds, InNamespace
  <2>2. Len(c) = 1 /\ f # <<>> /\ Last(c).line = 1 /\ Last(c) = c[1]
    <3>1. Len(c) = 1 /\ f # <<>> /\ Last(c).line = 1
      BY <1>1, <2>1, InSmallText
    <3> QED BY <3>1 DEF Last
  <2>3. c[1].kind = "namespace" /\ c[1].line = 1 /\ m # n /\ "namespace" \notin Hidden
    BY <2>1, <2>2, KindsApart
  <2>4. ASSUME d # <<>>, Front(d) = c PROVE Front(after) = scopes
    <3>1. Over("scopes", Front(after), c, q, m, n)
      BY <2>4, OverFront
    <3>2. \A i \in 1..Len(c) : c[i].kind \notin Hidden
      BY <2>2, <2>3
    <3> QED BY <1>1, <3>1, <3>2, SameOver
  <2>5. ASSUME after # <<>>, Front(after) = scopes PROVE d # <<>> /\ Front(d) = c
    <3>1. Len(scopes) = Len(after) - 1
      BY <1>4, <2>5, FrontIs
    <3>2. Len(d) = 2
      BY <1>4a, <2>2, <3>1
    <3>3. d # <<>>
      BY <1>4, <3>2, EmptyIs
    <3> DEFINE p == Front(d)
    <3>4. IsSequence(p) /\ Len(p) = 1
      <4>1. IsSequence(p) /\ Len(p) = Len(d) - 1
        BY <1>4, <3>3, FrontIs
      <4> HIDE DEF p
      <4> QED BY <3>2, <4>1
    <3>5. Over("scopes", scopes, p, q, m, n)
      BY <2>5, <3>3, OverFront
    <3> HIDE DEF p
    <3>6. LikeScope(scopes[Len(q) + 1], p[1], m, n) /\ LikeScope(scopes[Len(q) + 1], c[1], m, n)
      <4>1. 1 \in 1..Len(p) /\ 1 \in 1..Len(c)
        BY <2>2, <3>4
      <4>2. LikeScope(scopes[Len(q) + 1], p[1], m, n)
        BY <3>5, <4>1, AlikeScopes DEF Over
      <4>3. LikeScope(scopes[Len(q) + 1], c[1], m, n)
        BY <1>1, <4>1, AlikeScopes DEF Over
      <4> QED BY <4>2, <4>3
    <3>7. /\ p[1].kind = c[1].kind /\ p[1].braced = c[1].braced /\ p[1].access = c[1].access
          /\ IsScope(p[1]) /\ IsScope(c[1])
          /\ At(p[1].line, m, n) = At(c[1].line, m, n)
      BY <2>3, <3>6, Zenon DEF LikeScope
    <3>8. p[1].line = c[1].line
      BY <2>3, <3>7 DEF At
    <3>9. p[1] = c[1]
      BY <3>7, <3>8 DEF IsScope
    <3>10. \A i \in 1..Len(p) : p[i] = c[i]
      BY <3>4, <3>9
    <3>11. p = c
      BY <1>4, <2>2, <3>4, <3>10, SameSequence
    <3> QED BY <3>3, <3>11 DEF p
  <2> QED BY <1>3, <2>4, <2>5
<1>6. InNamespace(c) /\ after # <<>> /\ Front(after) = scopes => d # <<>>
  BY <1>5
<1> QED BY <1>2, <1>3, <1>5, <1>6, Zenon DEF BeginsItem, Inside

(* The stack has one block more, which begins in a namespace.              *)
LEMMA BelowAlike ==
  ASSUME NEW s, NEW after, NEW f, NEW g, NEW r, NEW m, NEW n, Over("blocks", s, f, r, m, n), Over("blocks", after, g, r, m, n),
         Room(f, r), f # <<>> => m # n /\ Last(f).starting_linenum = 1
  PROVE  OnNamespace(after) /\ IsBelow(s, after) <=> OnNamespace(g) /\ IsBelow(f, g)
<1>1. /\ Len(r) \in Nat /\ Len(f) \in Nat /\ Len(g) \in Nat
      /\ Len(s) = Len(r) + Len(f) /\ Len(after) = Len(r) + Len(g)
      /\ IsSequence(r) /\ IsSequence(f) /\ IsSequence(g) /\ IsSequence(after)
  BY EmptyIs DEF Over
<1>2. CASE f = <<>>
  <2>1. Len(r) = 0 /\ Len(f) = 0
    BY <1>1, <1>2, EmptyIs DEF Room
  <2>2. ~IsBelow(s, after) /\ ~IsBelow(f, g)
    BY <1>1, <2>1 DEF IsBelow
  <2> QED BY <2>2
<1>3. CASE f # <<>> /\ Len(g) # Len(f) + 1
  <2>1. ~IsBelow(s, after) /\ ~IsBelow(f, g)
    BY <1>1, <1>3 DEF IsBelow
  <2> QED BY <2>1
<1>4. CASE f # <<>> /\ Len(g) = Len(f) + 1
  <2>1. Len(f) >= 1
    BY <1>1, <1>4, EmptyIs
  <2>2. Len(g) > 1 /\ Len(after) > 1 /\ Len(f) = Len(g) - 1 /\ Len(s) = Len(after) - 1
    BY <1>1, <1>4, <2>1
  <2> DEFINE k == Len(g)
             j == Len(g) - 1
  <2>3. k \in 1..Len(g) /\ j \in 1..Len(g) /\ Len(after) = Len(r) + k /\ Len(after) - 1 = Len(r) + j
    BY <1>1, <2>2
  <2>4. Last(after) = after[Len(r) + k] /\ Last(g) = g[k] /\ after[Len(after) - 1] = after[Len(r) + j]
    BY <2>3 DEF Last
  <2> HIDE DEF k, j
  <2>5. Like(Last(after), Last(g), m, n)
    BY <2>3, <2>4, AlikeBlocks DEF Over
  <2>6. Like(after[Len(after) - 1], g[j], m, n)
    BY <2>3, <2>4, AlikeBlocks DEF Over
  <2>7. Like(Last(s), Last(f), m, n)
    BY <1>4, OverTop, AlikeBlocks
  <2>8. /\ Last(s).starting_linenum = At(Last(f).starting_linenum, m, n)
        /\ after[Len(after) - 1].starting_linenum = At(g[j].starting_linenum, m, n)
        /\ after[Len(after) - 1].kind = g[j].kind /\ Last(after).kind = Last(g).kind
    BY <2>5, <2>6, <2>7, Zenon DEF Like
  <2>9. Last(s).starting_linenum = after[Len(after) - 1].starting_linenum
          <=> Last(f).starting_linenum = g[j].starting_linenum
    BY <1>4, <2>8 DEF At
  <2>10. ChecksIndentation(Last(after)) <=> ChecksIndentation(Last(g))
    BY <2>8, CheckedKinds
  <2> QED BY <2>2, <2>8, <2>9, <2>10, Zenon DEF OnNamespace, IsBelow, j
<1> QED BY <1>2, <1>3, <1>4

(* A macro goes on.                                                        *)
LEMMA MacroAlike ==
  ASSUME NEW scopes, NEW d, NEW r, NEW q, NEW m, NEW n, Over("scopes", scopes, d, q, m, n), Below(r, q)
  PROVE  Innermost(scopes) = "macro" <=> Innermost(d) = "macro"
<1>1. CASE d = <<>>
  <2>1. scopes = q /\ IsSequence(q)
    BY <1>1, OverNone DEF Over
  <2>2. \A i \in 1..Len(q) : q[i].kind \in Kinds
    BY BelowBlocks
  <2>3. Innermost(d) # "macro"
    <3>1. Innermost(d) = "file"
      BY <1>1, Zenon DEF Innermost
    <3> QED BY <3>1
  <2>4. Innermost(q) # "macro"
    <3>1. CASE q = <<>>
      BY <1>1, <2>3, <3>1
    <3>2. CASE q # <<>> /\ ~Last(q).braced
      <4>1. Innermost(q) = "head"
        BY <3>2, Zenon DEF Innermost
      <4> QED BY <4>1
    <3>3. CASE q # <<>> /\ Last(q).braced
      <4>1. Innermost(q) = Last(q).kind
        BY <3>3, Zenon DEF Innermost
      <4>2. Last(q).kind \in Kinds
        BY <2>1, <2>2, <3>3, FrontIs
      <4>3. "macro" \notin Kinds
        BY DEF Kinds
      <4> QED BY <4>1, <4>2, <4>3
    <3> QED BY <3>1, <3>2, <3>3
  <2> QED BY <2>1, <2>3, <2>4
<1>2. CASE d # <<>>
  <2>1. scopes # <<>> /\ LikeScope(Last(scopes), Last(d), m, n)
    BY <1>2, OverTop, AlikeScopes
  <2>2. Innermost(scopes) = Innermost(d)
    BY <1>2, <2>1, SameInnermost, Zenon DEF LikeScope
  <2> QED BY <2>2
<1> QED BY <1>1, <1>2

StartsWithBrace(line) == line.tokens # <<>> /\ Head(line.tokens) = "}"

(* A line of a small text                                                  *)
LEMMA SmallLooks ==
  ASSUME NEW f, NEW c, [stack |-> f, nest |-> c] \in SmallTexts, NEW x \in DOMAIN Source,
         Source[x].pp = "none", Innermost(c) \in Source[x].where
  PROVE  LET line == Source[x]
             read == ReadLine(f, line, 2)
             d == DoLine(c, line, 2)
         IN /\ OnNamespace(read.stack) /\ IsBelow(f, read.stack) <=> BeginsItem(c, d)
            /\ \A y \in read.ended : ChecksIndentation(y) /\ y.starting_linenum = 1 =>
                 EndsItem(c, d) /\ y.kind = Last(c).kind /\ (IsClass(y) => StartsWithBrace(line))
            /\ EndsItem(c, d) =>
                 \E y \in read.ended : ChecksIndentation(y) /\ y.starting_linenum = 1 /\ y.kind = Last(c).kind
            /\ \A y \in read.ended : y.kind = "namespace" /\ y.starting_linenum # 1 => line.closes = "none"
            /\ line.macro = "define" <=> Innermost(d) = "macro"
            /\ line.forward => Within(d) \in {"none", "macro"}
<1> DEFINE line == Source[x]
           t == [stack |-> f, nest |-> c]
           read == ReadLine(f, line, 2)
           d == DoLine(c, line, 2)
           ends == {block \in read.ended : block.starting_linenum = 1 /\ ChecksIndentation(block)}
<1>1. t.stack = f /\ t.nest = c
  BY Zenon
<1>2. t \in SmallTexts
  OBVIOUS
<1> HIDE DEF t
<1>3. LooksAsItMeans(line, t)
  BY <1>1, <1>2, LinesLook, Zenon
<1>4. /\ OnNamespace(read.stack) /\ IsBelow(f, read.stack) <=> BeginsItem(c, d)
      /\ {block.kind : block \in ends} = IF EndsItem(c, d) THEN {Last(c).kind} ELSE {}
      /\ (\E block \in ends : IsClass(block)) => StartsWithBrace(line)
      /\ (\E block \in read.ended \ ends : block.kind = "namespace") => line.closes = "none"
      /\ line.macro = "define" <=> Innermost(d) = "macro"
      /\ line.forward => Within(d) \in {"none", "macro"}
  BY <1>1, <1>3, Zenon DEF LooksAsItMeans, StartsWithBrace
<1> HIDE DEF line, read, d
<1>5. ASSUME NEW y \in read.ended, ChecksIndentation(y), y.starting_linenum = 1
      PROVE  EndsItem(c, d) /\ y.kind = Last(c).kind /\ (IsClass(y) => StartsWithBrace(line))
  <2>1. y \in ends
    BY <1>5, Zenon
  <2> HIDE DEF ends
  <2>2. y.kind \in {block.kind : block \in ends}
    BY <2>1, Zenon
  <2>3. EndsItem(c, d) /\ y.kind = Last(c).kind
    BY <1>4, <2>2
  <2> QED BY <1>4, <2>1, <2>3, Zenon
<1>6. ASSUME EndsItem(c, d)
      PROVE  \E y \in read.ended : ChecksIndentation(y) /\ y.starting_linenum = 1 /\ y.kind = Last(c).kind
  <2>1. {block.kind : block \in ends} = {Last(c).kind}
    BY <1>4, <1>6, Zenon
  <2>2. PICK y \in ends : y.kind = Last(c).kind
    <3> HIDE DEF ends
    <3> QED BY <2>1
  <2> QED BY <2>2, Zenon
<1>7. ASSUME NEW y \in read.ended, y.kind = "namespace", y.starting_linenum # 1
      PROVE  line.closes = "none"
  <2>1. y \in read.ended \ ends
    BY <1>7, Zenon
  <2> QED BY <1>4, <1>7, <2>1, Zenon
<1> QED BY <1>4, <1>5, <1>6, <1>7 DEF line, read, d

(* What the checks of the layout see of a line is what it means: a block   *)
(* begins in the innermost scope, that scope ends, and every other block   *)
(* that ends on the line is of this line.                                  *)
LooksRight(line, s, scopes, n) ==
  LET read == ReadLine(s, line, n)
      after == DoLine(scopes, line, n)
  IN /\ OnNamespace(read.stack) /\ IsBelow(s, read.stack) <=> BeginsItem(scopes, after)
     /\ \A b \in read.ended : ChecksIndentation(b) =>
          \/ b.starting_linenum = n
          \/ /\ EndsItem(scopes, after) /\ b.kind = Last(scopes).kind
             /\ b.starting_linenum = Last(scopes).line
     /\ EndsItem(scopes, after) =>
          \E b \in read.ended : /\ ChecksIndentation(b) /\ b.kind = Last(scopes).kind
                                /\ b.starting_linenum = Last(scopes).line
     /\ EndsItem(scopes, after) /\ IsClass(Last(scopes)) => StartsWithBrace(line)
     /\ \A b \in read.ended : b.kind = "namespace" /\ b.starting_linenum = n => line.closes = "none"
     /\ line.macro = "define" <=> Innermost(after) = "macro"
     /\ line.forward => Within(after) \in {"none", "macro"}

LEMMA LineLooks ==
  ASSUME NEW s, NEW scopes, Fit(s, scopes), NEW x \in DOMAIN Source, Source[x].pp = "none",
         Innermost(scopes) \in Source[x].where, NEW t, NEW n \in Nat \ {0}, Known(s, t, n - 1)
  PROVE  LooksRight(Source[x], s, scopes, n)
<1> DEFINE line == Source[x]
           read == ReadLine(s, line, n)
           after == DoLine(scopes, line, n)
<1>1. PICK f, r, c, q, m : IsOver(s, scopes, n, f, r, c, q, m)
  BY SmallText
<1>2. /\ [stack |-> f, nest |-> c] \in SmallTexts
      /\ Over("blocks", s, f, r, m, n) /\ Over("scopes", scopes, c, q, m, n)
      /\ Below(r, q) /\ Room(f, r) /\ Closed(r)
      /\ Innermost(c) = Innermost(scopes)
      /\ BlocksOf(c) = <<>> => r = <<>>
  BY <1>1, Zenon DEF IsOver
<1> DEFINE d == DoLine(c, line, 2)
           small == ReadLine(f, line, 2)
<1>3. Innermost(c) \in Source[x].where
  BY <1>2
<1>4. /\ Matches(small.stack, d)
      /\ line.ns \in Seq(BOOLEAN) /\ Len(line.tokens) \in Nat /\ Len(line.means) \in Nat
      /\ ClosesItsOwn(line, Reading(Declarations(CountParentheses(f, line), line, 2), line, 2))
      /\ HasItsScopes(line, Doing(c, line, 2))
      /\ BlocksOf(c) # <<>> /\ BlocksOf(d) = <<>> => d = <<>>
  BY <1>2, <1>3, SmallLine, Zenon
<1>5. /\ OnNamespace(small.stack) /\ IsBelow(f, small.stack) <=> BeginsItem(c, d)
      /\ \A y \in small.ended : ChecksIndentation(y) /\ y.starting_linenum = 1 =>
           EndsItem(c, d) /\ y.kind = Last(c).kind /\ (IsClass(y) => StartsWithBrace(line))
      /\ EndsItem(c, d) =>
           \E y \in small.ended : ChecksIndentation(y) /\ y.starting_linenum = 1 /\ y.kind = Last(c).kind
      /\ \A y \in small.ended : y.kind = "namespace" /\ y.starting_linenum # 1 => line.closes = "none"
      /\ line.macro = "define" <=> Innermost(d) = "macro"
      /\ line.forward => Within(d) \in {"none", "macro"}
  BY <1>2, <1>3, SmallLooks, Zenon
<1> HIDE DEF line
<1>6. /\ Over("blocks", read.stack, small.stack, r, m, n)
      /\ \A b \in read.ended : \E y \in small.ended : Like(b, y, m, n)
      /\ \A y \in small.ended : \E b \in read.ended : Like(b, y, m, n)
  BY <1>2, <1>4, OverLine
<1>7. Over("scopes", after, d, q, m, n)
  BY <1>2, <1>4, OverDoing
<1> HIDE DEF read, after, d, small
<1>8. f # <<>> => m \in 1..(n - 1) /\ m # n /\ Last(f).starting_linenum = 1
  <2> SUFFICES ASSUME f # <<>> PROVE m \in 1..(n - 1) /\ m # n /\ Last(f).starting_linenum = 1
    OBVIOUS
  <2>1. Last(f).starting_linenum = 1
    BY <1>2, InSmallText
  <2>2. s # <<>> /\ Like(Last(s), Last(f), m, n)
    BY <1>2, OverTop, AlikeBlocks
  <2>3. KnownBlock(Last(s), t, n - 1)
    BY <2>2, KnownTop
  <2>4. Last(s).starting_linenum = m
    BY <2>1, <2>2 DEF Like, At
  <2>5. m \in 1..(n - 1)
    BY <2>3, <2>4, Zenon DEF KnownBlock
  <2> QED BY <2>1, <2>5
<1>9. OnNamespace(read.stack) /\ IsBelow(s, read.stack) <=> OnNamespace(small.stack) /\ IsBelow(f, small.stack)
  BY <1>2, <1>6, <1>8, BelowAlike
<1>10. BeginsItem(scopes, after) <=> BeginsItem(c, d)
  BY <1>1, <1>7, <1>8, BeginsAlike
<1>11. EndsItem(scopes, after) <=> EndsItem(c, d)
  BY <1>1, <1>7, EndsAlike
<1>12. EndsItem(c, d) => Last(c).kind \in Kinds /\ Last(scopes).kind = Last(c).kind /\ Last(scopes).line = m /\ f # <<>>
  <2> SUFFICES ASSUME EndsItem(c, d)
               PROVE  Last(c).kind \in Kinds /\ Last(scopes).kind = Last(c).kind /\ Last(scopes).line = m /\ f # <<>>
    OBVIOUS
  <2>1. c # <<>> /\ Last(c).kind \in Kinds
    BY CheckedKinds, Zenon DEF EndsItem, Inside
  <2>2. f # <<>>
    BY <1>2, <2>1, InSmallText
  <2> QED BY <1>1, <2>1, <2>2, OverInnermost
<1>13. ASSUME NEW b \in read.ended, NEW y \in small.ended, Like(b, y, m, n)
       PROVE  /\ ChecksIndentation(b) <=> ChecksIndentation(y)
              /\ b.kind = y.kind
              /\ y.starting_linenum = 1 => b.starting_linenum = m
              /\ y.starting_linenum # 1 => b.starting_linenum = n
  <2>1. b.kind = y.kind /\ b.starting_linenum = At(y.starting_linenum, m, n)
    BY <1>13, Zenon DEF Like
  <2>2. ChecksIndentation(b) <=> ChecksIndentation(y)
    BY <2>1, CheckedKinds
  <2> QED BY <2>1, <2>2 DEF At
<1>14. ASSUME NEW b \in read.ended, ChecksIndentation(b)
       PROVE  \/ b.starting_linenum = n
              \/ /\ EndsItem(scopes, after) /\ b.kind = Last(scopes).kind
                 /\ b.starting_linenum = Last(scopes).line
  <2>1. PICK y \in small.ended : Like(b, y, m, n)
    BY <1>6
  <2>2. CASE y.starting_linenum # 1
    BY <1>13, <2>1, <2>2
  <2>3. CASE y.starting_linenum = 1
    <3>1. ChecksIndentation(y) /\ b.kind = y.kind /\ b.starting_linenum = m
      BY <1>13, <1>14, <2>1, <2>3
    <3>2. EndsItem(c, d) /\ y.kind = Last(c).kind
      BY <1>5, <2>3, <3>1
    <3> QED BY <1>11, <1>12, <3>1, <3>2
  <2> QED BY <2>2, <2>3
<1>15. ASSUME EndsItem(scopes, after)
       PROVE  \E b \in read.ended : /\ ChecksIndentation(b) /\ b.kind = Last(scopes).kind
                                    /\ b.starting_linenum = Last(scopes).line
  <2>1. PICK y \in small.ended : ChecksIndentation(y) /\ y.starting_linenum = 1 /\ y.kind = Last(c).kind
    BY <1>5, <1>11, <1>15
  <2>2. PICK b \in read.ended : Like(b, y, m, n)
    BY <1>6
  <2>3. ChecksIndentation(b) /\ b.kind = y.kind /\ b.starting_linenum = m
    BY <1>13, <2>1, <2>2
  <2> QED BY <1>11, <1>12, <1>15, <2>1, <2>3
<1>16. ASSUME EndsItem(scopes, after), IsClass(Last(scopes)) PROVE StartsWithBrace(line)
  <2>1. PICK y \in small.ended : ChecksIndentation(y) /\ y.starting_linenum = 1 /\ y.kind = Last(c).kind
    BY <1>5, <1>11, <1>16
  <2>2. IsClass(y)
    <3>1. y.kind = Last(scopes).kind
      BY <1>11, <1>12, <1>16, <2>1
    <3> QED BY <1>16, <3>1, CheckedKinds
  <2> QED BY <1>5, <2>1, <2>2
<1>17. ASSUME NEW b \in read.ended, b.kind = "namespace", b.starting_linenum = n PROVE line.closes = "none"
  <2>1. PICK y \in small.ended : Like(b, y, m, n)
    BY <1>6
  <2>2. b.kind = y.kind /\ ChecksIndentation(y)
    <3>1. ChecksIndentation(b)
      BY <1>17 DEF ChecksIndentation
    <3> QED BY <1>13, <2>1, <3>1
  <2>3. CASE y.starting_linenum # 1
    BY <1>5, <1>17, <2>2, <2>3
  <2>4. CASE y.starting_linenum = 1
    <3>1. b.starting_linenum = m
      BY <1>13, <2>1, <2>4
    <3>2. EndsItem(c, d)
      BY <1>5, <2>2, <2>4
    <3> QED BY <1>8, <1>12, <1>17, <3>1, <3>2
  <2> QED BY <2>3, <2>4
<1>18. Innermost(after) = "macro" <=> Innermost(d) = "macro"
  BY <1>2, <1>7, MacroAlike
<1>19. Within(after) = Within(d)
  <2>1. d # <<>> /\ BlocksOf(d) = <<>> => r = <<>>
    BY <1>2, <1>4
  <2> QED BY <1>2, <1>4, <1>6, <1>7, <2>1, Lift
<1>20. line.macro = "define" <=> Innermost(after) = "macro"
  BY <1>5, <1>18
<1>21. line.forward => Within(after) \in {"none", "macro"}
  BY <1>5, <1>19
<1> QED BY <1>5, <1>9, <1>10, <1>14, <1>15, <1>16, <1>17, <1>20, <1>21, Zenon DEF LooksRight, line, read, after
-----------------------------------------------------------------------------
(* Directives *)

(* Neither the stack nor the scopes change on the line of a directive.     *)
LEMMA DirectiveLine ==
  ASSUME NEW s, NEW line, IsDirective(line), NEW n
  PROVE  /\ IsSequence(s) => Len(ReadLine(s, line, n).stack) = Len(s)
         /\ ReadLine(s, line, n).ended = {}
         /\ \A scopes : DoLine(scopes, line, n) = scopes
<1>1. /\ line.ns = <<>> /\ line.cls = "none" /\ line.access = "none"
      /\ line.tokens = <<>> /\ line.means = <<>>
  BY Zenon DEF IsDirective
<1>2. Len(line.ns) = 0 /\ Len(line.tokens) = 0 /\ Len(line.means) = 0
  BY <1>1, EmptyIs
<1> DEFINE s1 == CountParentheses(s, line)
           s2 == Namespaces(s1, line, n)
           read == Reading(s2, line, n)
<1>3. ASSUME IsSequence(s) PROVE IsSequence(s1) /\ Len(s1) = Len(s)
  <2>1. CASE s = <<>>
    <3>1. s1 = s
      BY <2>1, Zenon DEF CountParentheses
    <3> QED BY <1>3, <3>1
  <2>2. CASE s # <<>>
    <3>1. \E b : s1 = ChangeTop(s, b)
      BY <2>2, Zenon DEF CountParentheses
    <3> HIDE DEF s1
    <3> QED BY <1>3, <2>2, <3>1, ChangeTopIs
  <2> QED BY <2>1, <2>2
<1>4. ASSUME IsSequence(s) PROVE Len(s2) = Len(s1)
  <2> DEFINE p == [i \in 1..Len(line.ns) |-> BlockInfo("namespace", line.ns[i], n)]
  <2>1. s2 = s1 \o p
    BY Zenon DEF Namespaces
  <2>2. p = [i \in 1..0 |-> p[i]]
    BY <1>2
  <2> HIDE DEF p, s1, s2
  <2>3. IsSequence(p) /\ Len(p) = 0
    BY <2>2, TupleIs
  <2>4. IsSequence(s1) /\ Len(s1) \in Nat
    BY <1>3, <1>4, EmptyIs
  <2> QED BY <2>1, <2>3, <2>4, ConcatIs
<1>5. Declarations(s1, line, n) = s2
  BY <1>1, Zenon DEF Declarations, ClassDeclaration, AccessLabel
<1>6. read[0] = s2
  <2>1. ReadTokens(read, s2, line, n, 0)
    BY <1>2, ReadingIs
  <2> QED BY <2>1, Zenon DEF ReadTokens
<1>7. /\ ReadLine(s, line, n).stack = read[0]
      /\ ReadLine(s, line, n).ended = {Last(read[k - 1]) : k \in {i \in 1..0 : line.tokens[i] = "}" /\ read[i - 1] # <<>>}}
  BY <1>2, <1>5, Zenon DEF ReadLine, Tokens
<1>8. 1..0 = {}
  OBVIOUS
<1>9. ReadLine(s, line, n).ended = {}
  BY <1>7, <1>8, Zenon
<1>10. ASSUME NEW scopes PROVE DoLine(scopes, line, n) = scopes
  <2> DEFINE done == Doing(scopes, line, n)
  <2>1. DoesEvents(done, scopes, line, n, 0)
    BY <1>2, DoingIs
  <2>2. DoLine(scopes, line, n) = done[0]
    BY <1>2, Zenon DEF DoLine
  <2> QED BY <2>1, <2>2, Zenon DEF DoesEvents
<1> QED BY <1>3, <1>4, <1>6, <1>7, <1>9, <1>10

(* If the blocks are not copied they are those from before the line.       *)
LEMMA NotCopied ==
  ASSUME NEW line, NEW s, s = [stack |-> stack, pp_stack |-> pp_stack], ~Copied(line)
  PROVE  UpdatePreprocessor(s, line).stack = stack
<1>1. s.stack = stack /\ s.pp_stack = pp_stack
  OBVIOUS
<1>2. CASE line.pp = "if"
  <2>1. UpdatePreprocessor(s, line) = BeginIf(s)
    BY <1>2 DEF UpdatePreprocessor
  <2>2. BeginIf(s) = [stack |-> stack, pp_stack |-> Append(pp_stack, PreprocessorInfo(stack))]
    BY DEF BeginIf
  <2> QED BY <2>1, <2>2
<1>3. CASE line.pp = "else"
  <2>1. UpdatePreprocessor(s, line) = BeginElse(s)
    BY <1>3 DEF UpdatePreprocessor
  <2>2. pp_stack = <<>>
    BY <1>3 DEF Copied
  <2>3. BeginElse(s) = s
    BY <1>1, <2>2, Zenon DEF BeginElse
  <2> QED BY <1>1, <2>1, <2>3
<1>4. CASE line.pp = "endif"
  <2>1. UpdatePreprocessor(s, line) = EndIf(s)
    BY <1>4 DEF UpdatePreprocessor
  <2>2. pp_stack = <<>> \/ ~Last(pp_stack).seen_else
    BY <1>4 DEF Copied
  <2>3. EndIf(s).stack = stack
    <3>1. CASE pp_stack = <<>>
      <4>1. EndIf(s) = s
        BY <1>1, <3>1, Zenon DEF EndIf
      <4> QED BY <1>1, <4>1
    <3>2. CASE pp_stack # <<>> /\ ~Last(pp_stack).seen_else
      <4>1. EndIf(s) = [stack |-> s.stack, pp_stack |-> Front(s.pp_stack)]
        BY <1>1, <3>2, Zenon DEF EndIf
      <4> QED BY <1>1, <4>1
    <3> QED BY <2>2, <3>1, <3>2
  <2> QED BY <2>1, <2>3
<1>5. CASE line.pp \notin {"if", "else", "endif"}
  <2>1. UpdatePreprocessor(s, line) = s
    BY <1>5 DEF UpdatePreprocessor
  <2> QED BY <1>1, <2>1
<1> QED BY <1>2, <1>3, <1>4, <1>5

-----------------------------------------------------------------------------
(* The entries of the layout *)

(* Entries are in a set of errors with their check and line.               *)
LEMMA InErrors ==
  ASSUME NEW check, NEW lines
  PROVE  /\ \A other, n : [check |-> other, line |-> n] \in Errors(check, lines) <=> other = check /\ n \in lines
         /\ \A e \in Errors(check, lines) : e.check = check /\ e.line \in lines
<1>1. ASSUME NEW other, NEW n, [check |-> other, line |-> n] \in Errors(check, lines)
      PROVE  other = check /\ n \in lines
  <2> DEFINE e == [check |-> other, line |-> n]
  <2>1. PICK k \in lines : e = [check |-> check, line |-> k]
    BY <1>1, Zenon DEF Errors
  <2>2. e.check = other /\ e.line = n
    BY Zenon
  <2> HIDE DEF e
  <2> QED BY <2>1, <2>2
<1>2. ASSUME NEW n \in lines PROVE [check |-> check, line |-> n] \in Errors(check, lines)
  BY Zenon DEF Errors
<1>3. ASSUME NEW e \in Errors(check, lines) PROVE e.check = check /\ e.line \in lines
  <2>1. PICK k \in lines : e = [check |-> check, line |-> k]
    BY Zenon DEF Errors
  <2> QED BY <2>1
<1> QED BY <1>1, <1>2, <1>3

(* The blocks that end on the last line: that of the innermost scope, if   *)
(* it ends, and those of the line.                                         *)
EndsHere(t, outer, inner) == Source[Last(t)].pp = "none" /\ EndsItem(outer, inner)
EndedAre(ended, t, outer, inner) ==
  /\ Len(t) \in Nat
  /\ \A b \in ended : KnownBlock(b, t, Len(t))
  /\ \A b \in ended : ChecksIndentation(b) =>
       \/ b.starting_linenum = Len(t)
       \/ /\ EndsHere(t, outer, inner) /\ b.kind = Last(outer).kind /\ b.starting_linenum = Last(outer).line
  /\ EndsHere(t, outer, inner) =>
       \E b \in ended : ChecksIndentation(b) /\ b.kind = Last(outer).kind /\ b.starting_linenum = Last(outer).line
  /\ EndsHere(t, outer, inner) /\ IsClass(Last(outer)) => StartsWithBrace(Source[Last(t)])
  /\ \A b \in ended : b.kind = "namespace" /\ b.starting_linenum = Len(t) => Source[Last(t)].closes = "none"

(* The end of a class is not aligned.                                      *)
LEMMA ClassEnds ==
  ASSUME NEW ended, NEW t, NEW outer, NEW inner, EndedAre(ended, t, outer, inner)
  PROVE  Misaligned(ended, Source[Last(t)]) <=>
           /\ Source[Last(t)].pp = "none" /\ Inside(outer, inner) /\ IsClass(Last(outer))
           /\ Source[Last(t)].indent # Source[t[Last(outer).line]].indent
<1> DEFINE line == Source[Last(t)]
           start == Source[t[Last(outer).line]]
<1>1. /\ \A b \in ended : KnownBlock(b, t, Len(t))
      /\ \A b \in ended : ChecksIndentation(b) =>
           \/ b.starting_linenum = Len(t)
           \/ /\ EndsHere(t, outer, inner) /\ b.kind = Last(outer).kind /\ b.starting_linenum = Last(outer).line
      /\ EndsHere(t, outer, inner) =>
           \E b \in ended : ChecksIndentation(b) /\ b.kind = Last(outer).kind /\ b.starting_linenum = Last(outer).line
      /\ EndsHere(t, outer, inner) /\ IsClass(Last(outer)) => StartsWithBrace(line)
  BY Zenon DEF EndedAre
<1>2. Misaligned(ended, line) <=>
        StartsWithBrace(line) /\ \E b \in ended : IsClass(b) /\ b.class_indent # line.indent
  BY Zenon DEF Misaligned, StartsWithBrace
<1>3. EndsHere(t, outer, inner) /\ IsClass(Last(outer)) <=>
        line.pp = "none" /\ Inside(outer, inner) /\ IsClass(Last(outer))
  BY Zenon DEF EndsHere, EndsItem, ChecksIndentation
<1>4. t[Len(t)] = Last(t)
  BY DEF Last
<1> HIDE DEF line, start
<1>5. ASSUME NEW b \in ended, IsClass(b), b.class_indent # line.indent
      PROVE  EndsHere(t, outer, inner) /\ IsClass(Last(outer)) /\ line.indent # start.indent
  <2>1. b.class_indent = Source[t[b.starting_linenum]].indent
    BY <1>1, <1>5, Zenon DEF KnownBlock
  <2>2. b.starting_linenum # Len(t)
    BY <1>4, <1>5, <2>1 DEF line
  <2>3. ChecksIndentation(b)
    BY <1>5 DEF ChecksIndentation
  <2>4. EndsHere(t, outer, inner) /\ b.kind = Last(outer).kind /\ b.starting_linenum = Last(outer).line
    BY <1>1, <2>2, <2>3
  <2>5. IsClass(Last(outer))
    BY <1>5, <2>4, CheckedKinds
  <2> QED BY <1>5, <2>1, <2>4, <2>5 DEF start
<1>6. ASSUME EndsHere(t, outer, inner), IsClass(Last(outer)), line.indent # start.indent
      PROVE  StartsWithBrace(line) /\ \E b \in ended : IsClass(b) /\ b.class_indent # line.indent
  <2>1. PICK b \in ended : ChecksIndentation(b) /\ b.kind = Last(outer).kind /\ b.starting_linenum = Last(outer).line
    BY <1>1, <1>6
  <2>2. IsClass(b)
    BY <1>6, <2>1, CheckedKinds
  <2>3. b.class_indent = start.indent
    BY <1>1, <2>1, <2>2 DEF KnownBlock, start
  <2> QED BY <1>1, <1>6, <2>2, <2>3
<1>7. Misaligned(ended, line) <=> EndsHere(t, outer, inner) /\ IsClass(Last(outer)) /\ line.indent # start.indent
  <2>1. EndsHere(t, outer, inner) /\ IsClass(Last(outer)) => StartsWithBrace(line)
    BY <1>1
  <2> QED BY <1>2, <1>5, <1>6, <2>1
<1> QED BY <1>3, <1>7 DEF line, start

(* The end of a namespace needs a comment.                                 *)
LEMMA NamespaceEnds ==
  ASSUME NEW ended, NEW t, NEW outer, NEW inner, EndedAre(ended, t, outer, inner)
  PROVE  (\E b \in ended : b.kind = "namespace" /\ Unnamed(t, b)) <=>
           /\ Source[Last(t)].pp = "none" /\ Inside(outer, inner) /\ Last(outer).kind = "namespace"
           /\ Source[Last(t)].closes # Source[t[Last(outer).line]].name
           /\ Source[Last(t)].closes = "none" => Distance(t, Last(outer).line, Len(t)) >= 10
<1> DEFINE line == Source[Last(t)]
           start == Last(outer).line
           Told == /\ line.closes # Source[t[start]].name
                   /\ Distance(t, start, Len(t)) >= 10 \/ line.closes # "none"
<1>1. /\ Len(t) \in Nat
      /\ \A b \in ended : ChecksIndentation(b) =>
           \/ b.starting_linenum = Len(t)
           \/ /\ EndsHere(t, outer, inner) /\ b.kind = Last(outer).kind /\ b.starting_linenum = start
      /\ EndsHere(t, outer, inner) =>
           \E b \in ended : ChecksIndentation(b) /\ b.kind = Last(outer).kind /\ b.starting_linenum = start
      /\ \A b \in ended : b.kind = "namespace" /\ b.starting_linenum = Len(t) => line.closes = "none"
  BY Zenon DEF EndedAre
<1>2. \A b : Unnamed(t, b) <=>
               /\ line.closes # Source[t[b.starting_linenum]].name
               /\ Distance(t, b.starting_linenum, Len(t)) >= 10 \/ line.closes # "none"
  BY Zenon DEF Unnamed
<1>3. EndsHere(t, outer, inner) /\ Last(outer).kind = "namespace" <=>
        line.pp = "none" /\ Inside(outer, inner) /\ Last(outer).kind = "namespace"
  BY Zenon DEF EndsHere, EndsItem, ChecksIndentation
<1>4. ~(Distance(t, Len(t), Len(t)) >= 10)
  <2>1. Distance(t, Len(t), Len(t)) = 0
    BY <1>1, NoDistance
  <2> QED BY <2>1
<1> HIDE DEF line, start
<1>5. ASSUME NEW b \in ended, b.kind = "namespace", Unnamed(t, b)
      PROVE  EndsHere(t, outer, inner) /\ Last(outer).kind = "namespace" /\ Told
  <2>1. b.starting_linenum # Len(t)
    BY <1>1, <1>2, <1>4, <1>5, Zenon
  <2>2. ChecksIndentation(b)
    BY <1>5 DEF ChecksIndentation
  <2>3. EndsHere(t, outer, inner) /\ b.kind = Last(outer).kind /\ b.starting_linenum = start
    BY <1>1, <2>1, <2>2, Zenon
  <2> QED BY <1>2, <1>5, <2>3, Zenon
<1>6. ASSUME EndsHere(t, outer, inner), Last(outer).kind = "namespace", Told
      PROVE  \E b \in ended : b.kind = "namespace" /\ Unnamed(t, b)
  <2>1. PICK b \in ended : b.kind = Last(outer).kind /\ b.starting_linenum = start
    BY <1>1, <1>6, Zenon
  <2>2. Unnamed(t, b)
    BY <1>2, <1>6, <2>1, Zenon
  <2> QED BY <1>6, <2>1, <2>2
<1>7. Told <=> /\ line.closes # Source[t[start]].name
               /\ line.closes = "none" => Distance(t, start, Len(t)) >= 10
  BY Zenon
<1> HIDE DEF Told
<1>8. (\E b \in ended : b.kind = "namespace" /\ Unnamed(t, b)) <=>
        EndsHere(t, outer, inner) /\ Last(outer).kind = "namespace" /\ Told
  BY <1>5, <1>6, Zenon
<1> QED BY <1>3, <1>7, <1>8, Zenon DEF line, start

(* Code follows line i in front of the last line.                          *)
CodeFollows(t, i) == \E j \in (i + 1)..(Len(t) - 1) : Source[t[j]].code = "code"

(* The lines that Disallowed takes from a block                            *)
MacrosOf(t, start) == {i \in (start + 1)..(Len(t) - 1) : Source[t[i]].disallow = Source[t[start]].name}

LEMMA DisallowedIs ==
  ASSUME NEW t, NEW b
  PROVE  Disallowed(t, b) =
           {i \in MacrosOf(t, b.starting_linenum) :
              (\A j \in MacrosOf(t, b.starting_linenum) : j <= i) /\ CodeFollows(t, i)}
BY Zenon DEF Disallowed, MacrosOf, CodeFollows

(* The last macro of a class that ends is told if code follows it, and no  *)
(* line is told that no code follows.                                      *)
LEMMA DisallowEnds ==
  ASSUME NEW ended, NEW t, NEW outer, NEW inner, EndedAre(ended, t, outer, inner)
  PROVE  LET told == UNION {Disallowed(t, b) : b \in {x \in ended : IsClass(x)}}
         IN /\ \A i \in told : i \in 1..Len(t) /\ CodeFollows(t, i)
            /\ EndsHere(t, outer, inner) /\ IsClass(Last(outer)) =>
                 \A i \in MacrosOf(t, Last(outer).line) :
                   (\A j \in MacrosOf(t, Last(outer).line) : j <= i) /\ CodeFollows(t, i) => i \in told
<1> DEFINE told == UNION {Disallowed(t, b) : b \in {x \in ended : IsClass(x)}}
<1>1. /\ Len(t) \in Nat
      /\ \A b \in ended : KnownBlock(b, t, Len(t))
      /\ EndsHere(t, outer, inner) =>
           \E b \in ended : ChecksIndentation(b) /\ b.kind = Last(outer).kind /\ b.starting_linenum = Last(outer).line
  BY Zenon DEF EndedAre
<1>2. ASSUME NEW i \in told PROVE i \in 1..Len(t) /\ CodeFollows(t, i)
  <2>1. PICK b \in ended : i \in Disallowed(t, b)
    BY <1>2, Zenon
  <2>2. i \in MacrosOf(t, b.starting_linenum) /\ CodeFollows(t, i)
    BY <2>1, DisallowedIs
  <2>3. i \in (b.starting_linenum + 1)..(Len(t) - 1) /\ b.starting_linenum \in 1..Len(t)
    BY <1>1, <2>2, Zenon DEF MacrosOf, KnownBlock
  <2>4. i \in 1..Len(t)
    BY <1>1, <2>3
  <2> QED BY <2>2, <2>4
<1>3. ASSUME EndsHere(t, outer, inner), IsClass(Last(outer)), NEW i \in MacrosOf(t, Last(outer).line),
             \A j \in MacrosOf(t, Last(outer).line) : j <= i, CodeFollows(t, i)
      PROVE  i \in told
  <2>1. PICK b \in ended : b.kind = Last(outer).kind /\ b.starting_linenum = Last(outer).line
    BY <1>1, <1>3, Zenon
  <2>2. IsClass(b)
    BY <1>3, <2>1, CheckedKinds
  <2>3. i \in Disallowed(t, b)
    BY <1>3, <2>1, DisallowedIs, Zenon
  <2> QED BY <2>2, <2>3, Zenon
<1> QED BY <1>2, <1>3, Zenon

(* The top of a stack that fits is a namespace if the innermost scope is.  *)
LEMMA TopFits ==
  ASSUME NEW s, NEW scopes, Fit(s, scopes), Within(scopes) = "none"
  PROVE  Top(s).kind = "namespace" <=> InNamespace(scopes)
<1>1. IsSequence(s) /\ IsSequence(scopes) /\ BlocksOf(scopes) = scopes
  BY Zenon DEF Fit, BlocksOf
<1>2. Fits(s, scopes, "none")
  BY <1>1, Zenon DEF Fit, Matches
<1>3. Len(s) = Len(scopes) /\ \A i \in 1..Len(scopes) : s[i].kind = scopes[i].kind
  <2>1. \A i \in 1..Len(scopes) : Covers(s[i], scopes[i], i = Len(scopes), "none")
    BY <1>2, Zenon DEF Fits
  <2>2. Len(s) = Len(scopes)
    BY <1>2 DEF Fits
  <2> QED BY <2>1, <2>2, Zenon DEF Covers, IsBlock
<1>4. CASE s = <<>>
  <2>1. scopes = <<>>
    BY <1>1, <1>3, <1>4, EmptyIs
  <2> QED BY <1>4, <2>1 DEF Top, NoBlock, InNamespace
<1>5. CASE s # <<>>
  <2>1. scopes # <<>>
    BY <1>1, <1>3, <1>5, EmptyIs
  <2>2. Last(s) = s[Len(s)] /\ Last(scopes) = scopes[Len(s)] /\ Len(s) \in 1..Len(scopes)
    BY <1>1, <1>3, <1>5, <2>1, FrontIs
  <2>3. Last(s).kind = Last(scopes).kind
    BY <1>3, <2>2, Zenon
  <2> QED BY <1>5, <2>1, <2>3 DEF Top, InNamespace
<1> QED BY <1>4, <1>5

-----------------------------------------------------------------------------
(* The inductive invariant of the layout                                   *)

MacrosGoOn == text # <<>> => (Source[Last(text)].macro = "define" <=> Innermost(nest) = "macro")
InNoMacro(t) == \A n \in 0..(Len(t) - 1) : Source[t[n + 1]].pp # "none" => Innermost(Nest(Start(t, n))) # "macro"
KnownStarts(t) == \A n \in 0..Len(t) : Known(StackOf(Start(t, n)), t, n)
EntriesOf(t, entries) ==
  \A e \in entries : e.line \in 1..Len(t) /\ (e.check = "disallow" => CodeFollows(t, e.line))

LayoutInv ==
  /\ MacrosGoOn
  /\ InNoMacro(text)
  /\ KnownStarts(text)
  /\ EntriesOf(text, layout)
  /\ LayoutReported

(* What is known of blocks is known with one line more.                    *)
LEMMA KnownMore ==
  ASSUME NEW t \in Texts, NEW x \in DOMAIN Source, NEW k \in 0..Len(t), NEW n \in Nat, k <= n, NEW s, Known(s, t, k)
  PROVE  Known(s, Append(t, x), n)
<1> DEFINE u == Append(t, x)
<1>1. \A i \in 1..Len(t) : u[i] = t[i]
  BY DEF Texts
<1> HIDE DEF u
<1>2. \A i \in 1..k : i \in 1..n /\ i \in 1..Len(t)
  BY DEF Texts
<1>3. ASSUME NEW b, KnownBlock(b, t, k) PROVE KnownBlock(b, u, n)
  BY <1>1, <1>2, <1>3, Zenon DEF KnownBlock
<1> QED BY <1>3, Zenon DEF Known, u

(* The blocks that end on a line in no directive are those of the text.    *)
LEMMA LineEnds ==
  ASSUME NEW t \in Texts, NEW x \in DOMAIN Source, Source[x].pp = "none", NEW s, NEW scopes, Fit(s, scopes),
         Innermost(scopes) \in Source[x].where, Known(s, t, Len(t))
  PROVE  LET u == Append(t, x)
             read == ReadLine(s, Source[x], Len(u))
             after == DoLine(scopes, Source[x], Len(u))
         IN /\ EndedAre(read.ended, u, scopes, after)
            /\ OnNamespace(read.stack) /\ IsBelow(s, read.stack) <=> BeginsItem(scopes, after)
            /\ Source[x].macro = "define" <=> Innermost(after) = "macro"
            /\ Source[x].forward => Within(after) \in {"none", "macro"}
<1> DEFINE u == Append(t, x)
           n == Len(u)
           line == Source[x]
           read == ReadLine(s, line, n)
           after == DoLine(scopes, line, n)
<1>1. /\ u \in Texts /\ Len(t) \in Nat /\ n = Len(t) + 1 /\ u[Len(t) + 1] = x
  BY MoreText
<1>2. Last(u) = x
  BY <1>1 DEF Last
<1> HIDE DEF u
<1>3. n \in Nat \ {0} /\ n - 1 = Len(t) /\ u[n] = x
  BY <1>1
<1> HIDE DEF n
<1>4. Known(s, t, n - 1)
  BY <1>3
<1>5. line.ns \in Seq(BOOLEAN) /\ Len(line.tokens) \in Nat
  BY LinesMean, Zenon DEF IsLine
<1>6. Known(s, u, n)
  <2>1. Len(t) \in 0..Len(t) /\ Len(t) <= n
    BY <1>1, <1>3
  <2> QED BY <1>3, <2>1, KnownMore DEF u
<1>7. \A b \in read.ended : KnownBlock(b, u, n)
  BY <1>3, <1>5, <1>6, KnownLine
<1>8. /\ OnNamespace(read.stack) /\ IsBelow(s, read.stack) <=> BeginsItem(scopes, after)
      /\ \A b \in read.ended : ChecksIndentation(b) =>
           \/ b.starting_linenum = n
           \/ /\ EndsItem(scopes, after) /\ b.kind = Last(scopes).kind
              /\ b.starting_linenum = Last(scopes).line
      /\ EndsItem(scopes, after) =>
           \E b \in read.ended : /\ ChecksIndentation(b) /\ b.kind = Last(scopes).kind
                                 /\ b.starting_linenum = Last(scopes).line
      /\ EndsItem(scopes, after) /\ IsClass(Last(scopes)) => StartsWithBrace(line)
      /\ \A b \in read.ended : b.kind = "namespace" /\ b.starting_linenum = n => line.closes = "none"
      /\ line.macro = "define" <=> Innermost(after) = "macro"
      /\ line.forward => Within(after) \in {"none", "macro"}
  <2>1. LooksRight(line, s, scopes, n)
    BY <1>3, <1>4, LineLooks
  <2> QED BY <2>1, Zenon DEF LooksRight
<1> HIDE DEF read, after
<1>9. EndsHere(u, scopes, after) <=> EndsItem(scopes, after)
  BY <1>2, Zenon DEF EndsHere
<1>10. Source[Last(u)] = line /\ Len(u) = n /\ n \in Nat
  BY <1>2, <1>3 DEF n
<1> HIDE DEF line
<1>11. EndedAre(read.ended, u, scopes, after)
  BY <1>7, <1>8, <1>9, <1>10, Zenon DEF EndedAre
<1> QED BY <1>8, <1>11, Zenon DEF line, read, after, n, u

(* A directive ends no block.                                              *)
LEMMA NoneEnds ==
  ASSUME NEW t, Len(t) \in Nat, Source[Last(t)].pp # "none", NEW outer, NEW inner
  PROVE  EndedAre({}, t, outer, inner)
BY Zenon DEF EndedAre, EndsHere

-----------------------------------------------------------------------------
(* The entries of one line *)

(* What the last line adds to the layout                                   *)
LEMMA LayoutIs ==
  ASSUME NEW u, NEW t, NEW n
  PROVE  LET line == Source[Last(t)]
             told == UNION {Disallowed(t, b) : b \in {x \in u.ended : IsClass(x)}}
         IN /\ [check |-> "class end", line |-> n] \in Layout(u, t) <=> n = Len(t) /\ Misaligned(u.ended, line)
            /\ [check |-> "namespace end", line |-> n] \in Layout(u, t) <=>
                 n = Len(t) /\ \E b \in u.ended : b.kind = "namespace" /\ Unnamed(t, b)
            /\ [check |-> "disallow", line |-> n] \in Layout(u, t) <=> n \in told
            /\ [check |-> "namespace item", line |-> n] \in Layout(u, t) <=>
                 n = Len(t) /\ ShouldCheckNamespaceIndentation(u.stack, line) /\ line.indent > 0
            /\ \A e \in Layout(u, t) : (e.line = Len(t) /\ e.check # "disallow") \/ e.line \in told
<1> DEFINE line == Source[Last(t)]
           told == UNION {Disallowed(t, b) : b \in {x \in u.ended : IsClass(x)}}
           Here(is) == IF is THEN {Len(t)} ELSE {}
           class == Here(Misaligned(u.ended, line))
           namespace == Here(\E b \in u.ended : b.kind = "namespace" /\ Unnamed(t, b))
           entry == Here(ShouldCheckNamespaceIndentation(u.stack, line) /\ line.indent > 0)
<1>1. Layout(u, t) = Errors("class end", class) \cup Errors("namespace end", namespace)
                       \cup Errors("disallow", told) \cup Errors("namespace item", entry)
  BY DEF Layout
<1>2. /\ n \in class <=> n = Len(t) /\ Misaligned(u.ended, line)
      /\ n \in namespace <=> n = Len(t) /\ \E b \in u.ended : b.kind = "namespace" /\ Unnamed(t, b)
      /\ n \in entry <=> n = Len(t) /\ ShouldCheckNamespaceIndentation(u.stack, line) /\ line.indent > 0
  BY Zenon
<1>3. \A k \in class \cup namespace \cup entry : k = Len(t)
  BY Zenon
<1> HIDE DEF class, namespace, entry, told
<1>4. \A check : [check |-> check, line |-> n] \in Layout(u, t) <=>
        \/ check = "class end" /\ n \in class
        \/ check = "namespace end" /\ n \in namespace
        \/ check = "disallow" /\ n \in told
        \/ check = "namespace item" /\ n \in entry
  <2> TAKE check
  <2> DEFINE e == [check |-> check, line |-> n]
  <2>1. e \in Layout(u, t) <=> \/ e \in Errors("class end", class) \/ e \in Errors("namespace end", namespace)
                               \/ e \in Errors("disallow", told) \/ e \in Errors("namespace item", entry)
    BY <1>1, Zenon
  <2>2. \A other, lines : e \in Errors(other, lines) <=> check = other /\ n \in lines
    BY InErrors
  <2> HIDE DEF e
  <2>3. e \in Layout(u, t) <=> \/ check = "class end" /\ n \in class
                               \/ check = "namespace end" /\ n \in namespace
                               \/ check = "disallow" /\ n \in told
                               \/ check = "namespace item" /\ n \in entry
    BY <2>1, <2>2, Zenon
  <2> QED BY <2>3 DEF e
<1>5. ASSUME NEW e \in Layout(u, t) PROVE (e.line = Len(t) /\ e.check # "disallow") \/ e.line \in told
  <2>1. \A other, lines : e \in Errors(other, lines) => e.check = other /\ e.line \in lines
    BY InErrors
  <2>2. \/ e \in Errors("class end", class) \/ e \in Errors("namespace end", namespace)
        \/ e \in Errors("disallow", told) \/ e \in Errors("namespace item", entry)
    BY <1>1, <1>5, Zenon
  <2>3. \/ e.check \in {"class end", "namespace end", "namespace item"} /\ e.line \in class \cup namespace \cup entry
        \/ e.line \in told
    BY <2>1, <2>2
  <2> QED BY <1>3, <2>3
<1>6. [check |-> "class end", line |-> n] \in Layout(u, t) <=> n \in class
  <2> DEFINE e == [check |-> "class end", line |-> n]
  <2>1. e \in Layout(u, t) <=> \/ "class end" = "class end" /\ n \in class
                               \/ "class end" = "namespace end" /\ n \in namespace
                               \/ "class end" = "disallow" /\ n \in told
                               \/ "class end" = "namespace item" /\ n \in entry
    BY <1>4, Zenon
  <2> HIDE DEF e
  <2>2. e \in Layout(u, t) <=> n \in class
    BY <2>1
  <2> QED BY <2>2 DEF e
<1>7. [check |-> "namespace end", line |-> n] \in Layout(u, t) <=> n \in namespace
  <2> DEFINE e == [check |-> "namespace end", line |-> n]
  <2>1. e \in Layout(u, t) <=> \/ "namespace end" = "class end" /\ n \in class
                               \/ "namespace end" = "namespace end" /\ n \in namespace
                               \/ "namespace end" = "disallow" /\ n \in told
                               \/ "namespace end" = "namespace item" /\ n \in entry
    BY <1>4, Zenon
  <2> HIDE DEF e
  <2>2. e \in Layout(u, t) <=> n \in namespace
    BY <2>1
  <2> QED BY <2>2 DEF e
<1>8. [check |-> "disallow", line |-> n] \in Layout(u, t) <=> n \in told
  <2> DEFINE e == [check |-> "disallow", line |-> n]
  <2>1. e \in Layout(u, t) <=> \/ "disallow" = "class end" /\ n \in class
                               \/ "disallow" = "namespace end" /\ n \in namespace
                               \/ "disallow" = "disallow" /\ n \in told
                               \/ "disallow" = "namespace item" /\ n \in entry
    BY <1>4, Zenon
  <2> HIDE DEF e
  <2>2. e \in Layout(u, t) <=> n \in told
    BY <2>1
  <2> QED BY <2>2 DEF e
<1>9. [check |-> "namespace item", line |-> n] \in Layout(u, t) <=> n \in entry
  <2> DEFINE e == [check |-> "namespace item", line |-> n]
  <2>1. e \in Layout(u, t) <=> \/ "namespace item" = "class end" /\ n \in class
                               \/ "namespace item" = "namespace end" /\ n \in namespace
                               \/ "namespace item" = "disallow" /\ n \in told
                               \/ "namespace item" = "namespace item" /\ n \in entry
    BY <1>4, Zenon
  <2> HIDE DEF e
  <2>2. e \in Layout(u, t) <=> n \in entry
    BY <2>1
  <2> QED BY <2>2 DEF e
<1> QED BY <1>2, <1>5, <1>6, <1>7, <1>8, <1>9, Zenon DEF line, told

(* Its entries are on lines of the text, and code follows a macro.         *)
LEMMA NewEntries ==
  ASSUME NEW u, NEW t, NEW outer, NEW inner, EndedAre(u.ended, t, outer, inner), Len(t) \in Nat \ {0}
  PROVE  EntriesOf(t, Layout(u, t))
<1> DEFINE told == UNION {Disallowed(t, b) : b \in {x \in u.ended : IsClass(x)}}
<1>1. \A i \in told : i \in 1..Len(t) /\ CodeFollows(t, i)
  BY DisallowEnds
<1>2. \A e \in Layout(u, t) : (e.line = Len(t) /\ e.check # "disallow") \/ e.line \in told
  BY LayoutIs
<1>3. Len(t) \in 1..Len(t)
  OBVIOUS
<1> HIDE DEF told
<1> QED BY <1>1, <1>2, <1>3, Zenon DEF EntriesOf

(* A line that is no directive is told not to be indented in a namespace.  *)
LEMMA ItemTold ==
  ASSUME NEW line, line.pp = "none", NEW s, NEW after, Fit(s, after), MacrosGoOn, text = <<>> => Innermost(nest) # "macro",
         OnNamespace(s) /\ IsBelow(stack, s) <=> BeginsItem(nest, after),
         line.macro = "define" <=> Innermost(after) = "macro",
         line.forward => Within(after) \in {"none", "macro"}
  PROVE  ShouldCheckNamespaceIndentation(s, line) <=>
           /\ "macro" \notin {Innermost(nest), Innermost(after)}
           /\ IF line.forward THEN InNamespace(after) ELSE BeginsItem(nest, after)
<1>1. ~Copied(line)
  BY DEF Copied
<1>2. OnNamespace(s) /\ PreviousTopIsBelow(s, line) <=> BeginsItem(nest, after)
  BY <1>1, Zenon DEF PreviousTopIsBelow
<1>3. IsMacroDefinition(line) <=> Innermost(after) = "macro" \/ Innermost(nest) = "macro"
  BY Zenon DEF IsMacroDefinition, MacrosGoOn
<1>4. ShouldCheckNamespaceIndentation(s, line) <=>
        /\ BeginsItem(nest, after) \/ line.forward
        /\ "macro" \notin {Innermost(nest), Innermost(after)}
        /\ IF line.forward THEN Top(s).kind = "namespace" ELSE OnNamespace(s)
  BY <1>2, <1>3, Zenon DEF ShouldCheckNamespaceIndentation
<1>5. CASE line.forward /\ Innermost(after) # "macro"
  <2>1. Within(after) = "none"
    <3>1. ASSUME Within(after) = "macro" PROVE FALSE
      <4>1. after # <<>> /\ Last(after).kind = "macro"
        BY <3>1, Zenon DEF Within
      <4>2. Last(after).braced = TRUE
        BY <3>1, Zenon DEF Fit, Matches
      <4>3. Innermost(after) = Last(after).kind
        BY <4>1, <4>2, Zenon DEF Innermost
      <4> QED BY <1>5, <4>1, <4>3
    <3> QED BY <1>5, <3>1
  <2>2. Top(s).kind = "namespace" <=> InNamespace(after)
    BY <2>1, TopFits
  <2> QED BY <1>4, <1>5, <2>2, Zenon
<1>6. CASE ~line.forward
  <2>1. BeginsItem(nest, after) => OnNamespace(s)
    BY <1>2
  <2> QED BY <1>4, <1>6, <2>1, Zenon
<1>7. CASE line.forward /\ Innermost(after) = "macro"
  BY <1>4, <1>7, Zenon
<1> QED BY <1>5, <1>6, <1>7, Zenon

(* A directive is not.                                                     *)
LEMMA DirectiveTold ==
  ASSUME NEW line, IsDirective(line), NEW s, Copied(line) \/ Len(s) = Len(stack), Len(stack) \in Nat
  PROVE  ~ShouldCheckNamespaceIndentation(s, line)
<1>1. ~line.forward
  BY Zenon DEF IsDirective
<1>2. ~PreviousTopIsBelow(s, line)
  BY DEF PreviousTopIsBelow, IsBelow
<1> QED BY <1>1, <1>2, Zenon DEF ShouldCheckNamespaceIndentation

-----------------------------------------------------------------------------
(* One more line *)

(* The stack is what is left of one of the starts of the text, the line    *)
(* read.                                                                   *)
LEMMA ReadFromStart ==
  ASSUME SourceInv, LayoutInv, NEW x \in DOMAIN Source, Innermost(nest) \in Source[x].where
  PROVE  LET t == Append(text, x)
         IN /\ Known(StackOf(t), t, Len(t))
            /\ Source[x].pp # "none" => Innermost(nest) # "macro" /\ Innermost(Nest(t)) # "macro"
<1> DEFINE t == Append(text, x)
           s == [stack |-> stack, pp_stack |-> pp_stack]
           line == Source[x]
<1>1. /\ text \in Texts /\ stack = StackOf(text) /\ HasCheckpoints(text, pp_stack)
      /\ nest = Nest(text) /\ InNoMacro(text) /\ KnownStarts(text)
  BY Zenon DEF NestInv, SourceInv, LayoutInv
<1>2. s.pp_stack = pp_stack /\ s = [stack |-> StackOf(text), pp_stack |-> s.pp_stack]
  BY <1>1
<1> HIDE DEF s
<1>3. PICK a : IsBehind(t, a) /\ (a = Len(text) \/ Source[text[a + 1]].pp # "none")
  BY <1>1, <1>2, UpdatePreprocessorIsRight
<1>4. /\ t \in Texts /\ Len(text) \in Nat /\ Len(t) = Len(text) + 1 /\ t[Len(text) + 1] = x /\ t # <<>>
      /\ \A n \in 0..Len(text) : Start(t, n) = Start(text, n)
  BY <1>1, MoreText
<1>5. line.ns \in Seq(BOOLEAN) /\ Len(line.tokens) \in Nat
  BY LinesMean, Zenon DEF IsLine
<1> HIDE DEF t
<1>6. t[Len(t)] = x
  BY <1>4
<1>7. /\ StackOf(t) = ReadLine(StackOf(Start(t, a)), line, Len(t)).stack
      /\ Nest(t) = DoLine(Nest(Start(t, a)), line, Len(t))
  BY <1>3, <1>4, <1>6, ReadLast
<1>8. /\ a \in 0..Len(text) /\ Start(t, a) = Start(text, a) /\ a <= Len(t)
      /\ a # Len(text) => a \in 0..(Len(text) - 1)
      /\ Len(t) \in Nat \ {0}
  BY <1>3, <1>4 DEF IsBehind
<1>9. Known(StackOf(t), t, Len(t))
  <2>1. Known(StackOf(Start(text, a)), text, a)
    BY <1>1, <1>8, Zenon DEF KnownStarts
  <2>2. Known(StackOf(Start(text, a)), t, Len(t))
    BY <1>1, <1>8, <2>1, KnownMore DEF t
  <2> HIDE DEF line
  <2>3. line = Source[t[Len(t)]]
    BY <1>6 DEF line
  <2>4. Known(ReadLine(StackOf(Start(text, a)), line, Len(t)).stack, t, Len(t))
    BY <1>5, <1>8, <2>2, <2>3, KnownLine
  <2> QED BY <1>7, <1>8, <2>4
<1>10. ASSUME line.pp # "none" PROVE Innermost(nest) # "macro" /\ Innermost(Nest(t)) # "macro"
  <2>1. IsDirective(line)
    BY <1>10, LinesLook
  <2>2. Innermost(nest) # "macro"
    BY <2>1, Zenon DEF IsDirective
  <2>3. IsSequence(StackOf(t))
    BY <1>9 DEF Known
  <2>4. Nest(t) = Nest(Start(text, a))
    BY <1>7, <1>8, <2>1, <2>3, DirectiveLine
  <2>5. CASE a = Len(text)
    BY <1>1, <2>2, <2>4, <2>5, WholeText
  <2>6. CASE a # Len(text)
    <3>1. Source[text[a + 1]].pp # "none" /\ a \in 0..(Len(text) - 1)
      BY <1>3, <1>8, <2>6
    <3> QED BY <1>1, <2>2, <2>4, <3>1, Zenon DEF InNoMacro
  <2> QED BY <2>2, <2>5, <2>6
<1> QED BY <1>9, <1>10 DEF t

(* What the layout of the line says, and what it means                     *)
ItemIs(s, line, outer, inner) ==
  ShouldCheckNamespaceIndentation(s, line) <=>
    /\ line.pp = "none" /\ "macro" \notin {Innermost(outer), Innermost(inner)}
    /\ IF line.forward THEN InNamespace(inner) ELSE BeginsItem(outer, inner)

LEMMA ReadOneMore ==
  ASSUME SourceInv, LayoutInv, NEW x \in DOMAIN Source, Innermost(nest) \in Source[x].where
  PROVE  LET t == Append(text, x)
             u == Updated([stack |-> stack, pp_stack |-> pp_stack], Source[x], Len(text) + 1)
         IN /\ EndedAre(u.ended, t, nest, Nest(t))
            /\ ItemIs(u.stack, Source[x], nest, Nest(t))
            /\ Source[x].macro = "define" <=> Innermost(Nest(t)) = "macro"
<1> DEFINE t == Append(text, x)
           s == [stack |-> stack, pp_stack |-> pp_stack]
           line == Source[x]
           kept == UpdatePreprocessor(s, line).stack
           read == ReadLine(kept, line, Len(text) + 1)
           u == Updated(s, line, Len(text) + 1)
<1>1. u.stack = read.stack /\ u.ended = read.ended
  <2>1. u = [stack |-> read.stack, pp_stack |-> UpdatePreprocessor(s, line).pp_stack, ended |-> read.ended]
    BY Zenon DEF Updated
  <2> HIDE DEF u, read
  <2> QED BY <2>1
<1>2. /\ text \in Texts /\ stack = StackOf(text) /\ NestInv /\ NestMatches(text) /\ AsmLinesSkipped
      /\ nest = Nest(text) /\ KnownStarts(text) /\ MacrosGoOn
  BY Zenon DEF NestInv, SourceInv, LayoutInv
<1>3. Len(text) \in 0..Len(text) /\ Start(text, Len(text)) = text
  BY <1>2, WholeText
<1>4. Fit(stack, nest) /\ Known(stack, text, Len(text))
  BY <1>2, <1>3, Zenon DEF NestMatches, KnownStarts
<1>5. Fit(StackOf(t), Nest(t)) /\ StackOf(t) = read.stack
  <2>1. NestMatches(t)
    BY <1>2, LineKeepsNest
  <2>2. t \in Texts
    BY <1>2, MoreText
  <2>3. Len(t) \in 0..Len(t) /\ Start(t, Len(t)) = t
    BY <2>2, WholeText
  <2>4. Fit(StackOf(t), Nest(t))
    BY <2>1, <2>3, Zenon DEF NestMatches
  <2>5. HasCheckpoints(text, s.pp_stack) /\ s = [stack |-> StackOf(text), pp_stack |-> s.pp_stack]
    BY <1>2 DEF NestInv
  <2> HIDE DEF s
  <2>6. StackOf(t) = read.stack
    BY <1>2, <2>5, UpdatePreprocessorIsRight
  <2> QED BY <2>4, <2>6
<1>6. Len(text) \in Nat /\ Len(t) = Len(text) + 1 /\ Last(t) = x
  <2>1. /\ Len(text) \in Nat /\ Len(t) = Len(text) + 1 /\ t[Len(text) + 1] = x
    BY <1>2, MoreText
  <2> HIDE DEF t
  <2> QED BY <2>1 DEF Last
<1>7. IsSequence(stack) /\ Len(stack) \in Nat
  BY <1>4, EmptyIs DEF Fit
<1>8. CASE line.pp = "none"
  <2>1. kept = stack
    <3>1. ~Copied(line)
      BY <1>8 DEF Copied
    <3> QED BY <3>1, NotCopied
  <2>2. Nest(t) = DoLine(nest, line, Len(t))
    BY <1>2, <1>8, LineKeepsNest
  <2>3. read = ReadLine(stack, line, Len(t))
    BY <1>6, <2>1
  <2> HIDE DEF read, kept
  <2>4. /\ EndedAre(read.ended, t, nest, Nest(t))
        /\ OnNamespace(read.stack) /\ IsBelow(stack, read.stack) <=> BeginsItem(nest, Nest(t))
        /\ line.macro = "define" <=> Innermost(Nest(t)) = "macro"
        /\ line.forward => Within(Nest(t)) \in {"none", "macro"}
    BY <1>2, <1>4, <1>8, <2>2, <2>3, LineEnds, Zenon
  <2>5. text = <<>> => Innermost(nest) # "macro"
    <3>1. Innermost(<<>>) = "file"
      BY Zenon DEF Innermost
    <3> QED BY <1>2, <3>1, NothingRead
  <2> HIDE DEF t, line, u
  <2>6. ShouldCheckNamespaceIndentation(read.stack, line) <=>
          /\ "macro" \notin {Innermost(nest), Innermost(Nest(t))}
          /\ IF line.forward THEN InNamespace(Nest(t)) ELSE BeginsItem(nest, Nest(t))
    <3>1. Fit(read.stack, Nest(t))
      BY <1>5
    <3> QED BY <1>2, <1>8, <2>4, <2>5, <3>1, ItemTold, Zenon
  <2>7. ItemIs(read.stack, line, nest, Nest(t))
    BY <1>8, <2>6, Zenon DEF ItemIs
  <2> QED BY <1>1, <2>4, <2>7 DEF t, line, u, s
<1>9. CASE line.pp # "none"
  <2>1. IsDirective(line)
    BY <1>9, LinesLook
  <2>2. Innermost(Nest(t)) # "macro"
    BY <1>9, ReadFromStart
  <2>3. line.macro # "define"
    BY <2>1 DEF IsDirective
  <2> HIDE DEF s, line, kept
  <2>5. read.ended = {} /\ (IsSequence(kept) => Len(read.stack) = Len(kept))
    BY <2>1, DirectiveLine
  <2>6. ~ShouldCheckNamespaceIndentation(read.stack, line)
    <3>1. ~Copied(line) => kept = stack
      BY NotCopied DEF kept, s
    <3>2. Copied(line) \/ Len(read.stack) = Len(stack)
      BY <1>7, <2>5, <3>1
    <3> HIDE DEF read
    <3> QED BY <1>7, <2>1, <3>2, DirectiveTold
  <2> HIDE DEF read
  <2>7. ItemIs(read.stack, line, nest, Nest(t))
    BY <1>9, <2>6, Zenon DEF ItemIs
  <2>8. EndedAre(read.ended, t, nest, Nest(t))
    <3>1. Len(t) \in Nat /\ Source[Last(t)].pp # "none"
      BY <1>6, <1>9 DEF line
    <3> HIDE DEF t
    <3> QED BY <2>5, <3>1, NoneEnds
  <2> HIDE DEF t, u
  <2> QED BY <1>1, <2>2, <2>3, <2>7, <2>8 DEF t, line, u, s
<1> QED BY <1>8, <1>9

(* What is known of the starts of a text                                   *)
LEMMA StartsKnown ==
  ASSUME SourceInv, LayoutInv, NEW x \in DOMAIN Source, Innermost(nest) \in Source[x].where
  PROVE  InNoMacro(Append(text, x)) /\ KnownStarts(Append(text, x))
<1> DEFINE t == Append(text, x)
<1>1. /\ text \in Texts /\ nest = Nest(text) /\ InNoMacro(text) /\ KnownStarts(text)
  BY Zenon DEF NestInv, SourceInv, LayoutInv
<1>2. Known(StackOf(t), t, Len(t)) /\ (Source[x].pp # "none" => Innermost(nest) # "macro")
  BY ReadFromStart
<1>3. ASSUME NEW n \in 0..Len(text) PROVE Known(StackOf(Start(text, n)), t, n)
  <2>1. Known(StackOf(Start(text, n)), text, n)
    BY <1>1, Zenon DEF KnownStarts
  <2>2. n \in Nat /\ n <= n
    BY <1>1 DEF Texts
  <2> QED BY <1>1, <2>1, <2>2, KnownMore
<1>4. /\ t \in Texts /\ Len(text) \in Nat /\ Len(t) = Len(text) + 1 /\ t[Len(text) + 1] = x
      /\ \A n \in 0..Len(text) : Start(t, n) = Start(text, n)
  BY <1>1, MoreText
<1>5. \A n \in 1..Len(text) : t[n] = text[n]
  BY <1>1 DEF Texts
<1> HIDE DEF t
<1>6. Start(t, Len(t)) = t /\ Start(text, Len(text)) = text
  BY <1>1, <1>4, WholeText
<1>7. KnownStarts(t)
  <2>1. ASSUME NEW n \in 0..Len(t) PROVE Known(StackOf(Start(t, n)), t, n)
    <3>1. CASE n = Len(t)
      BY <1>2, <1>6, <3>1
    <3>2. CASE n # Len(t)
      <4>1. n \in 0..Len(text) /\ Start(t, n) = Start(text, n)
        BY <1>4, <3>2
      <4> QED BY <1>3, <4>1
    <3> QED BY <3>1, <3>2
  <2> QED BY <2>1, Zenon DEF KnownStarts
<1>8. InNoMacro(t)
  <2>1. ASSUME NEW n \in 0..(Len(t) - 1), Source[t[n + 1]].pp # "none"
        PROVE  Innermost(Nest(Start(t, n))) # "macro"
    <3>1. n \in 0..Len(text) /\ Start(t, n) = Start(text, n)
      BY <1>4
    <3>2. CASE n = Len(text)
      <4>1. Source[x].pp # "none"
        BY <1>4, <2>1, <3>2
      <4> QED BY <1>1, <1>2, <1>6, <3>1, <3>2, <4>1
    <3>3. CASE n # Len(text)
      <4>1. n \in 0..(Len(text) - 1) /\ n + 1 \in 1..Len(text)
        BY <1>4, <3>1, <3>3
      <4>2. Source[text[n + 1]].pp # "none"
        BY <1>5, <2>1, <4>1
      <4> QED BY <1>1, <3>1, <4>1, <4>2, Zenon DEF InNoMacro
    <3> QED BY <3>2, <3>3
  <2> QED BY <2>1, Zenon DEF InNoMacro
<1> QED BY <1>7, <1>8 DEF t

(* What is reported of a text whose layout has these entries               *)
IsReported(t, entries, outer, inner) ==
  LET line == Source[Last(t)]
      start == Source[t[Last(outer).line]]
      ends == line.pp = "none" /\ Inside(outer, inner)
  IN /\ [check |-> "namespace item", line |-> Len(t)] \in entries <=>
          /\ line.pp = "none" /\ line.indent > 0
          /\ "macro" \notin {Innermost(outer), Innermost(inner)}
          /\ IF line.forward THEN InNamespace(inner) ELSE BeginsItem(outer, inner)
     /\ [check |-> "class end", line |-> Len(t)] \in entries <=>
          ends /\ IsClass(Last(outer)) /\ line.indent # start.indent
     /\ [check |-> "namespace end", line |-> Len(t)] \in entries <=>
          /\ ends /\ Last(outer).kind = "namespace"
          /\ line.closes # start.name
          /\ line.closes = "none" => Distance(t, Last(outer).line, Len(t)) >= 10
     /\ ends /\ IsClass(Last(outer)) =>
          \A i \in MacrosOf(t, Last(outer).line) :
            (\A j \in MacrosOf(t, Last(outer).line) : j <= i) =>
              ([check |-> "disallow", line |-> i] \in entries <=> CodeFollows(t, i))

LEMMA ReportedOn ==
  ASSUME NEW t, NEW u, NEW outer, NEW inner, EndedAre(u.ended, t, outer, inner),
         ItemIs(u.stack, Source[Last(t)], outer, inner),
         NEW old, \A e \in old : e.line # Len(t), EntriesOf(t, old \cup Layout(u, t))
  PROVE  IsReported(t, old \cup Layout(u, t), outer, inner)
<1> DEFINE line == Source[Last(t)]
           start == Source[t[Last(outer).line]]
           ends == line.pp = "none" /\ Inside(outer, inner)
           told == UNION {Disallowed(t, b) : b \in {x \in u.ended : IsClass(x)}}
           entries == old \cup Layout(u, t)
           n == Len(t)
<1>1. \A check : [check |-> check, line |-> n] \notin old
  BY Zenon
<1>2. \A e : e \notin old => (e \in entries <=> e \in Layout(u, t))
  BY Zenon
<1>3. \A e : e \in Layout(u, t) => e \in entries
  BY Zenon
<1> HIDE DEF entries
<1>4. [check |-> "namespace item", line |-> n] \in entries <=>
        ShouldCheckNamespaceIndentation(u.stack, line) /\ line.indent > 0
  BY <1>1, <1>2, LayoutIs, Zenon
<1>5. [check |-> "class end", line |-> n] \in entries <=> Misaligned(u.ended, line)
  BY <1>1, <1>2, LayoutIs, Zenon
<1>6. [check |-> "namespace end", line |-> n] \in entries <=>
        \E b \in u.ended : b.kind = "namespace" /\ Unnamed(t, b)
  BY <1>1, <1>2, LayoutIs, Zenon
<1>7. Misaligned(u.ended, line) <=> ends /\ IsClass(Last(outer)) /\ line.indent # start.indent
  BY ClassEnds, Zenon
<1>8. (\E b \in u.ended : b.kind = "namespace" /\ Unnamed(t, b)) <=>
           /\ ends /\ Last(outer).kind = "namespace"
           /\ line.closes # start.name
           /\ line.closes = "none" => Distance(t, Last(outer).line, n) >= 10
  BY NamespaceEnds, Zenon
<1>9. ASSUME ends, IsClass(Last(outer)), NEW i \in MacrosOf(t, Last(outer).line),
             \A j \in MacrosOf(t, Last(outer).line) : j <= i
      PROVE  [check |-> "disallow", line |-> i] \in entries <=> CodeFollows(t, i)
  <2>1. EndsHere(t, outer, inner)
    BY <1>9, Zenon DEF EndsHere, EndsItem, ChecksIndentation
  <2>2. CodeFollows(t, i) => i \in told
    BY <1>9, <2>1, DisallowEnds, Zenon
  <2>3. i \in told => [check |-> "disallow", line |-> i] \in entries
    BY <1>3, LayoutIs, Zenon
  <2> DEFINE e == [check |-> "disallow", line |-> i]
  <2>4. e.check = "disallow" /\ e.line = i
    BY Zenon
  <2>5. e \in entries => CodeFollows(t, i)
    <3> HIDE DEF e
    <3> QED BY <2>4, Zenon DEF EntriesOf, entries
  <2> QED BY <2>2, <2>3, <2>5, Zenon
<1>10. ShouldCheckNamespaceIndentation(u.stack, line) <=>
         /\ line.pp = "none" /\ "macro" \notin {Innermost(outer), Innermost(inner)}
         /\ IF line.forward THEN InNamespace(inner) ELSE BeginsItem(outer, inner)
  BY Zenon DEF ItemIs
<1> HIDE DEF line, start, ends, n
<1>11. [check |-> "namespace item", line |-> n] \in entries <=>
          /\ line.pp = "none" /\ line.indent > 0
          /\ "macro" \notin {Innermost(outer), Innermost(inner)}
          /\ IF line.forward THEN InNamespace(inner) ELSE BeginsItem(outer, inner)
  BY <1>4, <1>10, Zenon
<1>12. [check |-> "class end", line |-> n] \in entries <=>
          ends /\ IsClass(Last(outer)) /\ line.indent # start.indent
  BY <1>5, <1>7, Zenon
<1>13. [check |-> "namespace end", line |-> n] \in entries <=>
           /\ ends /\ Last(outer).kind = "namespace"
           /\ line.closes # start.name
           /\ line.closes = "none" => Distance(t, Last(outer).line, n) >= 10
  BY <1>6, <1>8, Zenon
<1> QED BY <1>9, <1>11, <1>12, <1>13, Zenon DEF IsReported, line, start, ends, n, entries

(* The old entries are on lines in front of the new one, and still true.   *)
LEMMA OldEntries ==
  ASSUME NEW t \in Texts, NEW x \in DOMAIN Source, NEW old, EntriesOf(t, old), NEW new, EntriesOf(Append(t, x), new)
  PROVE  /\ EntriesOf(Append(t, x), old \cup new)
         /\ \A e \in old : e.line # Len(Append(t, x))
<1> DEFINE u == Append(t, x)
<1>1. /\ Len(t) \in Nat /\ Len(u) = Len(t) + 1 /\ \A n \in 1..Len(t) : u[n] = t[n]
  BY DEF Texts
<1> HIDE DEF u
<1>2. \A e \in old : e.line \in 1..Len(t) /\ (e.check = "disallow" => CodeFollows(t, e.line))
  BY Zenon DEF EntriesOf
<1>3. ASSUME NEW i \in 1..Len(t), CodeFollows(t, i) PROVE CodeFollows(u, i)
  <2>1. PICK j \in (i + 1)..(Len(t) - 1) : Source[t[j]].code = "code"
    BY <1>3 DEF CodeFollows
  <2>2. j \in 1..Len(t) /\ j \in (i + 1)..(Len(u) - 1)
    BY <1>1
  <2>3. Source[u[j]].code = "code"
    BY <1>1, <2>1, <2>2
  <2> QED BY <2>2, <2>3, Zenon DEF CodeFollows
<1>4. \A n \in 1..Len(t) : n \in 1..Len(u) /\ n # Len(u)
  BY <1>1
<1>5. \A e \in old : e.line \in 1..Len(u) /\ (e.check = "disallow" => CodeFollows(u, e.line))
  BY <1>2, <1>3, <1>4
<1>6. \A e \in new : e.line \in 1..Len(u) /\ (e.check = "disallow" => CodeFollows(u, e.line))
  BY Zenon DEF EntriesOf, u
<1>7. EntriesOf(u, old \cup new)
  BY <1>5, <1>6, Zenon DEF EntriesOf
<1>8. \A e \in old : e.line # Len(u)
  BY <1>2, <1>4
<1> QED BY <1>7, <1>8 DEF u

LEMMA WriteKeepsLayout ==
  ASSUME SourceInv, LayoutInv, WriteLine, SourceInv'
  PROVE  LayoutInv'
<1>1. PICK x \in NextLines : Innermost(nest) \in Source[x].where /\ Update(x)
  BY Zenon DEF WriteLine
<1>2. x \in DOMAIN Source
  BY AlphabetsAssumption DEF NextLines
<1> DEFINE t == Append(text, x)
           u == Updated([stack |-> stack, pp_stack |-> pp_stack], Source[x], Len(text) + 1)
<1>3. before' = nest /\ text' = t /\ layout' = layout \cup Layout(u, t)
  BY <1>1, Zenon DEF WriteLine, Update
<1>4. nest' = Nest(t)
  BY <1>3, Zenon DEF SourceInv
<1>5. /\ EndedAre(u.ended, t, nest, Nest(t))
      /\ ItemIs(u.stack, Source[x], nest, Nest(t))
      /\ Source[x].macro = "define" <=> Innermost(Nest(t)) = "macro"
  BY <1>1, <1>2, ReadOneMore
<1> HIDE DEF u
<1>6. InNoMacro(t) /\ KnownStarts(t)
  BY <1>1, <1>2, StartsKnown
<1>7. text \in Texts /\ EntriesOf(text, layout)
  BY DEF SourceInv, NestInv, LayoutInv
<1>8. Last(t) = x /\ Len(t) \in Nat \ {0} /\ t # <<>>
  <2>1. Len(text) \in Nat /\ Len(t) = Len(text) + 1 /\ t[Len(text) + 1] = x /\ t # <<>>
    BY <1>2, <1>7, MoreText
  <2> HIDE DEF t
  <2> QED BY <2>1 DEF Last
<1>9. EntriesOf(t, Layout(u, t))
  BY <1>5, <1>8, NewEntries
<1>10. EntriesOf(t, layout \cup Layout(u, t)) /\ \A e \in layout : e.line # Len(t)
  BY <1>2, <1>7, <1>9, OldEntries
<1> HIDE DEF t
<1>11. IsReported(t, layout', nest, Nest(t))
  <2>1. ItemIs(u.stack, Source[Last(t)], nest, Nest(t))
    BY <1>5, <1>8
  <2> QED BY <1>3, <1>5, <1>10, <2>1, ReportedOn
<1>12. LayoutReported'
  <2>1. IsReported(text', layout', before', nest')
    BY <1>3, <1>4, <1>11
  <2> QED BY <2>1, Zenon DEF IsReported, LayoutReported, LayoutError, LayoutErrorOn, Ended, Disallows, MacrosOf, CodeFollows
<1>13. MacrosGoOn'
  <2>1. Source[Last(t)].macro = "define" <=> Innermost(Nest(t)) = "macro"
    BY <1>5, <1>8
  <2> QED BY <1>3, <1>4, <2>1, Zenon DEF MacrosGoOn
<1>14. InNoMacro(text)' /\ KnownStarts(text)' /\ EntriesOf(text, layout)'
  BY <1>3, <1>6, <1>10
<1> QED BY <1>12, <1>13, <1>14, Zenon DEF LayoutInv

LEMMA LayoutInvHolds == SourceSpec => []LayoutInv
<1>1. SourceInit => LayoutInv
  <2> SUFFICES ASSUME SourceInit PROVE LayoutInv
    OBVIOUS
  <2>1. text = <<>> /\ layout = {}
    BY DEF SourceInit, Init
  <2>2. LayoutReported /\ MacrosGoOn
    BY <2>1, Zenon DEF LayoutReported, MacrosGoOn
  <2>3. EntriesOf(text, layout)
    BY <2>1, Zenon DEF EntriesOf
  <2>4. Len(<<>>) = 0 /\ IsSequence(<<>>) /\ <<>> \in Texts
    BY EmptyIs, EmptySeq DEF Texts
  <2>5. InNoMacro(<<>>)
    <3>1. \A n \in 0..(Len(<<>>) - 1) : FALSE
      BY <2>4
    <3> QED BY <3>1, Zenon DEF InNoMacro
  <2>6. KnownStarts(<<>>)
    <3>1. \A n \in 0..Len(<<>>) : Start(<<>>, n) = <<>>
      <4>1. \A n \in 0..Len(<<>>) : n = Len(<<>>)
        BY <2>4
      <4> QED BY <2>4, <4>1, WholeText
    <3>2. ASSUME NEW n PROVE Known(<<>>, <<>>, n)
      <4>1. \A i \in 1..Len(<<>>) : FALSE
        BY <2>4
      <4> QED BY <2>4, <4>1, Zenon DEF Known
    <3> QED BY <3>1, <3>2, NothingRead, Zenon DEF KnownStarts
  <2> QED BY <2>1, <2>2, <2>3, <2>5, <2>6, Zenon DEF LayoutInv
<1>2. SourceInv /\ SourceInv' /\ LayoutInv /\ [SourceNext]_<<vars, nest, before, item>> => LayoutInv'
  <2> SUFFICES ASSUME SourceInv, SourceInv', LayoutInv, [SourceNext]_<<vars, nest, before, item>> PROVE LayoutInv'
    OBVIOUS
  <2>1. CASE WriteLine
    BY <2>1, WriteKeepsLayout
  <2>2. CASE UNCHANGED <<text, layout, nest, before>>
    <3>1. MacrosGoOn'
      BY <2>2, Zenon DEF LayoutInv, MacrosGoOn
    <3>2. InNoMacro(text)' /\ KnownStarts(text)' /\ EntriesOf(text, layout)'
      BY <2>2 DEF LayoutInv
    <3>3. LayoutReported'
      BY <2>2, Zenon DEF LayoutInv, LayoutReported, LayoutError, LayoutErrorOn, Ended, Disallows
    <3> QED BY <3>1, <3>2, <3>3, Zenon DEF LayoutInv
  <2>3. EndOfText => UNCHANGED <<text, layout, nest, before>>
    BY Zenon DEF EndOfText, CheckCompletedBlocks
  <2>4. WriteDeclaration => UNCHANGED <<vars, nest, before>>
    BY Zenon DEF WriteDeclaration
  <2>5. \/ UNCHANGED <<vars, nest, before>> \/ UNCHANGED <<vars, nest, before, item>>
        => UNCHANGED <<text, layout, nest, before>>
    BY DEF vars
  <2> QED BY <2>1, <2>2, <2>3, <2>4, <2>5, Zenon DEF SourceNext
<1> QED BY <1>1, <1>2, SourceInvHolds, PTL DEF SourceSpec

(* Whatever conditionals are around it, what is told of the indentation in *)
(* a namespace, of the end of a class and of a namespace and of the last   *)
(* DISALLOW macro of a class is what the text means, in every such text    *)
(* (CheckForNamespaceIndentation, _ClassInfo.CheckEnd,                     *)
(* _NamespaceInfo.CheckEnd).                                               *)
THEOREM LayoutIsReported == SourceSpec => []LayoutReported
<1>1. LayoutInv => LayoutReported
  BY DEF LayoutInv
<1> QED BY <1>1, LayoutInvHolds, PTL
===============================================================================

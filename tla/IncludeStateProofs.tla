-------------------------- MODULE IncludeStateProofs --------------------------
(***************************************************************************)
(* Theorems about IncludeState, for every set of headers and files of      *)
(* every length: which includes are reported as out of order, and which    *)
(* are remembered when the next one is checked and at the end.             *)
(***************************************************************************)
EXTENDS IncludeState, SequenceTheorems, FiniteSetTheorems, TLAPS

-----------------------------------------------------------------------------
(* Why the order is what it is                                             *)

(* The includes that have taken their place since the last directive *)
Open == {m \in 1..Len(text) : /\ Placed(m)
                              /\ \A k \in m..Len(text) : text[k] \notin Directives}

OpenAhead == {m \in Open : Type(m) = "other" \/ (Mine(m) /\ \E k \in Since(m) : ~Mine(k))}

(* _section tells the latest group among them *)
SectionInv ==
  /\ section \in INITIAL_SECTION..OTHER_H_SECTION
  /\ section = OTHER_H_SECTION <=> OpenAhead # {}
  /\ OpenAhead = {} =>
       /\ section = CPP_SECTION <=> \E m \in Open : Type(m) = "c++ system"
       /\ section <= MY_H_SECTION <=> \A m \in Open : Mine(m)

(* Each include is reported on its own line.                               *)
LinesInv ==
  \A r \in reports : r.check \in {"order", "duplicate"} => r.line \in 1..Len(text)

(* The inductive invariant: the section and every report follow from the   *)
(* lines so far                                                            *)
OrderInv ==
  /\ text \in Seq(Headers \cup Directives \cup {"code"})
  /\ LinesInv
  /\ SectionInv
  /\ OrderReported

-----------------------------------------------------------------------------
(* Why the includes that count are remembered                              *)

(* An include is kept until an #else before the next #if                   *)
Kept(m) == Placed(m) /\ ~OtherBranch(m, Linenum)
KeptAfter(ifs) == {m \in 1..Len(text) : Kept(m) /\ Ifs(m) = ifs}
Item(m) == [header |-> text[m], line |-> m]

(* There is a list for every #if, with what is kept since that #if         *)
ListsInv ==
  /\ include_list \in Seq(Seq([header : Headers, line : Nat]))
  /\ Len(include_list) = Ifs(Linenum) + 1
  /\ \A j \in 1..Len(include_list) : ToSet(include_list[j]) = {Item(m) : m \in KeptAfter(j - 1)}

DuplicatesInv ==
  \A n \in 1..Len(text) : Ordinary(n) =>
    (Reported("duplicate", n) <=>
       \E m \in 1..(n - 1) : text[m] = text[n] /\ Placed(m) /\ ~OtherBranch(m, n))

(* What is missing is reported at the end only.                            *)
ChecksAtEnd == {"missing", "own"}
EndInv == ~ended => \A r \in reports : r.check \notin ChecksAtEnd

(* The inductive invariant of what is remembered, next to OrderInv; its    *)
(* last part needs balanced directives                                     *)
RememberInv == ListsInv /\ DuplicatesInv /\ EndInv

-----------------------------------------------------------------------------
(* Lemmas *)

Lines == Headers \cup Directives \cup {"code"}

(* A line is read: what was known of the lines before it stays, if what is *)
(* reported is reported on it.                                             *)
LEMMA LinesBefore ==
  ASSUME text \in Seq(Lines), NEW line \in Lines, text' = Append(text, line),
         reports \subseteq reports',
         \A r \in reports' \ reports :
           r.check \in {"order", "duplicate"} => r.line = Len(text) + 1
  PROVE  /\ Len(text) \in Nat /\ Len(text') = Len(text) + 1 /\ text'[Len(text) + 1] = line
         /\ \A m \in 1..Len(text) :
              /\ text'[m] = text[m]
              /\ Reported("order", m)' <=> Reported("order", m)
              /\ Placed(m)' <=> Placed(m)
              /\ Type(m)' = Type(m)
              /\ Mine(m)' <=> Mine(m)
              /\ Since(m)' = Since(m)
              /\ Ahead(m)' = Ahead(m)
<1>1. /\ Len(text) \in Nat /\ Len(text') = Len(text) + 1 /\ text'[Len(text) + 1] = line
      /\ \A m \in 1..Len(text) : text'[m] = text[m]
  BY AppendProperties
<1>2. \A check \in {"order", "duplicate"}, m \in 1..Len(text) :
        Reported(check, m)' <=> Reported(check, m)
  BY <1>1 DEF Reported
<1>3. \A m \in 1..Len(text) : Placed(m)' <=> Placed(m)
  BY <1>1, <1>2 DEF Placed, Ordinary
<1>4. \A m \in 1..Len(text) : Type(m)' = Type(m) /\ (Mine(m)' <=> Mine(m))
  BY <1>1 DEF Type, Mine
<1>5. \A m \in 1..Len(text) : Since(m)' = Since(m)
  <2> SUFFICES ASSUME NEW m \in 1..Len(text) PROVE Since(m)' = Since(m)
    OBVIOUS
  <2>1. \A j \in 1..m - 1 : j \in 1..Len(text) /\ \A k \in j..m : k \in 1..Len(text)
    BY <1>1
  <2> QED BY <1>1, <1>3, <2>1 DEF Since
<1>6. \A m \in 1..Len(text) : Ahead(m)' = Ahead(m)
  <2> SUFFICES ASSUME NEW m \in 1..Len(text) PROVE Ahead(m)' = Ahead(m)
    OBVIOUS
  <2>1. \A j \in Since(m) : j \in 1..Len(text) /\ \A k \in Since(j) : k \in 1..Len(text)
    BY <1>1 DEF Since
  <2> QED BY <1>4, <1>5, <2>1 DEF Ahead
<1> QED BY <1>1, <1>2, <1>3, <1>4, <1>5, <1>6

(* The types of the includes that take part                                *)
LEMMA PlacedType ==
  ASSUME text \in Seq(Lines), NEW m \in 1..Len(text), Placed(m)
  PROVE  text[m] \in Headers /\ Type(m) \in Types
BY IncludeAssumption DEF Placed, Ordinary, Type

(* What a line does to the includes since the last directive               *)
LEMMA OpenNext ==
  ASSUME text \in Seq(Lines), NEW line \in Lines, text' = Append(text, line),
         NEW here \in Nat, here = Len(text) + 1,
         reports \subseteq reports',
         \A r \in reports' \ reports :
           r.check \in {"order", "duplicate"} => r.line = Len(text) + 1
  PROVE  /\ line \in Directives => Open' = {}
         /\ line \notin Directives =>
              /\ Open' = IF Placed(here)' THEN Open \cup {here} ELSE Open
              /\ Since(here)' = Open
              /\ Ahead(here)' = OpenAhead
<1>1. /\ Len(text) \in Nat /\ Len(text') = here /\ text'[here] = line
      /\ \A m \in 1..Len(text) :
           /\ text'[m] = text[m]
           /\ Placed(m)' <=> Placed(m)
           /\ Type(m)' = Type(m)
           /\ Mine(m)' <=> Mine(m)
           /\ Since(m)' = Since(m)
  BY LinesBefore
<1>2. \A m \in 1..here : m \in 1..Len(text) \/ m = here
  BY <1>1
<1>3. ASSUME line \in Directives PROVE Open' = {}
  <2>1. \A m \in 1..here : here \in m..here
    BY <1>1
  <2> QED BY <1>1, <1>3, <2>1 DEF Open
<1>4. ASSUME line \notin Directives, NEW m \in 1..Len(text)
      PROVE  (\A k \in m..here : text'[k] \notin Directives) <=>
               (\A k \in m..Len(text) : text[k] \notin Directives)
  <2>1. \A k \in m..here : k \in m..Len(text) \/ k = here
    BY <1>1
  <2>2. \A k \in m..Len(text) : k \in m..here /\ k \in 1..Len(text)
    BY <1>1
  <2> QED BY <1>1, <1>4, <2>1, <2>2
<1>5. ASSUME line \notin Directives
      PROVE  Open' = IF Placed(here)' THEN Open \cup {here} ELSE Open
  <2>1. \A m \in 1..Len(text) : m \in Open' <=> m \in Open
    <3>1. \A m \in 1..Len(text) : m \in 1..here
      BY <1>1
    <3> QED BY <1>1, <1>4, <1>5, <3>1 DEF Open
  <2>2. here \in Open' <=> Placed(here)'
    <3>1. \A k \in here..here : k = here
      BY <1>1
    <3>2. here \in 1..here
      BY <1>1
    <3> QED BY <1>1, <1>5, <3>1, <3>2 DEF Open
  <2>3. \A m \in Open' : m \in 1..Len(text) \/ m = here
    BY <1>1, <1>2 DEF Open
  <2>4. \A m \in Open : m \in 1..Len(text) /\ m # here
    BY <1>1 DEF Open
  <2>5. \A m : m \in Open' <=> m \in Open \/ (m = here /\ Placed(here)')
    BY <2>1, <2>2, <2>3, <2>4
  <2>6. CASE Placed(here)'
    BY <2>5, <2>6
  <2>7. CASE ~Placed(here)'
    BY <2>5, <2>7
  <2> QED BY <2>6, <2>7
<1>6. ASSUME line \notin Directives PROVE Since(here)' = Open
  <2>1. 1..here - 1 = 1..Len(text)
    BY <1>1
  <2> QED BY <1>1, <1>4, <1>6, <2>1 DEF Since, Open
<1>7. ASSUME line \notin Directives PROVE Ahead(here)' = OpenAhead
  <2>1. \A m \in Open : m \in 1..Len(text) /\ \A k \in Since(m) : k \in 1..Len(text)
    BY <1>1 DEF Open, Since
  <2> QED BY <1>1, <1>6, <1>7, <2>1 DEF Ahead, OpenAhead
<1> QED BY <1>3, <1>5, <1>6, <1>7

(* A line that takes no place in the order keeps the section, and those of *)
(* the lines before are reported as they were.                             *)
LEMMA OrderBefore ==
  ASSUME OrderInv, NEW line \in Lines, text' = Append(text, line),
         reports \subseteq reports',
         \A r \in reports' \ reports :
           r.check \in {"order", "duplicate"} => r.line = Len(text) + 1
  PROVE  /\ text' \in Seq(Lines) /\ LinesInv'
         /\ \A n \in 1..Len(text) : Placed(n)' =>
              (Reported("order", n)' <=>
                 \/ Type(n)' = "c++ system" /\ Ahead(n)' # {}
                 \/ Type(n)' = "c system" /\
                      \E m \in Since(n)' : m \in Ahead(n)' \/ Type(m)' = "c++ system")
<1>0. text \in Seq(Lines)
  BY DEF OrderInv, Lines
<1>1. /\ Len(text) \in Nat /\ Len(text') = Len(text) + 1
      /\ \A m \in 1..Len(text) :
           /\ Reported("order", m)' <=> Reported("order", m)
           /\ Placed(m)' <=> Placed(m)
           /\ Type(m)' = Type(m)
           /\ Since(m)' = Since(m)
           /\ Ahead(m)' = Ahead(m)
  BY <1>0, LinesBefore
<1>2. text' \in Seq(Lines)
  BY <1>0
<1>3. LinesInv'
  BY <1>1 DEF OrderInv, LinesInv
<1>4. \A n \in 1..Len(text) : Placed(n) =>
        (Reported("order", n) <=>
           \/ Type(n) = "c++ system" /\ Ahead(n) # {}
           \/ Type(n) = "c system" /\ \E m \in Since(n) : m \in Ahead(n) \/ Type(m) = "c++ system")
  BY DEF OrderInv, OrderReported
<1>5. \A n \in 1..Len(text) : \A m \in Since(n) : m \in 1..Len(text)
  BY <1>1 DEF Since
<1> QED BY <1>1, <1>2, <1>3, <1>4, <1>5, ZenonT(40)

(* The numbers up to n + 1.                                              *)
LEMMA UpTo ==
  ASSUME NEW n \in Nat
  PROVE  \A k \in 1..n + 1 : k \in 1..n \/ k = n + 1
OBVIOUS

(* The property for one line more                                          *)
LEMMA OneMore ==
  ASSUME NEW n \in Nat, Len(text') = n + 1,
         \A k \in 1..n : Placed(k)' =>
           (Reported("order", k)' <=>
              \/ Type(k)' = "c++ system" /\ Ahead(k)' # {}
              \/ Type(k)' = "c system" /\
                   \E m \in Since(k)' : m \in Ahead(k)' \/ Type(m)' = "c++ system"),
         Placed(n + 1)' =>
           (Reported("order", n + 1)' <=>
              \/ Type(n + 1)' = "c++ system" /\ Ahead(n + 1)' # {}
              \/ Type(n + 1)' = "c system" /\
                   \E m \in Since(n + 1)' : m \in Ahead(n + 1)' \/ Type(m)' = "c++ system")
  PROVE  OrderReported'
<1>1. \A k \in 1..Len(text') : k \in 1..n \/ k = n + 1
  BY UpTo
<1> QED BY <1>1 DEF OrderReported

(* The groups stay as they are if none is added.                           *)
LEMMA SameSection ==
  ASSUME OrderInv, section' = section, Open' = Open,
         \A m \in Open : /\ Type(m)' = Type(m)
                         /\ Mine(m)' <=> Mine(m)
                         /\ Since(m)' = Since(m)
                         /\ \A k \in Since(m) : Mine(k)' <=> Mine(k)
  PROVE  SectionInv'
<1>1. OpenAhead' = OpenAhead
  BY DEF OpenAhead
<1> QED BY <1>1 DEF OrderInv, SectionInv

(* A line that takes no place and is reported as nothing                   *)
LEMMA UnplacedLine ==
  ASSUME OrderInv, NEW line \in Lines, line \notin Headers, text' = Append(text, line),
         reports' = reports, SectionInv'
  PROVE  OrderInv'
<1>0. text \in Seq(Lines)
  BY DEF OrderInv, Lines
<1>1. PICK last \in Nat : last = Len(text)
  BY <1>0
<1>2. Len(text') = last + 1 /\ text'[last + 1] = line
  BY <1>0, <1>1, LinesBefore
<1>3. ~Placed(last + 1)'
  BY <1>2 DEF Placed, Ordinary
<1>4. /\ text' \in Seq(Lines) /\ LinesInv'
      /\ \A k \in 1..Len(text) : Placed(k)' =>
           (Reported("order", k)' <=>
              \/ Type(k)' = "c++ system" /\ Ahead(k)' # {}
              \/ Type(k)' = "c system" /\
                   \E m \in Since(k)' : m \in Ahead(k)' \/ Type(m)' = "c++ system")
  BY <1>0, OrderBefore
<1>5. OrderReported'
  BY <1>1, <1>2, <1>3, <1>4, OneMore
<1> QED BY <1>4, <1>5 DEF OrderInv, Lines

(* A step that leaves the group alone and opens nothing keeps what it    *)
(* means.                                                                *)
LEMMA OpenStays ==
  ASSUME OrderInv, NEW line \in Lines, text' = Append(text, line), Open' = Open,
         section' = section, reports' = reports
  PROVE  SectionInv'
<1>0. text \in Seq(Lines)
  BY DEF OrderInv, Lines
<1>1. /\ Len(text) \in Nat
      /\ \A m \in 1..Len(text) :
           /\ Type(m)' = Type(m)
           /\ Mine(m)' <=> Mine(m)
           /\ Since(m)' = Since(m)
  BY <1>0, LinesBefore
<1>2. \A m \in Open : m \in 1..Len(text) /\ \A k \in Since(m) : k \in 1..Len(text)
  BY <1>1 DEF Open, Since
<1> QED BY <1>1, <1>2, SameSection

-----------------------------------------------------------------------------
(* The steps                                                               *)

(* An include that is not looked at further takes no place: it is of       *)
(* another kind, or it is reported as a duplicate.                         *)
LEMMA SkipStep ==
  ASSUME OrderInv, NEW h \in Headers, SkipInclude(h)
  PROVE  OrderInv'
<1> DEFINE n == Len(text)
<1>0. text \in Seq(Lines) /\ h \in Lines /\ h \notin Directives
  BY IncludeAssumption DEF OrderInv, Lines
<1>1. /\ text' = Append(text, h) /\ section' = section
      /\ reports' = reports \cup
           (IF FindHeader(h) THEN {Report("duplicate", h, Linenum)}
            ELSE IF Header[h].foreign_cc THEN {Report("cc", h, Linenum)} ELSE {})
      /\ FindHeader(h) \/ Header[h].foreign_cc \/ Header[h].third_party
  BY DEF SkipInclude, Read, Skipped
<1>2. /\ reports \subseteq reports'
      /\ \A r \in reports' \ reports :
           r.check \in {"order", "duplicate"} => r.check = "duplicate" /\ r.line = Len(text) + 1
  BY <1>1 DEF Report, Linenum
<1>3. PICK here \in Nat : here = Len(text) + 1
  BY <1>0
<1>4. ~Placed(here)'
  <2>1. text'[here] = h
    BY <1>0, <1>1, <1>2, <1>3, LinesBefore
  <2>2. CASE FindHeader(h)
    <3>1. Report("duplicate", h, here) \in reports'
      BY <1>1, <1>3, <2>2 DEF Linenum
    <3>2. Reported("duplicate", here)'
      BY <3>1 DEF Reported, Report
    <3> QED BY <3>2 DEF Placed, Ordinary
  <2>3. CASE Header[h].foreign_cc \/ Header[h].third_party
    BY <2>1, <2>3 DEF Placed, Ordinary
  <2> QED BY <1>1, <2>2, <2>3
<1>5. Open' = Open
  BY <1>0, <1>1, <1>2, <1>3, <1>4, OpenNext
<1>6. /\ Len(text) \in Nat /\ Len(text') = Len(text) + 1
      /\ \A m \in 1..Len(text) :
           /\ Type(m)' = Type(m)
           /\ Mine(m)' <=> Mine(m)
           /\ Since(m)' = Since(m)
  BY <1>0, <1>1, <1>2, LinesBefore
<1>7. \A m \in Open : m \in 1..Len(text) /\ \A k \in Since(m) : k \in 1..Len(text)
  BY <1>6 DEF Open, Since
<1>8. SectionInv'
  BY <1>1, <1>5, <1>6, <1>7, SameSection
<1>9. /\ text' \in Seq(Lines) /\ LinesInv'
      /\ \A k \in 1..Len(text) : Placed(k)' =>
           (Reported("order", k)' <=>
              \/ Type(k)' = "c++ system" /\ Ahead(k)' # {}
              \/ Type(k)' = "c system" /\
                   \E m \in Since(k)' : m \in Ahead(k)' \/ Type(m)' = "c++ system")
  BY <1>0, <1>1, <1>2, OrderBefore
<1>10. PICK last \in Nat : last = Len(text)
  BY <1>6
<1>11. OrderReported'
  BY <1>3, <1>4, <1>6, <1>9, <1>10, OneMore
<1> QED BY <1>8, <1>9, <1>11 DEF OrderInv, Lines

(* How the groups move on: with a header of C, of C++, or of the file's own *)
LEMMA AfterC ==
  ASSUME NEW old \in 0..4, NEW new, NEW ahead, NEW cpps, NEW others, cpps # {} => others # {},
         old = 4 <=> ahead # {},
         ahead = {} => (old = 3 <=> cpps # {}) /\ (old <= 1 <=> others = {}),
         new = IF old > 2 THEN old ELSE 2
  PROVE  /\ new \in 0..4
         /\ new = 4 <=> ahead # {}
         /\ new # 4 => (new = 3 <=> cpps # {}) /\ ~(new <= 1)
OBVIOUS

(* The group behind a C++ header, from what was included before.         *)
LEMMA AfterCpp ==
  ASSUME NEW old \in 0..4, NEW new, NEW ahead, old = 4 <=> ahead # {},
         new = IF old > 3 THEN old ELSE 3
  PROVE  /\ new \in 0..4
         /\ new = 4 <=> ahead # {}
         /\ new # 4 => new = 3 /\ ~(new <= 1)
OBVIOUS

(* The group behind an own header, from what was included before.        *)
LEMMA AfterMine ==
  ASSUME NEW old \in 0..4, NEW new, NEW ahead, NEW cpps, NEW others, cpps # {} => others # {},
         old = 4 <=> ahead # {},
         ahead = {} => (old = 3 <=> cpps # {}) /\ (old <= 1 <=> others = {}),
         new = IF old <= 1 THEN 1 ELSE 4
  PROVE  /\ new \in 0..4
         /\ new = 4 <=> ahead # {} \/ others # {}
         /\ new # 4 => ~(new = 3 \/ cpps # {}) /\ new <= 1 /\ others = {}
OBVIOUS

(* CheckNextIncludeOrder: the section moves on with the groups, and an     *)
(* include is reported if and only if a later group is already there.      *)
LEMMA IncludeStep ==
  ASSUME OrderInv, NEW h \in Headers, Include(h)
  PROVE  OrderInv'
<1> DEFINE type == Header[h].type
<1>0. text \in Seq(Lines) /\ h \in Lines /\ h \notin Directives /\ type \in Types
  BY IncludeAssumption DEF OrderInv, Lines
<1>1. /\ text' = Append(text, h)
      /\ ~FindHeader(h) /\ ~Header[h].foreign_cc /\ ~Header[h].third_party
      /\ section' = IF OutOfOrder(type) THEN section ELSE NextSection(type)
      /\ reports' = reports
           \cup (IF OutOfOrder(type) THEN {Report("order", h, Linenum)} ELSE {})
           \cup (IF Unsorted(h) THEN {Report("alpha", h, Linenum)} ELSE {})
  BY DEF Include, Read, Skipped
<1>2. /\ reports \subseteq reports'
      /\ \A r \in reports' \ reports :
           r.check \in {"order", "duplicate"} => r.check = "order" /\ r.line = Len(text) + 1
  BY <1>1 DEF Report, Linenum
<1>3. PICK here \in Nat : here = Len(text) + 1
  BY <1>0
<1>4. /\ Len(text) \in Nat /\ Len(text') = Len(text) + 1 /\ text'[here] = h
      /\ \A m \in 1..Len(text) :
           /\ Type(m)' = Type(m)
           /\ Mine(m)' <=> Mine(m)
           /\ Since(m)' = Since(m)
  BY <1>0, <1>1, <1>2, <1>3, LinesBefore
<1>5. Placed(here)'
  <2>1. \A r \in reports : r.check \in {"order", "duplicate"} => r.line \in 1..Len(text)
    BY DEF OrderInv, LinesInv
  <2>2. \A r \in reports' : ~(r.check = "duplicate" /\ r.line = here)
    BY <1>2, <1>3, <1>4, <2>1
  <2> QED BY <1>1, <1>4, <2>2 DEF Placed, Ordinary, Reported
<1>6. Open' = Open \cup {here} /\ Since(here)' = Open /\ Ahead(here)' = OpenAhead
  BY <1>0, <1>1, <1>2, <1>3, <1>5, OpenNext
<1>7. \A m \in Open : m \in 1..Len(text) /\ \A k \in Since(m) : k \in 1..Len(text)
  BY <1>4 DEF Open, Since
<1>8. /\ Type(here)' = type
      /\ Mine(here)' <=> type \in {"likely mine", "possibly mine"}
  BY <1>4 DEF Type, Mine
<1>9. \A m \in Open : Type(m) \in Types
  BY <1>0, <1>7, PlacedType DEF Open
<1>10. OpenAhead' =
         IF type = "other" \/ (type \in {"likely mine", "possibly mine"} /\ \E k \in Open : ~Mine(k))
         THEN OpenAhead \cup {here} ELSE OpenAhead
  <2>1. \A m \in Open : (Type(m)' = "other" \/ (Mine(m)' /\ \E k \in Since(m)' : ~Mine(k)'))
                          <=> (Type(m) = "other" \/ (Mine(m) /\ \E k \in Since(m) : ~Mine(k)))
    BY <1>4, <1>7
  <2>2. (Type(here)' = "other" \/ (Mine(here)' /\ \E k \in Since(here)' : ~Mine(k)'))
          <=> (type = "other" \/ (type \in {"likely mine", "possibly mine"} /\ \E k \in Open : ~Mine(k)))
    BY <1>4, <1>6, <1>7, <1>8
  <2>3. OpenAhead' =
          {m \in Open \cup {here} :
             Type(m)' = "other" \/ (Mine(m)' /\ \E k \in Since(m)' : ~Mine(k)')}
    BY <1>6 DEF OpenAhead
  <2>4. here \notin Open
    BY <1>3, <1>4, <1>7
  <2>5. \A m : m \in OpenAhead' <=>
                \/ m \in OpenAhead
                \/ /\ m = here
                   /\ \/ type = "other"
                      \/ type \in {"likely mine", "possibly mine"} /\ \E k \in Open : ~Mine(k)
    <3>1. \A m \in Open : m \in OpenAhead' <=> m \in OpenAhead
      BY <2>1, <2>3 DEF OpenAhead
    <3>2. here \in OpenAhead' <=>
            (type = "other" \/ (type \in {"likely mine", "possibly mine"} /\ \E k \in Open : ~Mine(k)))
      BY <2>2, <2>3
    <3>3. \A m \in OpenAhead' : m \in Open \/ m = here
      BY <2>3
    <3>4. \A m \in OpenAhead : m \in Open
      BY DEF OpenAhead
    <3> QED BY <2>4, <3>1, <3>2, <3>3, <3>4
  <2>6. CASE type = "other" \/ (type \in {"likely mine", "possibly mine"} /\ \E k \in Open : ~Mine(k))
    BY <2>5, <2>6
  <2>7. CASE ~(type = "other" \/ (type \in {"likely mine", "possibly mine"} /\ \E k \in Open : ~Mine(k)))
    BY <2>5, <2>7
  <2> QED BY <2>6, <2>7
<1> DEFINE cpps == {m \in Open : Type(m) = "c++ system"}
           others == {m \in Open : ~Mine(m)}
<1>11. /\ section \in 0..4
       /\ section = 4 <=> OpenAhead # {}
       /\ OpenAhead = {} => (section = 3 <=> cpps # {}) /\ (section <= 1 <=> others = {})
  BY DEF OrderInv, SectionInv, INITIAL_SECTION, MY_H_SECTION, CPP_SECTION, OTHER_H_SECTION
<1>12. /\ type = "c system" => section' = IF section > 2 THEN section ELSE 2
       /\ type = "c++ system" => section' = IF section > 3 THEN section ELSE 3
       /\ type \in {"likely mine", "possibly mine"} => section' = IF section <= 1 THEN 1 ELSE 4
       /\ type = "other" => section' = 4
  BY <1>0, <1>1, <1>11 DEF OutOfOrder, NextSection, MY_H_SECTION, C_SECTION, CPP_SECTION,
                           OTHER_H_SECTION
<1>13. SectionInv'
  <2>1. /\ (\E m \in Open' : Type(m)' = "c++ system") <=> (type = "c++ system" \/ cpps # {})
        /\ (\A m \in Open' : Mine(m)') <=> (type \in {"likely mine", "possibly mine"} /\ others = {})
    BY <1>4, <1>6, <1>7, <1>8
  <2>2. cpps # {} => others # {}
    BY DEF Mine
  <2>3. OpenAhead' # {} <=>
          \/ OpenAhead # {}
          \/ type = "other"
          \/ type \in {"likely mine", "possibly mine"} /\ others # {}
    BY <1>10
  <2> HIDE DEF cpps, others
  <2>4. /\ section' \in 0..4
        /\ section' = 4 <=>
             \/ OpenAhead # {}
             \/ type = "other"
             \/ type \in {"likely mine", "possibly mine"} /\ others # {}
        /\ section' # 4 =>
             /\ section' = 3 <=> (type = "c++ system" \/ cpps # {})
             /\ section' <= 1 <=> (type \in {"likely mine", "possibly mine"} /\ others = {})
    <3> HIDE DEF type
    <3>1. CASE type = "c system"
      <4>1. /\ ~(type \in {"likely mine", "possibly mine"})
            /\ type # "c++ system" /\ type # "other"
        BY <3>1
      <4>2. section' = IF section > 2 THEN section ELSE 2
        BY <1>12, <3>1
      <4>3. /\ section' \in 0..4
            /\ section' = 4 <=> OpenAhead # {}
            /\ section' # 4 => (section' = 3 <=> cpps # {}) /\ ~(section' <= 1)
        BY <1>11, <2>2, <4>2, AfterC
      <4> QED BY <4>1, <4>3
    <3>2. CASE type = "c++ system"
      <4>1. ~(type \in {"likely mine", "possibly mine"}) /\ type # "other"
        BY <3>2
      <4>2. section' = IF section > 3 THEN section ELSE 3
        BY <1>12, <3>2
      <4> QED BY <1>11, <2>2, <3>2, <4>1, <4>2, AfterCpp
    <3>3. CASE type \in {"likely mine", "possibly mine"}
      <4>1. type # "c++ system" /\ type # "other"
        BY <3>3
      <4>2. section' = IF section <= 1 THEN 1 ELSE 4
        BY <1>12, <3>3
      <4> QED BY <1>11, <2>2, <3>3, <4>1, <4>2, AfterMine
    <3>4. CASE type = "other"
      BY <1>11, <1>12, <2>2, <3>4
    <3> QED BY <1>0, <3>1, <3>2, <3>3, <3>4 DEF Types, type
  <2> QED
    BY <2>1, <2>3, <2>4 DEF SectionInv, INITIAL_SECTION, MY_H_SECTION, CPP_SECTION, OTHER_H_SECTION
<1>14. Reported("order", here)' <=> OutOfOrder(type)
  <2>1. \A r \in reports : r.check \in {"order", "duplicate"} => r.line \in 1..Len(text)
    BY DEF OrderInv, LinesInv
  <2>2. Report("order", h, here).check = "order" /\ Report("order", h, here).line = here
    BY DEF Report
  <2>3. Report("alpha", h, here).check = "alpha"
    BY DEF Report
  <2>4. here \notin 1..Len(text)
    BY <1>3, <1>4
  <2> QED BY <1>1, <1>3, <2>1, <2>2, <2>3, <2>4 DEF Reported, Linenum
<1>15. OutOfOrder(type) <=>
         \/ type = "c++ system" /\ OpenAhead # {}
         \/ type = "c system" /\ \E m \in Open : m \in OpenAhead \/ Type(m) = "c++ system"
  <2>1. OutOfOrder(type) <=> (type = "c++ system" /\ section > 3) \/ (type = "c system" /\ section > 2)
    BY <1>11 DEF OutOfOrder, NextSection, C_SECTION, CPP_SECTION
  <2>2. cpps # {} => others # {}
    BY DEF Mine
  <2>3. OpenAhead \subseteq Open
    BY DEF OpenAhead
  <2>4. (\E m \in Open : m \in OpenAhead \/ Type(m) = "c++ system") <=> OpenAhead # {} \/ cpps # {}
    BY <2>3
  <2> HIDE DEF cpps, others, type
  <2>5. section > 3 <=> OpenAhead # {}
    BY <1>11
  <2>6. section > 2 <=> OpenAhead # {} \/ cpps # {}
    BY <1>11, <2>2
  <2> QED BY <2>1, <2>4, <2>5, <2>6
<1>16. Reported("order", here)' <=>
         \/ Type(here)' = "c++ system" /\ Ahead(here)' # {}
         \/ Type(here)' = "c system" /\
              \E m \in Since(here)' : m \in Ahead(here)' \/ Type(m)' = "c++ system"
  BY <1>4, <1>6, <1>7, <1>8, <1>14, <1>15
<1>17. /\ text' \in Seq(Lines) /\ LinesInv'
       /\ \A k \in 1..Len(text) : Placed(k)' =>
            (Reported("order", k)' <=>
               \/ Type(k)' = "c++ system" /\ Ahead(k)' # {}
               \/ Type(k)' = "c system" /\
                    \E m \in Since(k)' : m \in Ahead(k)' \/ Type(m)' = "c++ system")
  BY <1>0, <1>1, <1>2, OrderBefore
<1>18. PICK last \in Nat : last = Len(text)
  BY <1>4
<1>19. here = last + 1 /\ Len(text') = last + 1
  BY <1>3, <1>4, <1>18
<1>20. OrderReported'
  BY <1>16, <1>17, <1>18, <1>19, OneMore
<1> QED BY <1>13, <1>17, <1>20 DEF OrderInv, Lines

(* A directive ends the order so far and starts it again.                  *)
LEMMA ResetStep ==
  ASSUME OrderInv, NEW directive \in Directives, ResetSection(directive)
  PROVE  OrderInv'
<1>0. text \in Seq(Lines) /\ directive \in Lines /\ directive \notin Headers
  BY IncludeAssumption DEF OrderInv, Lines
<1>1. text' = Append(text, directive) /\ section' = 0 /\ reports' = reports
  BY DEF ResetSection, Read, INITIAL_SECTION
<1>2. PICK here \in Nat : here = Len(text) + 1
  BY <1>0
<1>3. Open' = {}
  BY <1>0, <1>1, <1>2, OpenNext
<1>4. OpenAhead' = {}
  BY <1>3 DEF OpenAhead
<1>5. SectionInv'
  BY <1>1, <1>3, <1>4 DEF SectionInv, INITIAL_SECTION, MY_H_SECTION, CPP_SECTION, OTHER_H_SECTION
<1>6. QED
  BY <1>0, <1>1, <1>2, <1>5, UnplacedLine

(* A line of code keeps the invariant.                                   *)
LEMMA CodeStep ==
  ASSUME OrderInv, Code
  PROVE  OrderInv'
<1>0. text \in Seq(Lines) /\ "code" \in Lines /\ "code" \notin Headers /\ "code" \notin Directives
  BY IncludeAssumption DEF OrderInv, Lines, Directives
<1>1. text' = Append(text, "code") /\ section' = section /\ reports' = reports
  BY DEF Code, Read
<1>2. PICK here \in Nat : here = Len(text) + 1
  BY <1>0
<1>3. text'[here] = "code"
  BY <1>0, <1>1, <1>2, LinesBefore
<1>4. ~Placed(here)'
  BY <1>0, <1>3 DEF Placed, Ordinary
<1>5. Open' = Open
  BY <1>0, <1>1, <1>2, <1>4, OpenNext
<1>6. SectionInv'
  BY <1>0, <1>1, <1>5, OpenStays
<1>7. QED
  BY <1>0, <1>1, <1>2, <1>6, UnplacedLine

(* Without a new line, what is reported of the file leaves the lines alone.*)
LEMMA NoLine ==
  ASSUME OrderInv, text' = text, section' = section, reports \subseteq reports',
         \A r \in reports' \ reports : r.check \notin {"order", "duplicate"}
  PROVE  OrderInv'
<1>1. \A check \in {"order", "duplicate"}, m \in 1..Len(text) :
        Reported(check, m)' <=> Reported(check, m)
  BY DEF Reported
<1>2. \A m \in 1..Len(text) : Placed(m)' <=> Placed(m)
  BY <1>1 DEF Placed, Ordinary
<1>3. \A m \in 1..Len(text) : Type(m)' = Type(m) /\ (Mine(m)' <=> Mine(m))
  BY DEF Type, Mine
<1>4. Len(text) \in Nat
  BY DEF OrderInv
<1>5. \A m \in 1..Len(text) : Since(m)' = Since(m)
  <2> SUFFICES ASSUME NEW m \in 1..Len(text) PROVE Since(m)' = Since(m)
    OBVIOUS
  <2>1. \A j \in 1..m - 1 : j \in 1..Len(text)
    BY <1>4
  <2> QED BY <1>2, <2>1 DEF Since
<1>6. \A m \in 1..Len(text) : \A k \in Since(m) : k \in 1..Len(text)
  BY <1>4 DEF Since
<1>7. \A m \in 1..Len(text) : Ahead(m)' = Ahead(m)
  BY <1>3, <1>5, <1>6 DEF Ahead
<1>8. Open' = Open
  BY <1>2 DEF Open
<1>9. \A m \in Open : m \in 1..Len(text)
  BY DEF Open
<1>10. SectionInv'
  BY <1>3, <1>5, <1>6, <1>8, <1>9, SameSection
<1>11. LinesInv'
  BY DEF OrderInv, LinesInv
<1>12. OrderReported'
  <2> SUFFICES ASSUME NEW n \in 1..Len(text), Placed(n)'
               PROVE  (Reported("order", n)' <=>
                         \/ Type(n)' = "c++ system" /\ Ahead(n)' # {}
                         \/ Type(n)' = "c system" /\
                              \E m \in Since(n)' : m \in Ahead(n)' \/ Type(m)' = "c++ system")
    BY DEF OrderReported
  <2>1. Reported("order", n) <=>
          \/ Type(n) = "c++ system" /\ Ahead(n) # {}
          \/ Type(n) = "c system" /\
               \E m \in Since(n) : m \in Ahead(n) \/ Type(m) = "c++ system"
    BY <1>2 DEF OrderInv, OrderReported
  <2>2. \A m \in Since(n) : Type(m)' = Type(m)
    BY <1>3, <1>6
  <2> QED BY <1>1, <1>3, <1>5, <1>7, <2>1, <2>2
<1>13. QED
  BY <1>10, <1>11, <1>12 DEF OrderInv

(* The checks at the end of the file keep the invariant.                 *)
LEMMA EndOfFileStep ==
  ASSUME OrderInv, EndOfFile
  PROVE  OrderInv'
<1>1. PICK ending \in Endings :
        /\ reports' = reports \cup CheckForIncludeWhatYouUse(ending)
                            \cup CheckHeaderFileIncluded(ending)
        /\ text' = text /\ section' = section
  BY DEF EndOfFile
<1>2. \A r \in CheckForIncludeWhatYouUse(ending) : r.check = "missing"
  BY DEF CheckForIncludeWhatYouUse, Report
<1>3. \A r \in CheckHeaderFileIncluded(ending) : r.check = "own"
  <2>1. Report("own", "none", FirstInclude).check = "own"
    BY DEF Report
  <2> QED BY <2>1 DEF CheckHeaderFileIncluded
<1>4. QED
  BY <1>1, <1>2, <1>3, NoLine

(* A new file satisfies the invariant.                                   *)
LEMMA InitOrder ==
  ASSUME Init
  PROVE  OrderInv
<1>1. text = <<>> /\ section = 0 /\ reports = {}
  BY DEF Init, INITIAL_SECTION
<1>2. Len(text) = 0 /\ 1..Len(text) = {}
  BY <1>1
<1>3. Open = {} /\ OpenAhead = {}
  BY <1>2 DEF Open, OpenAhead
<1>4. SectionInv
  BY <1>1, <1>3 DEF SectionInv, INITIAL_SECTION, MY_H_SECTION, CPP_SECTION, OTHER_H_SECTION
<1>5. LinesInv /\ OrderReported
  BY <1>1, <1>2 DEF LinesInv, OrderReported
<1>6. text \in Seq(Headers \cup Directives \cup {"code"})
  BY <1>1
<1>7. QED
  BY <1>4, <1>5, <1>6 DEF OrderInv

-----------------------------------------------------------------------------
(* The section always tells the latest group since the last directive, and *)
(* with it every report follows from the lines so far.                     *)
THEOREM OrderInvHolds == Spec => []OrderInv
<1>1. Init => OrderInv
  BY InitOrder
<1>2. OrderInv /\ [Next]_vars => OrderInv'
  <2> SUFFICES ASSUME OrderInv, [Next]_vars PROVE OrderInv'
    OBVIOUS
  <2>1. ASSUME NEW h \in Headers, Include(h) PROVE OrderInv'
    BY <2>1, IncludeStep
  <2>2. ASSUME NEW h \in Headers, SkipInclude(h) PROVE OrderInv'
    BY <2>2, SkipStep
  <2>3. ASSUME NEW directive \in Directives, ResetSection(directive) PROVE OrderInv'
    BY <2>3, ResetStep
  <2>4. CASE Code
    BY <2>4, CodeStep
  <2>5. CASE EndOfFile
    BY <2>5, EndOfFileStep
  <2>6. CASE UNCHANGED vars
    BY <2>6, NoLine DEF vars
  <2> QED BY <2>1, <2>2, <2>3, <2>4, <2>5, <2>6 DEF Next
<1> QED BY <1>1, <1>2, PTL DEF Spec

(* A system header is reported as out of order exactly if a header of a    *)
(* later group came since the last directive (CheckNextIncludeOrder), in a *)
(* file of any length and with any headers.                                *)
THEOREM OrderIsReported == Spec => []OrderReported
<1>1. OrderInv => OrderReported
  BY DEF OrderInv
<1> QED BY <1>1, OrderInvHolds, PTL

-----------------------------------------------------------------------------
(* Counting directives                                                     *)

(* Directives can be counted.                                            *)
LEMMA IfsAreNumbers ==
  ASSUME NEW n \in Nat
  PROVE  Ifs(n) \in Nat /\ Endifs(n) \in Nat
<1>1. IsFiniteSet(1..n - 1)
  BY FS_Interval
<1>2. IsFiniteSet({k \in 1..n - 1 : text[k] = "if"}) /\ IsFiniteSet({k \in 1..n - 1 : text[k] = "endif"})
  BY <1>1, FS_Subset
<1> QED BY <1>2, FS_CardinalityType DEF Ifs, Endifs

(* Both counts grow, and that of #if only with one in between.             *)
LEMMA IfsGrow ==
  ASSUME NEW m \in Nat \ {0}, NEW n \in Nat, m <= n
  PROVE  /\ Ifs(m) <= Ifs(n) /\ Endifs(m) <= Endifs(n)
         /\ Ifs(m) = Ifs(n) <=> \A k \in m..n - 1 : text[k] # "if"
<1> DEFINE A(i) == {k \in 1..i - 1 : text[k] = "if"}
           B(i) == {k \in 1..i - 1 : text[k] = "endif"}
<1>1. IsFiniteSet(A(n)) /\ IsFiniteSet(B(n))
  <2>1. IsFiniteSet(1..n - 1)
    BY FS_Interval
  <2> QED BY <2>1, FS_Subset
<1>2. A(m) \subseteq A(n) /\ B(m) \subseteq B(n)
  OBVIOUS
<1>3. Cardinality(A(m)) <= Cardinality(A(n)) /\ Cardinality(B(m)) <= Cardinality(B(n))
  BY <1>1, <1>2, FS_Subset
<1>4. Cardinality(A(m)) = Cardinality(A(n)) => A(m) = A(n)
  BY <1>1, <1>2, FS_Subset
<1>5. A(m) = A(n) <=> \A k \in m..n - 1 : text[k] # "if"
  <2>1. \A k \in 1..n - 1 : k \in 1..m - 1 \/ k \in m..n - 1
    OBVIOUS
  <2>2. \A k \in m..n - 1 : k \in 1..n - 1 /\ k \notin 1..m - 1
    OBVIOUS
  <2> QED BY <1>2, <2>1, <2>2
<1> QED BY <1>3, <1>4, <1>5 DEF Ifs, Endifs

(* A line more                                                             *)
LEMMA IfsNext ==
  ASSUME text \in Seq(Lines), NEW line \in Lines, text' = Append(text, line),
         NEW here \in Nat, here = Len(text) + 1
  PROVE  /\ \A n \in 1..here : Ifs(n)' = Ifs(n) /\ Endifs(n)' = Endifs(n)
         /\ Ifs(here + 1)' = IF line = "if" THEN Ifs(here) + 1 ELSE Ifs(here)
<1>1. /\ Len(text) \in Nat /\ text'[here] = line
      /\ \A m \in 1..Len(text) : text'[m] = text[m]
  BY AppendProperties
<1>2. \A n \in 1..here : \A k \in 1..n - 1 : text'[k] = text[k]
  BY <1>1
<1>3. \A n \in 1..here : Ifs(n)' = Ifs(n) /\ Endifs(n)' = Endifs(n)
  BY <1>2 DEF Ifs, Endifs
<1> DEFINE T == {k \in 1..here - 1 : text[k] = "if"}
           U == {k \in 1..here : text'[k] = "if"}
<1>4. Ifs(here) = Cardinality(T) /\ Ifs(here + 1)' = Cardinality(U)
  <2>1. (here + 1) - 1 = here
    OBVIOUS
  <2> QED BY <2>1 DEF Ifs
<1>5. IsFiniteSet(T) /\ here \notin T
  <2>1. IsFiniteSet(1..here - 1)
    BY FS_Interval
  <2> QED BY <2>1, FS_Subset
<1>6. U = IF line = "if" THEN T \cup {here} ELSE T
  <2>1. \A k \in 1..here : k \in 1..Len(text) \/ k = here
    BY <1>1
  <2>2. here \in 1..here /\ \A k \in 1..here - 1 : k \in 1..here /\ k \in 1..Len(text)
    BY <1>1
  <2>3. \A k : k \in U <=> k \in T \/ (k = here /\ line = "if")
    BY <1>1, <2>1, <2>2
  <2>4. CASE line = "if"
    BY <2>3, <2>4
  <2>5. CASE line # "if"
    BY <2>3, <2>5
  <2> QED BY <2>4, <2>5
<1>7. Cardinality(T \cup {here}) = Cardinality(T) + 1
  BY <1>5, FS_AddElement
<1> QED BY <1>3, <1>4, <1>6, <1>7

-----------------------------------------------------------------------------
(* What is kept                                                            *)

(* A line more leaves the branches of the lines before as they were, but   *)
(* for those that an #else ends.                                           *)
LEMMA BranchNext ==
  ASSUME text \in Seq(Lines), NEW line \in Lines, text' = Append(text, line),
         NEW here \in Nat, here = Len(text) + 1
  PROVE  /\ \A n \in 1..here : \A m \in 1..n : OtherBranch(m, n)' <=> OtherBranch(m, n)
         /\ \A m \in 1..Len(text) :
              OtherBranch(m, here + 1)' <=>
                \/ OtherBranch(m, here)
                \/ line = "else" /\ Ifs(m) = Ifs(here)
         /\ ~OtherBranch(here, here + 1)'
<1>1. /\ Len(text) \in Nat /\ text'[here] = line
      /\ \A m \in 1..Len(text) : text'[m] = text[m]
  BY AppendProperties
<1>2. ASSUME NEW n \in 1..here, NEW m \in 1..n
      PROVE  OtherBranch(m, n)' <=> OtherBranch(m, n)
  <2>1. \A d \in (m + 1)..(n - 1) : d \in 1..Len(text) /\ \A k \in m..d : k \in 1..Len(text)
    BY <1>1
  <2> QED BY <1>1, <2>1 DEF OtherBranch
<1>3. ASSUME NEW m \in 1..Len(text)
      PROVE  OtherBranch(m, here + 1)' <=>
               OtherBranch(m, here) \/ (line = "else" /\ Ifs(m) = Ifs(here))
  <2>1. \A d \in (m + 1)..((here + 1) - 1) : d \in (m + 1)..(here - 1) \/ d = here
    BY <1>1
  <2>2. \A d \in (m + 1)..(here - 1) : /\ d \in (m + 1)..((here + 1) - 1)
                                       /\ d \in 1..Len(text)
                                       /\ \A k \in m..d : k \in 1..Len(text)
    BY <1>1
  <2>3. here \in (m + 1)..((here + 1) - 1)
    BY <1>1
  <2>4. Ifs(m) = Ifs(here) <=> \A k \in m..here - 1 : text[k] # "if"
    BY <1>1, IfsGrow
  <2>5. line = "else" =>
          ((\A k \in m..here : text'[k] # "if") <=> (\A k \in m..here - 1 : text[k] # "if"))
    <3>1. \A k \in m..here : k \in m..here - 1 \/ k = here
      BY <1>1
    <3>2. \A k \in m..here - 1 : k \in m..here /\ k \in 1..Len(text)
      BY <1>1
    <3> QED BY <1>1, <3>1, <3>2
  <2>6. \A d \in (m + 1)..(here - 1) :
          (text'[d] = "else" /\ \A k \in m..d : text'[k] # "if") <=>
            (text[d] = "else" /\ \A k \in m..d : text[k] # "if")
    BY <1>1, <2>2
  <2> QED BY <1>1, <2>1, <2>2, <2>3, <2>4, <2>5, <2>6 DEF OtherBranch
<1>4. ~OtherBranch(here, here + 1)'
  <2>1. (here + 1)..((here + 1) - 1) = {}
    OBVIOUS
  <2> QED BY <2>1 DEF OtherBranch
<1> QED BY <1>2, <1>3, <1>4

(* What a line does to what is kept since each #if                         *)
LEMMA KeptNext ==
  ASSUME text \in Seq(Lines), NEW line \in Lines, text' = Append(text, line),
         NEW here \in Nat, here = Len(text) + 1, NEW ifs \in Nat,
         reports \subseteq reports',
         \A r \in reports' \ reports :
           r.check \in {"order", "duplicate"} => r.line = Len(text) + 1
  PROVE  /\ \A m \in 1..Len(text) : Item(m)' = Item(m)
         /\ Item(here)' = [header |-> line, line |-> here]
         /\ KeptAfter(ifs) \subseteq 1..Len(text)
         /\ KeptAfter(ifs)' =
              IF ifs = Ifs(here)
              THEN (IF line = "else" THEN {} ELSE KeptAfter(ifs))
                     \cup (IF Placed(here)' THEN {here} ELSE {})
              ELSE KeptAfter(ifs)
<1>1. /\ Len(text) \in Nat /\ Len(text') = here /\ text'[here] = line
      /\ \A m \in 1..Len(text) : text'[m] = text[m] /\ (Placed(m)' <=> Placed(m))
  BY LinesBefore
<1>2. /\ \A m \in 1..Len(text) : Ifs(m)' = Ifs(m)
      /\ Ifs(here)' = Ifs(here)
  BY <1>1, IfsNext
<1>3. /\ \A m \in 1..Len(text) :
           OtherBranch(m, here + 1)' <=> OtherBranch(m, here) \/ (line = "else" /\ Ifs(m) = Ifs(here))
      /\ ~OtherBranch(here, here + 1)'
  BY BranchNext
<1>4. Linenum = here /\ Linenum' = here + 1
  BY <1>1 DEF Linenum
<1>5. /\ \A m \in 1..Len(text) : Kept(m) <=> Placed(m) /\ ~OtherBranch(m, here)
      /\ \A m \in 1..here : Kept(m)' <=> Placed(m)' /\ ~OtherBranch(m, here + 1)'
  BY <1>4 DEF Kept
<1>6. \A m \in 1..Len(text) : m \in 1..here /\ m # here
  BY <1>1
<1>7. \A m \in 1..Len(text) :
        m \in KeptAfter(ifs)' <=> m \in KeptAfter(ifs) /\ ~(line = "else" /\ ifs = Ifs(here))
  BY <1>1, <1>2, <1>3, <1>5, <1>6 DEF KeptAfter
<1>8. here \in KeptAfter(ifs)' <=> Placed(here)' /\ ifs = Ifs(here)
  <2>1. here \in 1..here
    BY <1>1
  <2> QED BY <1>1, <1>2, <1>3, <1>5, <2>1 DEF KeptAfter
<1>9. \A m \in KeptAfter(ifs)' : m \in 1..Len(text) \/ m = here
  BY <1>1 DEF KeptAfter
<1>10. \A m \in KeptAfter(ifs) : m \in 1..Len(text)
  BY DEF KeptAfter
<1>11. \A m : m \in KeptAfter(ifs)' <=>
                \/ m \in KeptAfter(ifs) /\ ~(line = "else" /\ ifs = Ifs(here))
                \/ m = here /\ Placed(here)' /\ ifs = Ifs(here)
  BY <1>6, <1>7, <1>8, <1>9, <1>10
<1>12. KeptAfter(ifs)' =
         IF ifs = Ifs(here)
         THEN (IF line = "else" THEN {} ELSE KeptAfter(ifs))
                \cup (IF Placed(here)' THEN {here} ELSE {})
         ELSE KeptAfter(ifs)
  <2>1. ASSUME ifs # Ifs(here) PROVE KeptAfter(ifs)' = KeptAfter(ifs)
    BY <1>11, <2>1
  <2>2. ASSUME ifs = Ifs(here), line = "else", Placed(here)'
        PROVE  KeptAfter(ifs)' = {} \cup {here}
    BY <1>11, <2>2
  <2>3. ASSUME ifs = Ifs(here), line = "else", ~Placed(here)'
        PROVE  KeptAfter(ifs)' = {} \cup {}
    BY <1>11, <2>3
  <2>4. ASSUME ifs = Ifs(here), line # "else", Placed(here)'
        PROVE  KeptAfter(ifs)' = KeptAfter(ifs) \cup {here}
    BY <1>11, <2>4
  <2>5. ASSUME ifs = Ifs(here), line # "else", ~Placed(here)'
        PROVE  KeptAfter(ifs)' = KeptAfter(ifs) \cup {}
    BY <1>11, <2>5
  <2> QED BY <2>1, <2>2, <2>3, <2>4, <2>5
<1>13. \A m \in 1..Len(text) : Item(m)' = Item(m)
  BY <1>1 DEF Item
<1>14. Item(here)' = [header |-> line, line |-> here]
  BY <1>1 DEF Item
<1> QED BY <1>10, <1>12, <1>13, <1>14

(* A header is found exactly if an include of it is kept.                  *)
LEMMA FoundIfKept ==
  ASSUME text \in Seq(Lines), ListsInv, NEW h
  PROVE  FindHeader(h) <=> \E m \in 1..Len(text) : Kept(m) /\ text[m] = h
<1>0. Len(text) \in Nat /\ Linenum \in Nat /\ Linenum = Len(text) + 1
  BY DEF Linenum
<1>1. ASSUME FindHeader(h) PROVE \E m \in 1..Len(text) : Kept(m) /\ text[m] = h
  <2>1. PICK list \in ToSet(include_list) : \E item \in ToSet(list) : item.header = h
    BY <1>1 DEF FindHeader
  <2>2. PICK j \in 1..Len(include_list) : list = include_list[j]
    BY <2>1 DEF ListsInv, ToSet
  <2>3. PICK item \in ToSet(include_list[j]) : item.header = h
    BY <2>1, <2>2
  <2>4. PICK m \in KeptAfter(j - 1) : item = Item(m)
    BY <2>2, <2>3 DEF ListsInv
  <2> QED BY <2>3, <2>4 DEF KeptAfter, Item
<1>2. ASSUME NEW m \in 1..Len(text), Kept(m), text[m] = h PROVE FindHeader(h)
  <2>1. PICK ifs \in Nat : ifs = Ifs(m)
    BY <1>0, IfsAreNumbers
  <2>2. ifs <= Ifs(Linenum) /\ Ifs(Linenum) \in Nat
    <3>1. m \in Nat \ {0} /\ m <= Linenum
      BY <1>0
    <3> QED BY <1>0, <2>1, <3>1, IfsGrow, IfsAreNumbers
  <2>3. ifs + 1 \in 1..Len(include_list) /\ (ifs + 1) - 1 = ifs
    BY <2>2 DEF ListsInv
  <2>4. m \in KeptAfter(ifs)
    BY <1>2, <2>1 DEF KeptAfter
  <2>5. Item(m) \in ToSet(include_list[ifs + 1])
    BY <2>3, <2>4 DEF ListsInv
  <2>6. include_list[ifs + 1] \in ToSet(include_list)
    BY <2>3 DEF ListsInv, ToSet
  <2>7. Item(m).header = h
    BY <1>2 DEF Item
  <2> QED BY <2>5, <2>6, <2>7 DEF FindHeader
<1> QED BY <1>1, <1>2

-----------------------------------------------------------------------------
(* The steps, for what is remembered                                       *)

(* What replacing the last element of a sequence gives.                  *)
LEMMA LastReplaced ==
  ASSUME NEW S, NEW s \in Seq(S), s # <<>>, NEW e \in S
  PROVE  /\ Append(Front(s), e) \in Seq(S)
         /\ Len(Append(Front(s), e)) = Len(s)
         /\ Append(Front(s), e)[Len(s)] = e
         /\ \A j \in 1..Len(s) : j # Len(s) => Append(Front(s), e)[j] = s[j]
<1>1. Len(s) \in Nat \ {0}
  BY EmptySeq, LenProperties
<1>2. Front(s) \in Seq(S) /\ Len(Front(s)) = Len(s) - 1
      /\ \A j \in 1..Len(s) - 1 : Front(s)[j] = s[j]
  <2>1. PICK n \in Nat : Len(s) = n + 1
    BY <1>1
  <2>2. 1 \in 1..Len(s) + 1 /\ n \in 0..Len(s) /\ Front(s) = SubSeq(s, 1, n)
    BY <2>1 DEF Front
  <2>3. \A j \in 1..n : 1 + j - 1 = j
    OBVIOUS
  <2>4. Front(s) \in Seq(S) /\ Len(Front(s)) = n /\ \A j \in 1..n : Front(s)[j] = s[j]
    BY <2>1, <2>2, <2>3, SubSeqProperties
  <2> QED BY <2>1, <2>4
<1> QED BY <1>1, <1>2, AppendProperties

(* The elements of a longer sequence.                                    *)
LEMMA OneElementMore ==
  ASSUME NEW S, NEW s \in Seq(S), NEW e \in S
  PROVE  ToSet(Append(s, e)) = ToSet(s) \cup {e}
<1>1. Len(s) \in Nat /\ Len(Append(s, e)) = Len(s) + 1 /\ DOMAIN s = 1..Len(s)
      /\ DOMAIN Append(s, e) = 1..Len(s) + 1
  BY AppendProperties, LenProperties
<1>2. Append(s, e)[Len(s) + 1] = e /\ \A j \in 1..Len(s) : Append(s, e)[j] = s[j]
  BY AppendProperties
<1>3. \A j \in 1..Len(s) + 1 : j \in 1..Len(s) \/ j = Len(s) + 1
  BY <1>1
<1>4. Len(s) + 1 \in 1..Len(s) + 1 /\ \A j \in 1..Len(s) : j \in 1..Len(s) + 1
  BY <1>1
<1>5. \A x : x \in ToSet(Append(s, e)) <=> x \in ToSet(s) \/ x = e
  BY <1>1, <1>2, <1>3, <1>4 DEF ToSet
<1> QED BY <1>5

(* A line that takes no place and is no directive of a branch              *)
LEMMA SameLists ==
  ASSUME text \in Seq(Lines), ListsInv, NEW line \in Lines, text' = Append(text, line),
         NEW here \in Nat, here = Len(text) + 1,
         reports \subseteq reports',
         \A r \in reports' \ reports :
           r.check \in {"order", "duplicate"} => r.line = Len(text) + 1,
         line \notin {"if", "else"}, ~Placed(here)', include_list' = include_list
  PROVE  ListsInv'
<1>1. Linenum = here /\ Linenum' = here + 1
  BY LinesBefore DEF Linenum
<1>2. Ifs(here + 1)' = Ifs(here)
  BY IfsNext
<1>3. \A ifs \in Nat : KeptAfter(ifs)' = KeptAfter(ifs) /\ \A m \in KeptAfter(ifs) : Item(m)' = Item(m)
  <2> TAKE ifs \in Nat
  <2>1. KeptAfter(ifs)' = IF ifs = Ifs(here) THEN KeptAfter(ifs) \cup {} ELSE KeptAfter(ifs)
    BY KeptNext
  <2>2. KeptAfter(ifs) \subseteq 1..Len(text) /\ \A m \in 1..Len(text) : Item(m)' = Item(m)
    BY KeptNext
  <2> QED BY <2>1, <2>2
<1>4. \A ifs \in Nat : {Item(m)' : m \in KeptAfter(ifs)'} = {Item(m) : m \in KeptAfter(ifs)}
  BY <1>3
<1>5. \A j \in 1..Len(include_list) : j - 1 \in Nat
  OBVIOUS
<1>6. \A j \in 1..Len(include_list) : ToSet(include_list[j]) = {Item(m)' : m \in KeptAfter(j - 1)'}
  BY <1>4, <1>5 DEF ListsInv
<1> QED BY <1>1, <1>2, <1>6 DEF ListsInv

(* An include that takes a place is added to the last list.                *)
LEMMA GrownList ==
  ASSUME text \in Seq(Lines), ListsInv, NEW h \in Headers, text' = Append(text, h),
         h \in Lines, h \notin Directives,
         NEW here \in Nat, here = Len(text) + 1,
         reports \subseteq reports',
         \A r \in reports' \ reports :
           r.check \in {"order", "duplicate"} => r.line = Len(text) + 1,
         Placed(here)',
         include_list' = Append(Front(include_list),
                                Append(Last(include_list), [header |-> h, line |-> here]))
  PROVE  ListsInv'
<1> DEFINE new == [header |-> h, line |-> here]
           last == Len(include_list)
           I == [header : Headers, line : Nat]
<1>0. h # "if" /\ h # "else" /\ new \in I
  BY DEF Directives
<1>1. Linenum = here /\ Linenum' = here + 1
  BY LinesBefore DEF Linenum
<1>2. Ifs(here + 1)' = Ifs(here) /\ Ifs(here) \in Nat
  BY <1>0, IfsNext, IfsAreNumbers
<1>3. /\ include_list \in Seq(Seq(I)) /\ last \in Nat \ {0} /\ last = Ifs(here) + 1
      /\ Last(include_list) = include_list[last] /\ include_list[last] \in Seq(I)
      /\ include_list # <<>>
  <2>1. include_list \in Seq(Seq(I)) /\ last = Ifs(here) + 1
    BY <1>1 DEF ListsInv
  <2>2. last \in Nat \ {0} /\ last \in 1..Len(include_list)
    <3>1. PICK ifs \in Nat : last = ifs + 1
      BY <1>2, <2>1
    <3> QED BY <3>1
  <2> QED BY <2>1, <2>2, ElementOfSeq DEF Last
<1> HIDE DEF new, last, I
<1>4. Append(include_list[last], new) \in Seq(I)
  BY <1>0, <1>3, AppendProperties
<1>5. /\ include_list' \in Seq(Seq(I)) /\ Len(include_list') = last
      /\ include_list'[last] = Append(include_list[last], new)
      /\ \A j \in 1..last : j # last => include_list'[j] = include_list[j]
  <2> DEFINE e == Append(include_list[last], new)
  <2>1. e \in Seq(I) /\ include_list \in Seq(Seq(I)) /\ include_list # <<>>
    BY <1>3, <1>4, Zenon
  <2>2. include_list' = Append(Front(include_list), e)
    BY <1>3, Zenon DEF new
  <2> HIDE DEF e
  <2>3. /\ Append(Front(include_list), e) \in Seq(Seq(I))
        /\ Len(Append(Front(include_list), e)) = Len(include_list)
        /\ Append(Front(include_list), e)[Len(include_list)] = e
        /\ \A j \in 1..Len(include_list) :
             j # Len(include_list) => Append(Front(include_list), e)[j] = include_list[j]
    BY <2>1, LastReplaced
  <2> QED BY <2>2, <2>3, Zenon DEF last, e
<1>6. ASSUME NEW ifs \in Nat
      PROVE  /\ \A m \in KeptAfter(ifs) : Item(m)' = Item(m)
             /\ Item(here)' = new
             /\ ifs = Ifs(here) => KeptAfter(ifs)' = KeptAfter(ifs) \cup {here}
             /\ ifs # Ifs(here) => KeptAfter(ifs)' = KeptAfter(ifs)
  <2>1. KeptAfter(ifs)' = IF ifs = Ifs(here) THEN KeptAfter(ifs) \cup {here} ELSE KeptAfter(ifs)
    BY <1>0, KeptNext
  <2>2. /\ KeptAfter(ifs) \subseteq 1..Len(text) /\ \A m \in 1..Len(text) : Item(m)' = Item(m)
        /\ Item(here)' = [header |-> h, line |-> here]
    BY KeptNext
  <2> QED BY <2>1, <2>2 DEF new
<1>7. ASSUME NEW j \in 1..last
      PROVE  ToSet(include_list'[j]) = {Item(m)' : m \in KeptAfter(j - 1)'}
  <2>0. j - 1 \in Nat /\ (j = last <=> j - 1 = Ifs(here))
    <3>1. PICK ifs \in Nat : ifs = Ifs(here)
      BY <1>2
    <3>2. last = ifs + 1
      BY <1>3, <3>1
    <3>3. j \in 1..ifs + 1
      BY <3>2
    <3>4. j - 1 \in Nat /\ (j = ifs + 1 <=> j - 1 = ifs)
      BY <3>3
    <3> QED BY <3>1, <3>2, <3>4
  <2>1. ToSet(include_list[j]) = {Item(m) : m \in KeptAfter(j - 1)}
    BY DEF ListsInv, last
  <2>2. CASE j # last
    <3>1. include_list'[j] = include_list[j]
      BY <1>5, <2>2
    <3>2. KeptAfter(j - 1)' = KeptAfter(j - 1) /\ \A m \in KeptAfter(j - 1) : Item(m)' = Item(m)
      BY <1>6, <2>0, <2>2
    <3>3. {Item(m)' : m \in KeptAfter(j - 1)'} = {Item(m) : m \in KeptAfter(j - 1)}
      BY <3>2
    <3> QED BY <2>1, <3>1, <3>3, Zenon
  <2>3. CASE j = last
    <3>1. ToSet(include_list'[last]) = ToSet(include_list[last]) \cup {new}
      <4>1. include_list'[last] = Append(include_list[last], new)
        BY <1>5
      <4>2. include_list[last] \in Seq(I) /\ new \in I
        BY <1>0, <1>3
      <4>3. ToSet(Append(include_list[last], new)) = ToSet(include_list[last]) \cup {new}
        BY <4>2, OneElementMore
      <4> QED BY <4>1, <4>3, Zenon
    <3>2. KeptAfter(j - 1)' = KeptAfter(j - 1) \cup {here}
      BY <1>6, <2>0, <2>3
    <3>3. {Item(m)' : m \in KeptAfter(j - 1) \cup {here}} = {Item(m) : m \in KeptAfter(j - 1)} \cup {new}
      BY <1>6, <2>0
    <3> QED BY <2>1, <2>3, <3>1, <3>2, <3>3
  <2> QED BY <2>2, <2>3
<1> QED BY <1>1, <1>2, <1>3, <1>5, <1>7 DEF ListsInv, I

(* #if begins a list, #else empties the last one (ResetSection).           *)
LEMMA ResetLists ==
  ASSUME text \in Seq(Lines), ListsInv, NEW line \in Directives, text' = Append(text, line),
         line \in Lines, line \notin Headers,
         NEW here \in Nat, here = Len(text) + 1,
         reports' = reports, include_list' = Lists(line)
  PROVE  ListsInv'
<1> DEFINE last == Len(include_list)
           I == [header : Headers, line : Nat]
<1>1. Linenum = here /\ Linenum' = here + 1 /\ ~Placed(here)' /\ Len(text) \in Nat
  BY LinesBefore DEF Linenum, Placed, Ordinary
<1>2. /\ Ifs(here + 1)' = IF line = "if" THEN Ifs(here) + 1 ELSE Ifs(here)
      /\ Ifs(here) \in Nat
  BY IfsNext, IfsAreNumbers
<1>3. /\ include_list \in Seq(Seq(I)) /\ last = Ifs(here) + 1
      /\ \A j \in 1..last : ToSet(include_list[j]) = {Item(m) : m \in KeptAfter(j - 1)}
  BY <1>1 DEF ListsInv
<1> HIDE DEF last, I
<1>4. PICK ifs \in Nat : ifs = Ifs(here)
  BY <1>2
<1>5. last = ifs + 1 /\ include_list # <<>>
  <2>1. last = ifs + 1
    BY <1>3, <1>4
  <2> QED BY <2>1 DEF last
<1>6. ASSUME NEW n \in Nat
      PROVE  /\ \A m \in KeptAfter(n) : Item(m)' = Item(m)
             /\ KeptAfter(n)' = IF n = ifs /\ line = "else" THEN {} ELSE KeptAfter(n)
  <2>1. KeptAfter(n)' = IF n = ifs THEN (IF line = "else" THEN {} ELSE KeptAfter(n)) ELSE KeptAfter(n)
    BY <1>1, <1>4, KeptNext
  <2>2. KeptAfter(n) \subseteq 1..Len(text) /\ \A m \in 1..Len(text) : Item(m)' = Item(m)
    BY KeptNext
  <2> QED BY <2>1, <2>2
<1>7. \A n \in Nat : ~(n = ifs /\ line = "else") =>
        {Item(m)' : m \in KeptAfter(n)'} = {Item(m) : m \in KeptAfter(n)}
  BY <1>6
<1>8. ToSet(<<>>) = {} /\ <<>> \in Seq(I)
  BY EmptySeq DEF ToSet
<1>9. \A j \in 1..ifs + 1 : j - 1 \in Nat /\ (j # ifs + 1 => j - 1 # ifs)
  OBVIOUS
<1>10. CASE line = "endif"
  <2>1. include_list' = include_list
    BY <1>10 DEF Lists
  <2> QED BY <1>1, <1>10, <2>1, SameLists
<1>11. CASE line = "if"
  <2>1. include_list' = Append(include_list, <<>>)
    BY <1>11 DEF Lists
  <2>2. /\ include_list' \in Seq(Seq(I)) /\ Len(include_list') = ifs + 2
        /\ include_list'[ifs + 2] = <<>>
        /\ \A j \in 1..ifs + 1 : include_list'[j] = include_list[j]
    <3>1. /\ include_list' \in Seq(Seq(I)) /\ Len(include_list') = last + 1
          /\ include_list'[last + 1] = <<>>
          /\ \A j \in 1..last : include_list'[j] = include_list[j]
      BY <1>3, <1>8, <2>1, AppendProperties DEF last
    <3>2. last + 1 = ifs + 2
      BY <1>5
    <3> QED BY <1>5, <3>1, <3>2
  <2>3. KeptAfter(ifs + 1) = {}
    <3>1. \A m \in 1..Len(text) : Ifs(m) # ifs + 1
      <4> TAKE m \in 1..Len(text)
      <4>1. m \in Nat \ {0} /\ m <= here
        BY <1>1
      <4>2. Ifs(m) <= ifs /\ Ifs(m) \in Nat
        BY <1>4, <4>1, IfsGrow, IfsAreNumbers
      <4> QED BY <4>2
    <3> QED BY <3>1 DEF KeptAfter
  <2>4. \A j \in 1..ifs + 1 : ToSet(include_list'[j]) = {Item(m)' : m \in KeptAfter(j - 1)'}
    BY <1>3, <1>5, <1>7, <1>9, <1>11, <2>2
  <2>5. ToSet(include_list'[ifs + 2]) = {Item(m)' : m \in KeptAfter(ifs + 1)'}
    <3>1. KeptAfter(ifs + 1)' = {}
      BY <1>6, <1>11, <2>3
    <3> QED BY <1>8, <2>2, <3>1
  <2>6. \A j \in 1..ifs + 2 : ToSet(include_list'[j]) = {Item(m)' : m \in KeptAfter(j - 1)'}
    <3>1. \A j \in 1..ifs + 2 : j \in 1..ifs + 1 \/ j = ifs + 2
      OBVIOUS
    <3>2. (ifs + 2) - 1 = ifs + 1
      OBVIOUS
    <3> QED BY <2>4, <2>5, <3>1, <3>2
  <2>7. Len(include_list') = Ifs(here + 1)' + 1
    BY <1>2, <1>4, <1>11, <2>2, SMTT(30)
  <2> QED BY <1>1, <2>2, <2>6, <2>7 DEF ListsInv, I
<1>12. CASE line = "else"
  <2>1. include_list' = Append(Front(include_list), <<>>)
    BY <1>12 DEF Lists
  <2>2. /\ include_list' \in Seq(Seq(I)) /\ Len(include_list') = last
        /\ include_list'[last] = <<>>
        /\ \A j \in 1..last : j # last => include_list'[j] = include_list[j]
    BY <1>3, <1>5, <1>8, <2>1, LastReplaced, SMTT(30) DEF last
  <2>3. \A j \in 1..ifs + 1 : j # ifs + 1 =>
          ToSet(include_list'[j]) = {Item(m)' : m \in KeptAfter(j - 1)'}
    BY <1>3, <1>5, <1>7, <1>9, <2>2
  <2>4. ToSet(include_list'[ifs + 1]) = {Item(m)' : m \in KeptAfter(ifs)'}
    <3>1. KeptAfter(ifs)' = {}
      BY <1>6, <1>12
    <3> QED BY <1>5, <1>8, <2>2, <3>1
  <2>5. \A j \in 1..ifs + 1 : ToSet(include_list'[j]) = {Item(m)' : m \in KeptAfter(j - 1)'}
    <3>1. (ifs + 1) - 1 = ifs
      OBVIOUS
    <3> QED BY <2>3, <2>4, <3>1
  <2>6. Ifs(here + 1)' = Ifs(here)
    BY <1>2, <1>12
  <2> QED BY <1>1, <1>3, <1>5, <2>2, <2>5, <2>6 DEF ListsInv, I
<1> QED BY <1>10, <1>11, <1>12 DEF Directives

(* An include is reported as a duplicate exactly if it is found.           *)
LEMMA DuplicatesNext ==
  ASSUME text \in Seq(Lines), ListsInv, DuplicatesInv, NEW line \in Lines, text' = Append(text, line),
         NEW here \in Nat, here = Len(text) + 1,
         reports \subseteq reports',
         \A r \in reports' \ reports :
           r.check \in {"order", "duplicate"} => r.line = Len(text) + 1,
         Ordinary(here)' => (Reported("duplicate", here)' <=> FindHeader(line))
  PROVE  DuplicatesInv'
<1>1. /\ Len(text) \in Nat /\ Len(text') = here /\ text'[here] = line
      /\ \A m \in 1..Len(text) : text'[m] = text[m] /\ (Placed(m)' <=> Placed(m))
  BY LinesBefore
<1>2. \A m \in 1..Len(text) : Ordinary(m)' <=> Ordinary(m)
  BY <1>1 DEF Ordinary
<1>3. \A m \in 1..Len(text) : Reported("duplicate", m)' <=> Reported("duplicate", m)
  BY <1>1 DEF Reported
<1>4. \A n \in 1..here : \A m \in 1..n : OtherBranch(m, n)' <=> OtherBranch(m, n)
  BY BranchNext
<1>5. \A n \in 1..here : \A m \in 1..n - 1 : m \in 1..Len(text) /\ m \in 1..n
  BY <1>1
<1>6. ASSUME NEW n \in 1..Len(text), Ordinary(n)'
      PROVE  Reported("duplicate", n)' <=>
               \E m \in 1..n - 1 : text'[m] = text'[n] /\ Placed(m)' /\ ~OtherBranch(m, n)'
  <2>1. Reported("duplicate", n) <=>
          \E m \in 1..n - 1 : text[m] = text[n] /\ Placed(m) /\ ~OtherBranch(m, n)
    BY <1>2, <1>6 DEF DuplicatesInv
  <2>2. n \in 1..here
    BY <1>1
  <2> QED BY <1>1, <1>3, <1>4, <1>5, <2>1, <2>2
<1>7. ASSUME Ordinary(here)'
      PROVE  Reported("duplicate", here)' <=>
               \E m \in 1..here - 1 : text'[m] = text'[here] /\ Placed(m)' /\ ~OtherBranch(m, here)'
  <2>1. FindHeader(line) <=> \E m \in 1..Len(text) : Kept(m) /\ text[m] = line
    BY FoundIfKept
  <2>2. \A m \in 1..Len(text) : Kept(m) <=> Placed(m) /\ ~OtherBranch(m, here)
    BY DEF Kept, Linenum
  <2>3. 1..here - 1 = 1..Len(text) /\ here \in 1..here
    BY <1>1
  <2> QED BY <1>1, <1>4, <1>5, <1>7, <2>1, <2>2, <2>3
<1>8. \A n \in 1..here : n \in 1..Len(text) \/ n = here
  BY <1>1
<1> QED BY <1>1, <1>6, <1>7, <1>8 DEF DuplicatesInv

(* The reports about a line are not those at the end of the file.        *)
LEMMA ReadsCheckLines ==
  \A check \in {"order", "alpha", "duplicate", "cc"} : check \notin ChecksAtEnd
BY DEF ChecksAtEnd

(* Reports about lines leave what is known of the end alone.             *)
LEMMA EndStays ==
  ASSUME EndInv, ended' = ended,
         \A r \in reports' \ reports : r.check \notin ChecksAtEnd
  PROVE  EndInv'
BY Zenon DEF EndInv

(* An include adds itself to the last list, as it should.                *)
LEMMA IncludeRemembers ==
  ASSUME OrderInv, RememberInv, NEW h \in Headers, Include(h)
  PROVE  RememberInv'
<1>0. text \in Seq(Lines) /\ h \in Lines /\ h \notin Directives /\ ListsInv /\ DuplicatesInv /\ EndInv
  BY IncludeAssumption DEF OrderInv, Lines, RememberInv
<1>1. /\ text' = Append(text, h)
      /\ ~FindHeader(h) /\ ~Header[h].foreign_cc /\ ~Header[h].third_party
      /\ include_list' = Append(Front(include_list),
                                Append(Last(include_list), [header |-> h, line |-> Linenum]))
      /\ reports \subseteq reports'
      /\ ended' = ended
  BY DEF Include, Read, Skipped
<1>2. \A r \in reports' \ reports : r.check \in {"order", "alpha"} /\ r.line = Len(text) + 1
  BY DEF Include, Report, Linenum
<1>3. PICK here \in Nat : here = Len(text) + 1
  BY <1>0
<1>4. Len(text) \in Nat /\ text'[here] = h
  BY <1>0, <1>1, <1>2, <1>3, LinesBefore
<1>5. ~Reported("duplicate", here)'
  <2>1. \A r \in reports : r.check \in {"order", "duplicate"} => r.line \in 1..Len(text)
    BY DEF OrderInv, LinesInv
  <2>2. \A r \in reports' : ~(r.check = "duplicate" /\ r.line = here)
    BY <1>2, <1>3, <1>4, <2>1
  <2> QED BY <2>2 DEF Reported
<1>6. Placed(here)'
  BY <1>1, <1>4, <1>5 DEF Placed, Ordinary
<1>7. ListsInv'
  <2>1. include_list' = Append(Front(include_list),
                               Append(Last(include_list), [header |-> h, line |-> here]))
    BY <1>1, <1>3 DEF Linenum
  <2> QED BY <1>0, <1>1, <1>2, <1>3, <1>6, <2>1, GrownList
<1>8. DuplicatesInv'
  BY <1>0, <1>1, <1>2, <1>3, <1>5, DuplicatesNext
<1>9. EndInv'
  <2>1. \A r \in reports' \ reports : r.check \notin ChecksAtEnd
    BY <1>2, ReadsCheckLines
  <2>2. EndInv /\ ended' = ended
    BY <1>0, <1>1
  <2> QED BY <2>1, <2>2, EndStays
<1> QED BY <1>7, <1>8, <1>9 DEF RememberInv

(* An include that is only reported, or not looked at, adds nothing.     *)
LEMMA SkipRemembers ==
  ASSUME OrderInv, RememberInv, NEW h \in Headers, SkipInclude(h)
  PROVE  RememberInv'
<1>0. text \in Seq(Lines) /\ h \in Lines /\ h \notin Directives /\ ListsInv /\ DuplicatesInv /\ EndInv
  BY IncludeAssumption DEF OrderInv, Lines, RememberInv
<1>1. /\ text' = Append(text, h) /\ include_list' = include_list /\ ended' = ended
      /\ reports' = reports \cup
           (IF FindHeader(h) THEN {Report("duplicate", h, Linenum)}
            ELSE IF Header[h].foreign_cc THEN {Report("cc", h, Linenum)} ELSE {})
      /\ FindHeader(h) \/ Header[h].foreign_cc \/ Header[h].third_party
  BY DEF SkipInclude, Read, Skipped
<1>2. /\ reports \subseteq reports'
      /\ \A r \in reports' \ reports : r.check \in {"cc", "duplicate"} /\ r.line = Len(text) + 1
  BY <1>1 DEF Report, Linenum
<1>3. PICK here \in Nat : here = Len(text) + 1
  BY <1>0
<1>4. Len(text) \in Nat /\ text'[here] = h
  BY <1>0, <1>1, <1>2, <1>3, LinesBefore
<1>5. FindHeader(h) => Reported("duplicate", here)'
  <2> SUFFICES ASSUME FindHeader(h) PROVE Reported("duplicate", here)'
    OBVIOUS
  <2>1. Report("duplicate", h, here) \in reports'
    BY <1>1, <1>3 DEF Linenum
  <2> QED BY <2>1 DEF Reported, Report
<1>6. Ordinary(here)' => FindHeader(h)
  BY <1>1, <1>4 DEF Ordinary
<1>7. ~Placed(here)'
  BY <1>5, <1>6 DEF Placed
<1>8. ListsInv'
  <2>1. h \notin {"if", "else"}
    BY <1>0 DEF Directives
  <2> QED BY <1>0, <1>1, <1>2, <1>3, <1>7, <2>1, SameLists
<1>9. DuplicatesInv'
  BY <1>0, <1>1, <1>2, <1>3, <1>5, <1>6, DuplicatesNext
<1>10. EndInv'
  <2>1. \A r \in reports' \ reports : r.check \notin ChecksAtEnd
    BY <1>2, ReadsCheckLines
  <2>2. EndInv /\ ended' = ended
    BY <1>0, <1>1
  <2> QED BY <2>1, <2>2, EndStays
<1> QED BY <1>8, <1>9, <1>10 DEF RememberInv

(* A directive opens a list or empties the last one.                     *)
LEMMA ResetRemembers ==
  ASSUME OrderInv, RememberInv, NEW directive \in Directives, ResetSection(directive)
  PROVE  RememberInv'
<1>0. /\ text \in Seq(Lines) /\ directive \in Lines /\ directive \notin Headers
      /\ ListsInv /\ DuplicatesInv /\ EndInv
  BY IncludeAssumption DEF OrderInv, Lines, RememberInv
<1>1. /\ text' = Append(text, directive) /\ include_list' = Lists(directive)
      /\ reports' = reports /\ ended' = ended
  BY DEF ResetSection, Read
<1>2. PICK here \in Nat : here = Len(text) + 1
  BY <1>0
<1>3. ~Ordinary(here)'
  BY <1>0, <1>1, <1>2, LinesBefore DEF Ordinary
<1>4. ListsInv'
  BY <1>0, <1>1, <1>2, ResetLists
<1>5. DuplicatesInv'
  BY <1>0, <1>1, <1>2, <1>3, DuplicatesNext
<1>6. EndInv'
  <2>1. EndInv /\ ended' = ended /\ \A r \in reports' \ reports : r.check \notin ChecksAtEnd
    BY <1>0, <1>1
  <2> QED BY <2>1, EndStays
<1> QED BY <1>4, <1>5, <1>6 DEF RememberInv

(* A line of code adds no include.                                       *)
LEMMA CodeRemembers ==
  ASSUME OrderInv, RememberInv, Code
  PROVE  RememberInv'
<1>0. /\ text \in Seq(Lines) /\ "code" \in Lines /\ "code" \notin Headers
      /\ ListsInv /\ DuplicatesInv /\ EndInv
  BY IncludeAssumption DEF OrderInv, Lines, RememberInv
<1>1. /\ text' = Append(text, "code") /\ include_list' = include_list
      /\ reports' = reports /\ ended' = ended
  BY DEF Code, Read
<1>2. PICK here \in Nat : here = Len(text) + 1
  BY <1>0
<1>3. ~Ordinary(here)' /\ ~Placed(here)'
  BY <1>0, <1>1, <1>2, LinesBefore DEF Placed, Ordinary
<1>4. ListsInv'
  BY <1>0, <1>1, <1>2, <1>3, SameLists
<1>5. DuplicatesInv'
  BY <1>0, <1>1, <1>2, <1>3, DuplicatesNext
<1>6. EndInv'
  <2>1. EndInv /\ ended' = ended /\ \A r \in reports' \ reports : r.check \notin ChecksAtEnd
    BY <1>0, <1>1
  <2> QED BY <2>1, EndStays
<1> QED BY <1>4, <1>5, <1>6 DEF RememberInv

(* Reports of the file change nothing of the lines.                        *)
LEMMA NoLineRemembers ==
  ASSUME RememberInv, text' = text, include_list' = include_list, reports \subseteq reports',
         \A r \in reports' \ reports : r.check # "duplicate", EndInv'
  PROVE  RememberInv'
<1>1. \A m \in 1..Len(text) : Reported("duplicate", m)' <=> Reported("duplicate", m)
  BY DEF Reported
<1>2. \A m \in 1..Len(text) : (Ordinary(m)' <=> Ordinary(m)) /\ (Placed(m)' <=> Placed(m))
  BY <1>1 DEF Placed, Ordinary
<1>3. Linenum' = Linenum /\ \A m, n : OtherBranch(m, n)' <=> OtherBranch(m, n)
  BY DEF Linenum, OtherBranch
<1>4. \A ifs : KeptAfter(ifs)' = KeptAfter(ifs)
  BY <1>2, <1>3 DEF KeptAfter, Kept, Ifs
<1>5. ListsInv'
  BY <1>3, <1>4 DEF RememberInv, ListsInv, Item, Ifs
<1>6. DuplicatesInv'
  <2> SUFFICES ASSUME NEW n \in 1..Len(text), Ordinary(n)'
               PROVE  Reported("duplicate", n)' <=>
                        \E m \in 1..n - 1 : text[m] = text[n] /\ Placed(m)' /\ ~OtherBranch(m, n)'
    BY DEF DuplicatesInv
  <2>1. Reported("duplicate", n) <=>
          \E m \in 1..n - 1 : text[m] = text[n] /\ Placed(m) /\ ~OtherBranch(m, n)
    BY <1>2 DEF RememberInv, DuplicatesInv
  <2>2. \A m \in 1..n - 1 : m \in 1..Len(text)
    OBVIOUS
  <2> QED BY <1>1, <1>2, <1>3, <2>1, <2>2
<1> QED BY <1>5, <1>6 DEF RememberInv

(* The end of the file leaves the lists alone.                           *)
LEMMA EndOfFileRemembers ==
  ASSUME RememberInv, EndOfFile
  PROVE  RememberInv'
<1>1. PICK ending \in Endings :
        /\ reports' = reports \cup CheckForIncludeWhatYouUse(ending)
                            \cup CheckHeaderFileIncluded(ending)
        /\ text' = text /\ include_list' = include_list /\ ended' = TRUE
  BY DEF EndOfFile
<1>2. \A r \in CheckForIncludeWhatYouUse(ending) : r.check = "missing"
  BY DEF CheckForIncludeWhatYouUse, Report
<1>3. \A r \in CheckHeaderFileIncluded(ending) : r.check = "own"
  <2>1. Report("own", "none", FirstInclude).check = "own"
    BY DEF Report
  <2> QED BY <2>1 DEF CheckHeaderFileIncluded
<1>4. EndInv'
  BY <1>1 DEF EndInv
<1>5. \A r \in reports' \ reports : r.check # "duplicate"
  BY <1>1, <1>2, <1>3
<1>6. reports \subseteq reports'
  BY <1>1
<1> QED BY <1>1, <1>4, <1>5, <1>6, NoLineRemembers

(* A new file has one empty list.                                        *)
LEMMA InitRemembers ==
  ASSUME Init
  PROVE  RememberInv
<1>1. text = <<>> /\ include_list = << <<>> >> /\ reports = {}
  BY DEF Init
<1>2. Len(text) = 0 /\ 1..Len(text) = {} /\ Linenum = 1
  BY <1>1 DEF Linenum
<1>3. Ifs(Linenum) = 0
  <2>1. {k \in 1..Linenum - 1 : text[k] = "if"} = {}
    BY <1>2
  <2> QED BY <2>1, FS_EmptySet DEF Ifs
<1>4. \A ifs : KeptAfter(ifs) = {}
  BY <1>2 DEF KeptAfter
<1>5. ListsInv
  <2> DEFINE I == [header : Headers, line : Nat]
  <2>1. <<>> \in Seq(I) /\ ToSet(<<>>) = {}
    BY EmptySeq DEF ToSet
  <2> HIDE DEF I
  <2>2. include_list \in Seq(Seq(I)) /\ Len(include_list) = 1 /\ include_list[1] = <<>>
    BY <1>1, <2>1
  <2>3. \A j \in 1..Len(include_list) : ToSet(include_list[j]) = {Item(m) : m \in KeptAfter(j - 1)}
    <3>1. \A j \in 1..Len(include_list) : j = 1
      BY <2>2
    <3> QED BY <1>4, <2>1, <2>2, <3>1
  <2> QED BY <1>3, <2>2, <2>3 DEF ListsInv, I
<1>6. DuplicatesInv
  BY <1>2 DEF DuplicatesInv
<1>7. EndInv
  BY <1>1 DEF EndInv
<1> QED BY <1>5, <1>6, <1>7 DEF RememberInv

-----------------------------------------------------------------------------
(* The lists remember what no #else has ended, in files of every length    *)
(* and with directives in any order, balanced or not.                      *)
THEOREM RememberInvHolds == Spec => []RememberInv
<1>1. Init => RememberInv
  BY InitRemembers
<1>2. OrderInv /\ RememberInv /\ [Next]_vars => RememberInv'
  <2> SUFFICES ASSUME OrderInv, RememberInv, [Next]_vars PROVE RememberInv'
    OBVIOUS
  <2>1. ASSUME NEW h \in Headers, Include(h) PROVE RememberInv'
    BY <2>1, IncludeRemembers
  <2>2. ASSUME NEW h \in Headers, SkipInclude(h) PROVE RememberInv'
    BY <2>2, SkipRemembers
  <2>3. ASSUME NEW directive \in Directives, ResetSection(directive) PROVE RememberInv'
    BY <2>3, ResetRemembers
  <2>4. CASE Code
    BY <2>4, CodeRemembers
  <2>5. CASE EndOfFile
    BY <2>5, EndOfFileRemembers
  <2>6. CASE UNCHANGED vars
    <3>1. text' = text /\ include_list' = include_list /\ reports' = reports /\ ended' = ended
      BY <2>6 DEF vars
    <3>2. EndInv'
      <4>1. EndInv /\ ended' = ended /\ \A r \in reports' \ reports : r.check \notin ChecksAtEnd
        BY <3>1 DEF RememberInv
      <4> QED BY <4>1, EndStays
    <3> QED BY <3>1, <3>2, NoLineRemembers
  <2> QED BY <2>1, <2>2, <2>3, <2>4, <2>5, <2>6 DEF Next
<1> QED BY <1>1, <1>2, OrderInvHolds, PTL DEF Spec

(* The first include of a header that is kept is the one that counts.      *)
LEMMA FirstIsPlaced ==
  ASSUME text \in Seq(Lines), DuplicatesInv, NEW m \in 1..Len(text), Ordinary(m)
  PROVE  \/ Placed(m)
         \/ \E k \in 1..m - 1 : text[k] = text[m] /\ Placed(k) /\ ~OtherBranch(k, m)
BY DEF Placed, DuplicatesInv

(* A branch that was not ended before line m and not since                 *)
LEMMA BranchesJoin ==
  ASSUME text \in Seq(Lines), NEW m \in 1..Len(text), text[m] \in Headers,
         NEW k \in 1..m - 1, NEW n \in Nat, m < n,
         ~OtherBranch(k, m), ~OtherBranch(m, n)
  PROVE  ~OtherBranch(k, n)
<1> SUFFICES ASSUME NEW d \in (k + 1)..(n - 1), text[d] = "else", \A i \in k..d : text[i] # "if"
             PROVE  FALSE
  BY DEF OtherBranch
<1>1. text[m] # "else"
  BY IncludeAssumption DEF Directives
<1>2. Len(text) \in Nat
  OBVIOUS
<1>3. d # m
  BY <1>1
<1>4. CASE d < m
  <2>1. d \in (k + 1)..(m - 1)
    BY <1>2, <1>4
  <2> QED BY <2>1 DEF OtherBranch
<1>5. CASE d > m
  <2>1. d \in (m + 1)..(n - 1) /\ \A i \in m..d : i \in k..d
    BY <1>2, <1>5
  <2> QED BY <2>1 DEF OtherBranch
<1> QED BY <1>2, <1>3, <1>4, <1>5

(* A duplicate is reported if the list is what it should be.             *)
LEMMA DuplicatesFromInv ==
  ASSUME text \in Seq(Lines), DuplicatesInv
  PROVE  DuplicateReported
<1>0. Len(text) \in Nat
  OBVIOUS
<1> SUFFICES ASSUME NEW n \in 1..Len(text), Ordinary(n)
             PROVE  Reported("duplicate", n) <=>
                      \E m \in 1..n - 1 : text[m] = text[n] /\ ~OtherBranch(m, n)
  BY DEF DuplicateReported
<1>1. Reported("duplicate", n) <=>
        \E m \in 1..n - 1 : text[m] = text[n] /\ Placed(m) /\ ~OtherBranch(m, n)
  BY DEF DuplicatesInv
<1>2. ASSUME NEW m \in 1..n - 1, text[m] = text[n], ~OtherBranch(m, n)
      PROVE  \E k \in 1..n - 1 : text[k] = text[n] /\ Placed(k) /\ ~OtherBranch(k, n)
  <2>1. m \in 1..Len(text) /\ Ordinary(m) /\ text[m] \in Headers /\ m < n /\ n \in Nat
    BY <1>0, <1>2 DEF Ordinary
  <2>2. CASE Placed(m)
    BY <1>2, <2>2
  <2>3. ASSUME NEW k \in 1..m - 1, text[k] = text[m], Placed(k), ~OtherBranch(k, m)
        PROVE  \E i \in 1..n - 1 : text[i] = text[n] /\ Placed(i) /\ ~OtherBranch(i, n)
    <3>1. ~OtherBranch(k, n)
      BY <1>2, <2>1, <2>3, BranchesJoin
    <3>2. k \in 1..n - 1
      BY <2>1
    <3> QED BY <1>2, <2>3, <3>1, <3>2
  <2> QED BY <2>1, <2>2, <2>3, FirstIsPlaced
<1> QED BY <1>1, <1>2

(* An include outside every conditional is found for good.                 *)
LEMMA UnconditionalIsFound ==
  ASSUME text \in Seq(Lines), ListsInv, DuplicatesInv, Balanced,
         NEW n \in 1..Len(text), Ordinary(n), Ifs(n) = Endifs(n)
  PROVE  FindHeader(text[n])
<1>0. Len(text) \in Nat /\ Linenum = Len(text) + 1 /\ text[n] \in Headers
  BY DEF Linenum, Ordinary
<1>1. ~OtherBranch(n, Linenum)
  <2> SUFFICES ASSUME NEW d \in (n + 1)..(Linenum - 1), text[d] = "else", \A k \in n..d : text[k] # "if"
               PROVE  FALSE
    BY DEF OtherBranch
  <2>1. d \in 1..Len(text) /\ n \in Nat \ {0} /\ d \in Nat /\ n <= d
    BY <1>0
  <2>2. Ifs(d) > Endifs(d)
    BY <2>1 DEF Balanced
  <2>3. Ifs(n) = Ifs(d) /\ Endifs(n) <= Endifs(d)
    <3>1. \A k \in n..d - 1 : k \in n..d
      BY <2>1
    <3> QED BY <2>1, <3>1, IfsGrow
  <2>4. Ifs(d) \in Nat /\ Endifs(d) \in Nat
    BY <2>1, IfsAreNumbers
  <2> QED BY <2>2, <2>3, <2>4
<1>2. CASE Placed(n)
  BY <1>1, <1>2, FoundIfKept DEF Kept
<1>3. ASSUME NEW k \in 1..n - 1, text[k] = text[n], Placed(k), ~OtherBranch(k, n)
      PROVE  FindHeader(text[n])
  <2>1. ~OtherBranch(k, Linenum)
    <3>1. Linenum \in Nat /\ n < Linenum
      BY <1>0
    <3> QED BY <1>0, <1>1, <1>3, <3>1, BranchesJoin
  <2>2. k \in 1..Len(text)
    BY <1>0
  <2> QED BY <1>3, <2>1, <2>2, FoundIfKept DEF Kept
<1> QED BY <1>2, <1>3, FirstIsPlaced

(* At the end, an include outside every conditional is in a list.        *)
LEMMA UnconditionalStep ==
  ASSUME OrderInv, RememberInv, Balanced, UnconditionalCounts, EndOfFile
  PROVE  UnconditionalCounts'
<1>0. text \in Seq(Lines) /\ ListsInv /\ DuplicatesInv /\ EndInv
  BY DEF OrderInv, Lines, RememberInv
<1>1. PICK ending \in Endings :
        /\ reports' = reports \cup CheckForIncludeWhatYouUse(ending)
                            \cup CheckHeaderFileIncluded(ending)
        /\ text' = text /\ include_list' = include_list
  BY DEF EndOfFile
<1>2. \A r \in reports : r.check # "missing" /\ r.check # "own"
  <2>1. ~ended
    BY DEF EndOfFile
  <2> QED BY <1>0, <2>1 DEF EndInv, ChecksAtEnd
<1> SUFFICES ASSUME NEW n \in 1..Len(text), Ordinary(n), Ifs(n) = Endifs(n)
             PROVE  /\ Report("missing", text[n], 0) \notin reports'
                    /\ Header[text[n]].own => \A r \in reports' : r.check # "own"
  BY <1>1 DEF UnconditionalCounts, Ordinary, Ifs, Endifs
<1>3. text[n] \in Included
  BY <1>0, UnconditionalIsFound DEF Included, FindHeader
<1>4. /\ \A r \in CheckForIncludeWhatYouUse(ending) :
            \E h : h \notin Included /\ r = Report("missing", h, 0)
      /\ \A r \in CheckHeaderFileIncluded(ending) : r.check = "own" /\ ~OwnIncluded
  <2>1. Report("own", "none", FirstInclude).check = "own"
    BY DEF Report
  <2> QED BY <2>1 DEF CheckForIncludeWhatYouUse, CheckHeaderFileIncluded
<1>5. /\ \A h : Report("missing", h, 0).check = "missing" /\ Report("missing", h, 0).header = h
      /\ "missing" # "own"
  BY DEF Report
<1>6. Report("missing", text[n], 0) \notin reports'
  BY <1>1, <1>2, <1>3, <1>4, <1>5
<1>7. ASSUME Header[text[n]].own PROVE \A r \in reports' : r.check # "own"
  <2>1. OwnIncluded
    BY <1>3, <1>7 DEF OwnIncluded
  <2> QED BY <1>1, <1>2, <1>4, <1>5, <2>1
<1> QED BY <1>6, <1>7

(* In files of every length an include is reported as a duplicate exactly  *)
(* if an earlier one of the same header is in no branch that an #else has  *)
(* ended, and one outside every conditional is never missing at the end    *)
(* (FindHeader, ResetSection, CheckForIncludeWhatYouUse), if every #else   *)
(* and #endif is in a conditional, as in every text a compiler takes.      *)
THEOREM IncludesAreRemembered == Spec /\ []Balanced => []IncludesRemembered
<1>1. OrderInv /\ RememberInv => DuplicateReported
  BY DuplicatesFromInv DEF OrderInv, RememberInv, Lines
<1>2. Init => UnconditionalCounts
  <2>1. Init => text = <<>>
    BY DEF Init
  <2>2. Len(<<>>) = 0
    OBVIOUS
  <2> QED BY <2>1, <2>2 DEF UnconditionalCounts
<1>3. /\ OrderInv /\ RememberInv /\ RememberInv' /\ Balanced /\ UnconditionalCounts /\ [Next]_vars
      => UnconditionalCounts'
  <2> SUFFICES ASSUME OrderInv, RememberInv, RememberInv', Balanced, UnconditionalCounts, [Next]_vars
               PROVE  UnconditionalCounts'
    OBVIOUS
  <2>1. CASE EndOfFile
    BY <2>1, UnconditionalStep
  <2>2. CASE UNCHANGED vars
    BY <2>2 DEF vars, UnconditionalCounts, Ordinary, Ifs, Endifs
  <2>3. ASSUME ~ended' PROVE UnconditionalCounts'
    <3>1. \A r \in reports' : r.check # "missing" /\ r.check # "own"
      BY <2>3 DEF RememberInv, EndInv, ChecksAtEnd
    <3>2. \A h : Report("missing", h, 0).check = "missing"
      BY DEF Report
    <3> QED BY <3>1, <3>2 DEF UnconditionalCounts
  <2>4. Next => EndOfFile \/ ~ended'
    BY DEF Next, Include, SkipInclude, ResetSection, Code, Read
  <2> QED BY <2>1, <2>2, <2>3, <2>4
<1> QED BY <1>1, <1>2, <1>3, OrderInvHolds, RememberInvHolds, PTL DEF Spec, IncludesRemembered
===============================================================================

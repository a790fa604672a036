---------------------------- MODULE FileNamesProofs ----------------------------
(***************************************************************************)
(* Theorems about FileNames, for every set of files, in directories of any *)
(* depth with marks in any of them: below which directory a file is named, *)
(* and which headers get the same guard.                                   *)
(***************************************************************************)
EXTENDS FileNames, SequenceTheorems, WellFoundedInduction, TLAPS

-----------------------------------------------------------------------------
(* Why a name starts below its root                                        *)

Above(n) == SubSeq(File.dir, 1, n)

(* While the directories with a .svn are climbed, root_dir is the last one *)
(* of the chain so far, and one_up_dir the next.                           *)
SvnWalk ==
  pc = "svn" =>
    \E n \in 0..Len(File.dir) :
      /\ root_dir = Above(n) /\ current_dir = Above(n - 1)
      /\ \A k \in n..Len(File.dir) : Above(k) \in svn

(* While the others are climbed, root_dir is the outermost directory with  *)
(* a mark so far, that of the file if there is none.                       *)
UpWalk ==
  pc = "up" =>
    /\ OnDisk(File) /\ File.dir \notin svn
    /\ \E n \in 0..Len(File.dir), r \in 1..Len(File.dir) :
         /\ current_dir = Above(n) /\ root_dir = Above(r) /\ n <= r
         /\ \A k \in n + 1..Len(File.dir) : Marked(Above(k)) => r <= k /\ Marked(root_dir)

(* What has been asked for is named.                                       *)
Answers ==
  /\ asked \in Pairs
  /\ \/ todo = <<Source, Header>> /\ names = <<>> /\ pc # "done"
     \/ todo = <<Header>> /\ names = <<Named(Source)>> /\ pc # "done"
     \/ todo = <<>> /\ names = <<Named(Source), Named(Header)>> /\ pc = "done"

(* The inductive invariant *)
NamesInv == Answers /\ SvnWalk /\ UpWalk /\ (pc = "svn" => OnDisk(File))

-----------------------------------------------------------------------------
(* Lemmas *)

(* The types of the parts of a file.                                     *)
LEMMA FileFields ==
  ASSUME NEW f \in Files
  PROVE  /\ f.dir \in Seq(STRING) /\ f.dir # <<>> /\ f.stem \in STRING /\ f.ext \in STRING
         /\ f.suffix \in DOMAIN WordOf \cup NoSuffix
         /\ f = [absolute |-> f.absolute, dir |-> f.dir, stem |-> f.stem,
                 suffix |-> f.suffix, ext |-> f.ext]
BY FilesAssumption

-----------------------------------------------------------------------------
(* Directories                                                             *)

(* A directory n levels below the root of the tree.                      *)
LEMMA UpLength ==
  ASSUME NEW dir \in Seq(STRING), NEW n \in 0..Len(dir)
  PROVE  /\ SubSeq(dir, 1, n) \in Seq(STRING)
         /\ Len(SubSeq(dir, 1, n)) = n
BY LenProperties, SubSeqProperties

(* The directory above, and above "/"                                      *)
LEMMA DirnameUp ==
  ASSUME NEW dir \in Seq(STRING), NEW n \in 0..Len(dir)
  PROVE  Dirname(SubSeq(dir, 1, n)) = SubSeq(dir, 1, n - 1)
<1>1. Len(dir) \in Nat
  OBVIOUS
<1>2. CASE n = 0
  <2>1. SubSeq(dir, 1, 0) = <<>> /\ SubSeq(dir, 1, -1) = <<>>
    BY SubSeqEmpty
  <2> QED BY <1>2, <2>1 DEF Dirname
<1>3. CASE n > 0
  <2> DEFINE up == SubSeq(dir, 1, n)
  <2>1. up \in Seq(STRING) /\ Len(up) = n
    BY UpLength
  <2>2. up # <<>>
    BY <1>3, <2>1, EmptySeq
  <2>3. Dirname(up) = SubSeq(up, 1, n - 1)
    BY <2>1, <2>2 DEF Dirname, Front
  <2>4. \A i \in 1..n : up[i] = dir[i]
    BY <1>1, SubSeqProperties, ElementOfSeq
  <2>5. \A i \in 1..n - 1 : up[i] \in STRING /\ dir[i] \in STRING
    BY <1>1, <2>1, ElementOfSeq
  <2>6. /\ SubSeq(up, 1, n - 1) \in Seq(STRING)
        /\ Len(SubSeq(up, 1, n - 1)) = n - 1
        /\ \A i \in 1..n - 1 : SubSeq(up, 1, n - 1)[i] = up[i]
    BY <1>3, <2>5, SubSeqProperties
  <2>7. /\ SubSeq(dir, 1, n - 1) \in Seq(STRING)
        /\ Len(SubSeq(dir, 1, n - 1)) = n - 1
        /\ \A i \in 1..n - 1 : SubSeq(dir, 1, n - 1)[i] = dir[i]
    BY <1>1, <1>3, <2>5, SubSeqProperties
  <2> HIDE DEF up
  <2>8. SubSeq(up, 1, n - 1) = SubSeq(dir, 1, n - 1)
    BY <1>3, <2>4, <2>6, <2>7, SeqEqual
  <2> QED BY <2>3, <2>8 DEF up
<1> QED BY <1>2, <1>3

(* The directories above one differ in their length.                       *)
LEMMA ShortestIs ==
  ASSUME NEW dir \in Seq(STRING), NEW dirs \in SUBSET DirsAbove(dir),
         NEW n \in 1..Len(dir), SubSeq(dir, 1, n) \in dirs,
         \A k \in 1..Len(dir) : SubSeq(dir, 1, k) \in dirs => n <= k
  PROVE  Shortest(dirs) = SubSeq(dir, 1, n)
<1>1. \A k \in 1..Len(dir) : Len(SubSeq(dir, 1, k)) = k
  BY UpLength
<1>2. \A e \in dirs : \E k \in 1..Len(dir) : e = SubSeq(dir, 1, k)
  BY DEF DirsAbove
<1>3. \A e \in dirs : n <= Len(e)
  BY <1>1, <1>2
<1>4. \A e \in dirs : Len(e) = n => e = SubSeq(dir, 1, n)
  BY <1>1, <1>2
<1>5. \A d \in dirs : (\A e \in dirs : Len(d) <= Len(e)) => d = SubSeq(dir, 1, n)
  <2> SUFFICES ASSUME NEW d \in dirs, \A e \in dirs : Len(d) <= Len(e)
               PROVE  d = SubSeq(dir, 1, n)
    OBVIOUS
  <2>1. Len(d) <= n
    BY <1>1
  <2>2. Len(d) \in Nat /\ n <= Len(d)
    BY <1>1, <1>2, <1>3
  <2> QED BY <1>4, <2>1, <2>2
<1>6. \A e \in dirs : Len(SubSeq(dir, 1, n)) <= Len(e)
  BY <1>1, <1>3
<1> QED BY <1>5, <1>6 DEF Shortest

-----------------------------------------------------------------------------
(* What RepositoryName returns                                             *)

(* The file that is asked for is the source, then the header.            *)
LEMMA FileIs ==
  ASSUME Answers, pc # "done"
  PROVE  /\ File \in Files /\ File.dir \in Seq(STRING) /\ Len(File.dir) \in Nat \ {0}
         /\ Above(Len(File.dir)) = File.dir
         /\ \/ todo = <<Source, Header>> /\ names = <<>>
            \/ todo = <<Header>> /\ names = <<Named(Source)>>
<1>1. Source \in Files /\ Header \in Files
  BY FilesAssumption DEF Answers, Source, Header
<1>2. \/ todo = <<Source, Header>> /\ names = <<>>
      \/ todo = <<Header>> /\ names = <<Named(Source)>>
  BY DEF Answers
<1>3. File = Source \/ File = Header
  BY <1>2 DEF File
<1>4. File \in Files
  BY <1>1, <1>3
<1>5. File.dir \in Seq(STRING) /\ File.dir # <<>>
  BY <1>4, FileFields
<1>6. Len(File.dir) \in Nat \ {0}
  BY <1>5, EmptySeq
<1>7. Above(Len(File.dir)) = File.dir
  BY <1>5, SubSeqFull DEF Above
<1> QED BY <1>2, <1>4, <1>5, <1>6, <1>7

(* The chain of directories with a .svn is left.                           *)
LEMMA NamedBySvn ==
  ASSUME NEW f \in Files, OnDisk(f), NEW n \in 1..Len(f.dir),
         \A k \in n..Len(f.dir) : SubSeq(f.dir, 1, k) \in svn,
         SubSeq(f.dir, 1, n - 1) \notin svn \/ n = 1
  PROVE  Named(f) = Relative(f, SubSeq(f.dir, 1, n))
<1>1. f.dir \in Seq(STRING) /\ Len(f.dir) \in Nat
  BY FileFields
<1>2. f.dir \in svn
  <2>1. SubSeq(f.dir, 1, Len(f.dir)) = f.dir
    BY <1>1, SubSeqFull
  <2>2. Len(f.dir) \in n..Len(f.dir)
    BY <1>1
  <2> QED BY <2>1, <2>2
<1>3. Tops(f) = Chain(f.dir)
  BY <1>2 DEF Tops
<1>4. \A k \in 1..Len(f.dir) : /\ Len(SubSeq(f.dir, 1, k)) = k
                               /\ SubSeq(f.dir, 1, k) \in DirsAbove(f.dir)
  BY <1>1, UpLength DEF DirsAbove
<1>5. SubSeq(f.dir, 1, n) \in Chain(f.dir)
  <2>1. ASSUME NEW k \in 1..Len(f.dir), Len(SubSeq(f.dir, 1, k)) >= n
        PROVE  SubSeq(f.dir, 1, k) \in svn
    <3>1. k \in n..Len(f.dir)
      BY <1>1, <1>4, <2>1
    <3> QED BY <3>1
  <2>2. \A e \in DirsAbove(f.dir) : Len(e) >= n => e \in svn
    BY <2>1 DEF DirsAbove
  <2> QED BY <1>4, <2>2 DEF Chain
<1>6. \A k \in 1..Len(f.dir) : SubSeq(f.dir, 1, k) \in Chain(f.dir) => n <= k
  <2> SUFFICES ASSUME NEW k \in 1..Len(f.dir), SubSeq(f.dir, 1, k) \in Chain(f.dir), k < n
               PROVE  FALSE
    BY <1>1
  <2>1. n - 1 \in 1..Len(f.dir) /\ n - 1 >= k
    BY <1>1
  <2>2. SubSeq(f.dir, 1, n - 1) \in svn
    BY <1>4, <2>1 DEF Chain
  <2> QED BY <2>1, <2>2
<1>7. Chain(f.dir) \in SUBSET DirsAbove(f.dir)
  BY DEF Chain
<1>8. Shortest(Chain(f.dir)) = SubSeq(f.dir, 1, n)
  BY <1>1, <1>5, <1>6, <1>7, ShortestIs
<1> QED BY <1>3, <1>5, <1>8 DEF Named

(* "/" is reached.                                                         *)
LEMMA NamedByMarks ==
  ASSUME NEW f \in Files, OnDisk(f), f.dir \notin svn, NEW n \in 1..Len(f.dir),
         \A k \in 1..Len(f.dir) :
           Marked(SubSeq(f.dir, 1, k)) => n <= k /\ Marked(SubSeq(f.dir, 1, n))
  PROVE  Named(f) = IF Marked(SubSeq(f.dir, 1, n)) THEN Relative(f, SubSeq(f.dir, 1, n))
                    ELSE FullName(f)
<1>1. f.dir \in Seq(STRING) /\ Len(f.dir) \in Nat
  BY FileFields
<1> DEFINE tops == {d \in DirsAbove(f.dir) : Marked(d)}
<1>2. Tops(f) = tops
  BY DEF Tops
<1>3. \A k \in 1..Len(f.dir) : SubSeq(f.dir, 1, k) \in DirsAbove(f.dir)
  BY DEF DirsAbove
<1>4. CASE Marked(SubSeq(f.dir, 1, n))
  <2>1. SubSeq(f.dir, 1, n) \in tops
    BY <1>3, <1>4
  <2>2. \A k \in 1..Len(f.dir) : SubSeq(f.dir, 1, k) \in tops => n <= k
    OBVIOUS
  <2>3. tops \in SUBSET DirsAbove(f.dir)
    OBVIOUS
  <2> HIDE DEF tops
  <2>4. Shortest(tops) = SubSeq(f.dir, 1, n)
    BY <1>1, <2>1, <2>2, <2>3, ShortestIs
  <2> QED BY <1>2, <1>4, <2>1, <2>4 DEF Named
<1>5. CASE ~Marked(SubSeq(f.dir, 1, n))
  <2>1. tops = {}
    BY <1>5 DEF DirsAbove
  <2> QED BY <1>2, <1>5, <2>1 DEF Named
<1> QED BY <1>4, <1>5

-----------------------------------------------------------------------------
(* The steps                                                               *)

(* A sequence of two.                                                    *)
LEMMA AppendTwo ==
  ASSUME NEW a, NEW b
  PROVE  Append(<<a>>, b) = <<a, b>>
<1>1. <<a>> \in Seq({a, b}) /\ <<a, b>> \in Seq({a, b}) /\ Len(<<a>>) = 1 /\ Len(<<a, b>>) = 2
  OBVIOUS
<1>2. /\ Append(<<a>>, b) \in Seq({a, b}) /\ Len(Append(<<a>>, b)) = 2
      /\ Append(<<a>>, b)[1] = a /\ Append(<<a>>, b)[2] = b
  <2>1. b \in {a, b} /\ <<a>>[1] = a
    OBVIOUS
  <2> QED BY <1>1, <2>1, AppendProperties
<1>3. <<a, b>>[1] = a /\ <<a, b>>[2] = b
  OBVIOUS
<1>4. \A i \in 1..2 : i = 1 \/ i = 2
  OBVIOUS
<1> QED BY <1>1, <1>2, <1>3, <1>4, SeqEqual

(* A return gives the name of the file asked for.                        *)
LEMMA ReturnStep ==
  ASSUME Answers, pc # "done", Return(Named(File)), UNCHANGED <<svn, git, asked>>
  PROVE  NamesInv'
<1>1. /\ names' = Append(names, Named(File)) /\ todo' = Tail(todo)
      /\ pc' = IF Len(todo) = 1 THEN "done" ELSE "call"
  BY DEF Return
<1>2. Source' = Source /\ Header' = Header
  BY DEF Source, Header
<1>3. Named(Source)' = Named(Source) /\ Named(Header)' = Named(Header)
  BY <1>2 DEF Named, Tops, Chain, Marked
<1>4. Answers'
  <2>1. CASE todo = <<Source, Header>> /\ names = <<>>
    <3>1. File = Source /\ Tail(todo) = <<Header>> /\ Len(todo) = 2
      BY <2>1 DEF File
    <3>2. Append(names, Named(File)) = <<Named(Source)>>
      BY <2>1, <3>1
    <3> QED BY <1>1, <1>2, <1>3, <3>1, <3>2 DEF Answers
  <2>2. CASE todo = <<Header>> /\ names = <<Named(Source)>>
    <3>1. File = Header /\ Tail(todo) = <<>> /\ Len(todo) = 1
      BY <2>2 DEF File
    <3>2. Append(names, Named(File)) = <<Named(Source), Named(Header)>>
      BY <2>2, <3>1, AppendTwo
    <3> QED BY <1>1, <1>2, <1>3, <3>1, <3>2 DEF Answers
  <2> QED BY <2>1, <2>2, FileIs
<1>5. pc' # "svn" /\ pc' # "up"
  BY <1>1
<1> QED BY <1>4, <1>5 DEF NamesInv, SvnWalk, UpWalk

(* A step of a loop leaves the answers alone.                              *)
LEMMA LoopStep ==
  ASSUME Answers, pc # "done", pc' # "done", UNCHANGED <<svn, git, asked, todo, names>>
  PROVE  /\ Answers' /\ File' = File /\ OnDisk(File)' = OnDisk(File)
         /\ \A n \in Int : Above(n)' = Above(n)
<1>1. Source' = Source /\ Header' = Header
  BY DEF Source, Header
<1>2. Named(Source)' = Named(Source) /\ Named(Header)' = Named(Header)
  BY <1>1 DEF Named, Tops, Chain, Marked
<1>3. File' = File
  BY DEF File
<1> QED BY <1>1, <1>2, <1>3 DEF Answers, Above, OnDisk

(* A call answers at once or starts one of the two walks.                *)
LEMMA CallStep ==
  ASSUME NamesInv, Call
  PROVE  NamesInv'
<1>1. Answers /\ pc = "call" /\ UNCHANGED <<svn, git, asked>>
  BY DEF NamesInv, Call
<1>2. /\ File \in Files /\ File.dir \in Seq(STRING) /\ Len(File.dir) \in Nat \ {0}
      /\ Above(Len(File.dir)) = File.dir
  BY <1>1, FileIs
<1>3. CASE File \in Missing
  <2>1. Named(File) = FullName(File)
    <3>1. ~OnDisk(File)
      BY <1>3 DEF OnDisk
    <3>2. Tops(File) = {}
      BY <3>1 DEF Tops
    <3> QED BY <3>2 DEF Named
  <2> QED BY <1>1, <1>3, <2>1, ReturnStep DEF Call
<1>4. CASE File \notin Missing
  <2>1. /\ root_dir' = File.dir /\ UNCHANGED <<todo, names>>
        /\ IF File.dir \in svn THEN pc' = "svn" /\ current_dir' = Dirname(File.dir)
           ELSE pc' = "up" /\ current_dir' = File.dir
    BY <1>4 DEF Call
  <2>2. pc' \in {"svn", "up"}
    BY <2>1
  <2>3. Answers' /\ File' = File /\ \A n \in Int : Above(n)' = Above(n)
    BY <1>1, <2>1, <2>2, LoopStep
  <2>4. OnDisk(File)
    BY <1>2, <1>4 DEF OnDisk
  <2>5. OnDisk(File)'
    BY <2>3, <2>4 DEF OnDisk
  <2>6. CASE File.dir \in svn
    <3>1. Dirname(File.dir) = Above(Len(File.dir) - 1)
      <4>1. Dirname(Above(Len(File.dir))) = Above(Len(File.dir) - 1)
        BY <1>2, DirnameUp DEF Above
      <4> QED BY <1>2, <4>1
    <3>2. pc' = "svn" /\ current_dir' = Above(Len(File.dir) - 1) /\ root_dir' = Above(Len(File.dir))
      BY <1>2, <2>1, <2>6, <3>1
    <3>3. \A k \in Len(File.dir)..Len(File.dir) : Above(k) \in svn
      BY <1>2, <2>6
    <3>4. SvnWalk'
      BY <1>1, <1>2, <2>3, <3>2, <3>3 DEF SvnWalk
    <3> QED BY <2>3, <2>5, <3>2, <3>4 DEF NamesInv, UpWalk
  <2>7. CASE File.dir \notin svn
    <3>1. pc' = "up" /\ current_dir' = Above(Len(File.dir)) /\ root_dir' = Above(Len(File.dir))
      BY <1>2, <2>1, <2>7
    <3>2. Len(File.dir) + 1..Len(File.dir) = {}
      BY <1>2
    <3>3. UpWalk'
      BY <1>1, <1>2, <2>3, <2>5, <2>7, <3>1, <3>2 DEF UpWalk
    <3> QED BY <2>3, <3>1, <3>3 DEF NamesInv, SvnWalk
  <2> QED BY <2>6, <2>7
<1> QED BY <1>3, <1>4

(* One directory up in a chain of .svn.                                  *)
LEMMA SvnUpStep ==
  ASSUME NamesInv, SvnUp
  PROVE  NamesInv'
<1>1. Answers /\ pc = "svn" /\ UNCHANGED <<svn, git, asked>> /\ OnDisk(File)
  BY DEF NamesInv, SvnUp
<1>2. File \in Files /\ File.dir \in Seq(STRING) /\ Len(File.dir) \in Nat \ {0}
  BY <1>1, FileIs
<1>3. PICK n \in 0..Len(File.dir) :
        /\ root_dir = Above(n) /\ current_dir = Above(n - 1)
        /\ \A k \in n..Len(File.dir) : Above(k) \in svn
  BY <1>1 DEF NamesInv, SvnWalk
<1>4. n = 0 => Above(n) = <<>> /\ Above(n - 1) = <<>>
  BY SubSeqEmpty, <1>2 DEF Above
<1>5. CASE current_dir \in svn
  <2>1. root_dir' = Dirname(Above(n)) /\ current_dir' = Dirname(Above(n - 1))
        /\ UNCHANGED <<todo, names, pc>>
    BY <1>3, <1>5 DEF SvnUp
  <2>2. Answers' /\ File' = File /\ \A m \in Int : Above(m)' = Above(m)
    BY <1>1, <2>1, LoopStep
  <2>3. OnDisk(File)'
    BY <1>1, <2>2 DEF OnDisk
  <2>4. SvnWalk'
    <3>1. CASE n = 0
      <4>1. Dirname(<<>>) = <<>>
        BY DEF Dirname
      <4>2. root_dir' = Above(n) /\ current_dir' = Above(n - 1)
        BY <1>4, <2>1, <3>1, <4>1
      <4> QED BY <1>1, <1>2, <1>3, <2>2, <4>2 DEF SvnWalk
    <3>2. CASE n = 1
      <4>1. Dirname(Above(n)) = Above(0) /\ Dirname(Above(0)) = Above(-1)
        BY <1>2, <3>2, DirnameUp DEF Above
      <4>2. \A k \in 0..Len(File.dir) : Above(k) \in svn
        BY <1>2, <1>3, <1>5, <3>2
      <4> QED BY <1>1, <1>2, <2>1, <2>2, <3>2, <4>1, <4>2 DEF SvnWalk
    <3>3. CASE n > 1
      <4>1. Dirname(Above(n)) = Above(n - 1) /\ Dirname(Above(n - 1)) = Above(n - 1 - 1)
        BY <1>2, <3>3, DirnameUp DEF Above
      <4>2. n - 1 \in 0..Len(File.dir) /\ \A k \in n - 1..Len(File.dir) : k = n - 1 \/ k \in n..Len(File.dir)
        BY <1>2, <3>3
      <4>3. \A k \in n - 1..Len(File.dir) : Above(k) \in svn
        BY <1>3, <1>5, <4>2
      <4> QED BY <1>1, <1>2, <2>1, <2>2, <4>1, <4>2, <4>3 DEF SvnWalk
    <3> QED BY <1>2, <3>1, <3>2, <3>3
  <2> QED BY <1>1, <2>1, <2>2, <2>3, <2>4 DEF NamesInv, UpWalk
<1>6. CASE current_dir \notin svn
  <2>1. n # 0
    BY <1>2, <1>3, <1>4, <1>6
  <2>2. n \in 1..Len(File.dir)
    BY <1>2, <2>1
  <2>3. Named(File) = Relative(File, root_dir)
    BY <1>1, <1>2, <1>3, <1>6, <2>2, NamedBySvn DEF Above
  <2>4. Return(Named(File))
    BY <1>6, <2>3 DEF SvnUp
  <2> QED BY <1>1, <2>4, ReturnStep
<1> QED BY <1>5, <1>6

(* One directory up while the outermost mark is looked for.              *)
LEMMA UpStep ==
  ASSUME NamesInv, Up
  PROVE  NamesInv'
<1>1. Answers /\ pc = "up" /\ UNCHANGED <<svn, git, asked>> /\ OnDisk(File) /\ File.dir \notin svn
  BY DEF NamesInv, Up, UpWalk
<1>2. File \in Files /\ File.dir \in Seq(STRING) /\ Len(File.dir) \in Nat \ {0}
  BY <1>1, FileIs
<1>3. PICK n \in 0..Len(File.dir), r \in 1..Len(File.dir) :
        /\ current_dir = Above(n) /\ root_dir = Above(r) /\ n <= r
        /\ \A k \in n + 1..Len(File.dir) : Marked(Above(k)) => r <= k /\ Marked(root_dir)
  BY <1>1 DEF NamesInv, UpWalk
<1>4. Dirname(Above(n)) = Above(n - 1)
  BY <1>2, DirnameUp DEF Above
<1>5. CASE MoreUp
  <2>1. /\ root_dir' = IF Marked(Above(n)) THEN Above(n) ELSE Above(r)
        /\ current_dir' = Above(n - 1) /\ UNCHANGED <<todo, names, pc>>
    BY <1>3, <1>4, <1>5 DEF Up, NextRoot
  <2>2. Answers' /\ File' = File /\ \A m \in Int : Above(m)' = Above(m)
    BY <1>1, <2>1, LoopStep
  <2>3. OnDisk(File)'
    BY <1>1, <2>2 DEF OnDisk
  <2>4. n # 0
    <3>1. n = 0 => Above(n) = <<>> /\ Above(n - 1) = <<>>
      BY <1>2, SubSeqEmpty DEF Above
    <3> QED BY <1>3, <1>4, <1>5, <3>1 DEF MoreUp
  <2>5. /\ n - 1 \in 0..Len(File.dir) /\ n \in 1..Len(File.dir)
        /\ \A k \in n - 1 + 1..Len(File.dir) : k = n \/ k \in n + 1..Len(File.dir)
    BY <1>2, <2>4
  <2>6. \A d : Marked(d)' <=> Marked(d)
    BY <1>1 DEF Marked
  <2>7. UpWalk'
    <3>1. CASE Marked(Above(n))
      <4>1. \A k \in n - 1 + 1..Len(File.dir) : n <= k
        BY <1>2, <2>5
      <4> QED BY <1>1, <2>1, <2>2, <2>3, <2>5, <2>6, <3>1, <4>1 DEF UpWalk
    <3>2. CASE ~Marked(Above(n))
      <4>1. \A k \in n - 1 + 1..Len(File.dir) : Marked(Above(k)) => r <= k /\ Marked(Above(r))
        BY <1>3, <2>5, <3>2
      <4>2. n - 1 <= r
        BY <1>2, <1>3
      <4> QED BY <1>1, <1>3, <2>1, <2>2, <2>3, <2>5, <2>6, <3>2, <4>1, <4>2 DEF UpWalk
    <3> QED BY <3>1, <3>2
  <2> QED BY <1>1, <2>1, <2>2, <2>7 DEF NamesInv, SvnWalk
<1>6. CASE ~MoreUp
  <2>1. n = 0
    <3> SUFFICES ASSUME n # 0 PROVE FALSE
      OBVIOUS
    <3>1. Above(n) = Above(n - 1)
      BY <1>3, <1>4, <1>6 DEF MoreUp
    <3>2. Len(Above(n)) = n /\ Len(Above(n - 1)) = n - 1
      BY <1>2, UpLength DEF Above
    <3> QED BY <1>2, <3>1, <3>2
  <2>2. \A k \in 1..Len(File.dir) : Marked(Above(k)) => r <= k /\ Marked(Above(r))
    BY <1>3, <2>1
  <2>3. Named(File) = IF Marked(root_dir) THEN Relative(File, root_dir) ELSE FullName(File)
    BY <1>1, <1>2, <1>3, <2>2, NamedByMarks DEF Above
  <2>4. Return(Named(File))
    BY <1>6, <2>3 DEF Up
  <2> QED BY <1>1, <2>4, ReturnStep
<1> QED BY <1>5, <1>6

(* Nothing has been asked for at the start.                              *)
LEMMA InitNames ==
  ASSUME Init
  PROVE  NamesInv
<1>1. Answers
  BY DEF Init, Answers, Source, Header
<1> QED BY <1>1 DEF Init, NamesInv, SvnWalk, UpWalk

-----------------------------------------------------------------------------
(* The climbs through the directories keep to the marks, and what is asked *)
(* for is named from them.                                                 *)
THEOREM NamesInvHolds == Spec => []NamesInv
<1>1. NamesInv /\ [Next]_vars => NamesInv'
  <2> SUFFICES ASSUME NamesInv, [Next]_vars PROVE NamesInv'
    OBVIOUS
  <2>1. CASE Call
    BY <2>1, CallStep
  <2>2. CASE SvnUp
    BY <2>2, SvnUpStep
  <2>3. CASE Up
    BY <2>3, UpStep
  <2>4. CASE UNCHANGED vars
    <3>1. Source' = Source /\ Header' = Header /\ File' = File
      BY <2>4 DEF vars, Source, Header, File
    <3>2. Named(Source)' = Named(Source) /\ Named(Header)' = Named(Header)
      BY <2>4, <3>1 DEF vars, Named, Tops, Chain, Marked
    <3>3. Answers'
      BY <2>4, <3>1, <3>2 DEF vars, NamesInv, Answers
    <3>4. SvnWalk' /\ UpWalk' /\ (pc = "svn" => OnDisk(File))'
      BY <2>4, <3>1 DEF vars, NamesInv, SvnWalk, UpWalk, Above, Marked, OnDisk
    <3> QED BY <3>3, <3>4 DEF NamesInv
  <2> QED BY <2>1, <2>2, <2>3, <2>4 DEF Next
<1> QED BY <1>1, InitNames, PTL DEF Spec

(* RepositoryName names a file from the top of its repository, wherever it *)
(* lies and whatever is marked: from the last directory of an unbroken     *)
(* chain of .svn, or else from the outermost marked one.                   *)
THEOREM NamesAreBelowTheRoot == Spec => []NameBelowTheRoot
<1>1. NamesInv => NameBelowTheRoot
  BY DEF NamesInv, Answers, NameBelowTheRoot
<1> QED BY <1>1, NamesInvHolds, PTL

-----------------------------------------------------------------------------
(* Guards                                                                  *)

(* A set of directories above one has a shortest.                          *)
LEMMA ShortestExists ==
  ASSUME NEW dir \in Seq(STRING), NEW dirs \in SUBSET DirsAbove(dir), dirs # {}
  PROVE  \E n \in 1..Len(dir) : Shortest(dirs) = SubSeq(dir, 1, n)
<1> DEFINE lengths == {n \in 1..Len(dir) : SubSeq(dir, 1, n) \in dirs}
<1>1. lengths \subseteq Nat /\ lengths # {}
  <2>1. PICK d \in dirs : d \in DirsAbove(dir)
    OBVIOUS
  <2>2. PICK n \in 1..Len(dir) : d = SubSeq(dir, 1, n)
    BY <2>1 DEF DirsAbove
  <2>3. n \in lengths
    BY <2>2
  <2> QED BY <2>3
<1> HIDE DEF lengths
<1>2. PICK n \in lengths : \A k \in lengths : ~(<<k, n>> \in OpToRel(<, Nat))
  BY <1>1, NatLessThanWellFounded, WFMin
<1>3. \A k \in lengths : n <= k
  <2> SUFFICES ASSUME NEW k \in lengths, k < n PROVE FALSE
    BY <1>1
  <2>1. <<k, n>> \in OpToRel(<, Nat)
    BY <1>1 DEF OpToRel
  <2> QED BY <1>2, <2>1
<1>4. Shortest(dirs) = SubSeq(dir, 1, n)
  BY <1>3, ShortestIs DEF lengths
<1> QED BY <1>4 DEF lengths

(* The root of a repository is the directory of the file or above it.    *)
LEMMA TopIsAbove ==
  ASSUME NEW f \in Files, Tops(f) # {}
  PROVE  \E n \in 1..Len(f.dir) : Shortest(Tops(f)) = SubSeq(f.dir, 1, n)
<1>1. Tops(f) \in SUBSET DirsAbove(f.dir)
  BY DEF Tops, Chain
<1> QED BY <1>1, FileFields, ShortestExists

(* Equal sequences with equal beginnings have equal ends.                *)
LEMMA Cancel ==
  ASSUME NEW a \in Seq(STRING), NEW s \in Seq(STRING), NEW t \in Seq(STRING), a \o s = a \o t
  PROVE  s = t
<1>1. \A S : \A x, y, z \in Seq(S) : x \o y = x \o z => y = z
  BY ConcatSimplifications
<1> QED BY <1>1

(* Sequences of words can be joined.                                     *)
LEMMA Concat ==
  ASSUME NEW a \in Seq(STRING), NEW b \in Seq(STRING)
  PROVE  a \o b \in Seq(STRING)
BY ConcatProperties, Zenon

(* Joining is associative.                                               *)
LEMMA Regroup ==
  ASSUME NEW a \in Seq(STRING), NEW b \in Seq(STRING), NEW c \in Seq(STRING)
  PROVE  (a \o b) \o c = a \o (b \o c)
BY ConcatAssociative

Regroups(a, b, c) == (a \o b) \o c = a \o (b \o c)

(* The same as a fact about all sequences, under a name.                 *)
LEMMA RegroupAll == \A a, b, c \in Seq(STRING) : Regroups(a, b, c)
BY Regroup, Zenon DEF Regroups

(* The words of a name behind its directory                                *)
Rest(f) == <<f.stem>> \o (Suffix(f) \o <<f.ext>>)

(* The suffix of a file is words.                                        *)
LEMMA SuffixWord ==
  ASSUME NEW f \in Files
  PROVE  Suffix(f) \in Seq(STRING)
<1>1. CASE f.suffix \in NoSuffix
  BY <1>1 DEF Suffix
<1>2. CASE f.suffix \notin NoSuffix
  <2>1. WordOf[f.suffix] \in STRING
    BY <1>2, FileFields, FilesAssumption
  <2> QED BY <1>2, <2>1 DEF Suffix
<1> QED BY <1>1, <1>2

(* The words of a path are those of its directory and the rest.          *)
LEMMA RestWords ==
  ASSUME NEW f \in Files, NEW dir \in Seq(STRING)
  PROVE  Rest(f) \in Seq(STRING) /\ PathWords(dir, f) = dir \o Rest(f)
<1>1. <<f.stem>> \in Seq(STRING) /\ <<f.ext>> \in Seq(STRING)
  BY FileFields
<1> DEFINE a == <<f.stem>>
           b == Suffix(f)
           c == <<f.ext>>
<1>2. a \in Seq(STRING) /\ b \in Seq(STRING) /\ c \in Seq(STRING)
  BY <1>1, SuffixWord
<1>3. PathWords(dir, f) = ((dir \o a) \o b) \o c /\ Rest(f) = a \o (b \o c)
  BY DEF PathWords, Rest
<1> HIDE DEF a, b, c
<1>4. dir \o a \in Seq(STRING) /\ b \o c \in Seq(STRING)
  BY <1>2, Concat, Zenon
<1>5. ((dir \o a) \o b) \o c = (dir \o a) \o (b \o c)
  <2>1. Regroups(dir \o a, b, c)
    BY <1>2, <1>4, RegroupAll, Zenon
  <2> QED BY <2>1, Zenon DEF Regroups
<1>6. (dir \o a) \o (b \o c) = dir \o (a \o (b \o c))
  <2>1. Regroups(dir, a, b \o c)
    BY <1>2, <1>4, RegroupAll, Zenon
  <2> QED BY <2>1, Zenon DEF Regroups
<1> QED BY <1>2, <1>3, <1>4, <1>5, <1>6, Concat, Zenon

(* A directory is what is above a level and what is below it.            *)
LEMMA CutHere ==
  ASSUME NEW dir \in Seq(STRING), NEW n \in 0..Len(dir)
  PROVE  /\ SubSeq(dir, 1, n) \in Seq(STRING) /\ SubSeq(dir, n + 1, Len(dir)) \in Seq(STRING)
         /\ dir = SubSeq(dir, 1, n) \o SubSeq(dir, n + 1, Len(dir))
<1>1. Len(dir) \in Nat
  OBVIOUS
<1>2. SubSeq(dir, 1, n) \o SubSeq(dir, n + 1, Len(dir)) = SubSeq(dir, 1, Len(dir))
  <2>1. 1 \in 1..Len(dir) + 1 /\ n \in 1 - 1..Len(dir) /\ Len(dir) \in n..Len(dir)
    BY <1>1
  <2> QED BY <2>1, ConcatAdjacentSubSeq, Zenon
<1>3. \A i \in n + 1..Len(dir) : dir[i] \in STRING
  BY <1>1, ElementOfSeq
<1>4. SubSeq(dir, n + 1, Len(dir)) \in Seq(STRING)
  BY <1>1, <1>3, SubSeqProperties
<1> QED BY <1>2, <1>4, SubSeqFull, UpLength

(* What --root takes out of a name                                         *)
RootOf(name, root) == IF InRoot(name, root) THEN root ELSE <<>>

(* The guard of a file with a root: what is left of its directory below    *)
(* the root, and below --root                                              *)
LEMMA GuardWords ==
  ASSUME NEW f \in Files, Tops(f) # {}, NEW root \in Roots
  PROVE  /\ Shortest(Tops(f)) \in Seq(STRING)
         /\ GetHeaderGuardCPPVariable(Named(f), root).leading = FALSE
         /\ \E short \in Seq(STRING) :
              /\ GetHeaderGuardCPPVariable(Named(f), root).words = short \o Rest(f)
              /\ f.dir = Shortest(Tops(f)) \o (RootOf(Named(f), root) \o short)
<1> DEFINE name == Named(f)
           top == Shortest(Tops(f))
<1>1. PICK n \in 1..Len(f.dir) : top = SubSeq(f.dir, 1, n)
  BY TopIsAbove
<1>2. f.dir \in Seq(STRING) /\ Len(f.dir) \in Nat /\ n \in 0..Len(f.dir)
  BY FileFields
<1>3. Len(top) = n
  BY <1>1, <1>2, UpLength
<1> DEFINE below == SubSeq(f.dir, n + 1, Len(f.dir))
<1>4. /\ name.absolute = FALSE /\ name.dir = below
      /\ name.stem = f.stem /\ name.suffix = f.suffix /\ name.ext = f.ext
  <2>1. name = Relative(f, top)
    BY DEF Named
  <2>2. name = [f EXCEPT !.absolute = FALSE, !.dir = below]
    BY <1>3, <2>1 DEF Relative
  <2> HIDE DEF name, top, below
  <2> QED BY <2>2, FileFields
<1>5. top \in Seq(STRING) /\ below \in Seq(STRING) /\ f.dir = top \o below
  BY <1>1, <1>2, CutHere
<1> DEFINE short == IF InRoot(name, root) THEN SubSeq(name.dir, Len(root) + 1, Len(name.dir))
                    ELSE name.dir
<1>6. short \in Seq(STRING) /\ below = RootOf(name, root) \o short
  <2>1. CASE InRoot(name, root)
    <3>1. root \in Seq(STRING) /\ Len(root) \in 0..Len(below) /\ root = SubSeq(below, 1, Len(root))
      <4>1. /\ root \in Seq(STRING) /\ Len(root) \in Nat /\ Len(root) <= Len(below)
            /\ SubSeq(root, 1, Len(root)) = SubSeq(below, 1, Len(root))
        BY <1>4, <2>1, FilesAssumption DEF InRoot, IsPrefix
      <4> QED BY <1>5, <4>1, SubSeqFull
    <3>2. /\ SubSeq(below, Len(root) + 1, Len(below)) \in Seq(STRING)
          /\ below = root \o SubSeq(below, Len(root) + 1, Len(below))
      BY <1>5, <3>1, CutHere
    <3> QED BY <1>4, <2>1, <3>2 DEF RootOf
  <2>2. CASE ~InRoot(name, root)
    BY <1>4, <1>5, <2>2, ConcatEmptySeq DEF RootOf
  <2> QED BY <2>1, <2>2
<1>7. /\ GetHeaderGuardCPPVariable(name, root).leading = FALSE
      /\ GetHeaderGuardCPPVariable(name, root).words = PathWords(short, name)
  BY <1>4 DEF GetHeaderGuardCPPVariable
<1>8. PathWords(short, name) = PathWords(short, f)
  BY <1>4 DEF PathWords, Suffix
<1> HIDE DEF short, below, name, top
<1>9. PathWords(short, f) = short \o Rest(f)
  BY <1>6, RestWords
<1> QED BY <1>5, <1>6, <1>7, <1>8, <1>9 DEF name, top

(* Two headers below one root, with --root taken out of both or of none    *)
LEMMA SameGuard ==
  ASSUME NEW f \in Files, NEW g \in Files, NEW root \in Roots, SameTop(f, g),
         InRoot(Named(f), root) = InRoot(Named(g), root)
  PROVE  GetHeaderGuardCPPVariable(Named(f), root) = GetHeaderGuardCPPVariable(Named(g), root)
           <=> PathWords(f.dir, f) = PathWords(g.dir, g)
<1> DEFINE top == Shortest(Tops(f))
           base == RootOf(Named(f), root)
           fg == GetHeaderGuardCPPVariable(Named(f), root)
           gg == GetHeaderGuardCPPVariable(Named(g), root)
<1>1. top = Shortest(Tops(g)) /\ base = RootOf(Named(g), root) /\ base \in Seq(STRING)
      /\ Tops(f) # {} /\ Tops(g) # {}
  <2>1. top = Shortest(Tops(g)) /\ Tops(f) # {} /\ Tops(g) # {}
    BY DEF SameTop
  <2>2. base = RootOf(Named(g), root)
    BY DEF RootOf
  <2>3. root \in Seq(STRING) /\ <<>> \in Seq(STRING)
    BY FilesAssumption, EmptySeq
  <2>4. base \in Seq(STRING)
    BY <2>3 DEF RootOf
  <2> QED BY <2>1, <2>2, <2>4
<1>2. PICK s \in Seq(STRING) : fg.words = s \o Rest(f) /\ f.dir = top \o (base \o s)
  BY <1>1, GuardWords
<1>3. PICK t \in Seq(STRING) : gg.words = t \o Rest(g) /\ g.dir = top \o (base \o t)
  BY <1>1, GuardWords
<1>4. top \in Seq(STRING) /\ fg.leading = FALSE /\ gg.leading = FALSE
  BY <1>1, GuardWords
<1>5. fg = gg <=> fg.words = gg.words
  BY <1>4 DEF GetHeaderGuardCPPVariable
<1>6. /\ Rest(f) \in Seq(STRING) /\ Rest(g) \in Seq(STRING)
      /\ PathWords(f.dir, f) = f.dir \o Rest(f) /\ PathWords(g.dir, g) = g.dir \o Rest(g)
  BY FileFields, RestWords
<1> HIDE DEF top, base, fg, gg
<1>7. ASSUME NEW u \in Seq(STRING), NEW w \in Seq(STRING)
      PROVE  u \o w \in Seq(STRING) /\ (top \o (base \o u)) \o w = top \o (base \o (u \o w))
  <2>1. u \o w \in Seq(STRING) /\ base \o u \in Seq(STRING)
    BY <1>1, Concat, Zenon
  <2>2. (top \o (base \o u)) \o w = top \o ((base \o u) \o w)
    <3>1. Regroups(top, base \o u, w)
      BY <1>4, <2>1, RegroupAll, Zenon
    <3> QED BY <3>1, Zenon DEF Regroups
  <2>3. (base \o u) \o w = base \o (u \o w)
    <3>1. Regroups(base, u, w)
      BY <1>1, RegroupAll, Zenon
    <3> QED BY <3>1, Zenon DEF Regroups
  <2> QED BY <2>1, <2>2, <2>3
<1>8. /\ f.dir \o Rest(f) = top \o (base \o (s \o Rest(f))) /\ s \o Rest(f) \in Seq(STRING)
      /\ g.dir \o Rest(g) = top \o (base \o (t \o Rest(g))) /\ t \o Rest(g) \in Seq(STRING)
  <2>1. f.dir \o Rest(f) = (top \o (base \o s)) \o Rest(f)
    BY <1>2
  <2>2. g.dir \o Rest(g) = (top \o (base \o t)) \o Rest(g)
    BY <1>3
  <2>3. (top \o (base \o s)) \o Rest(f) = top \o (base \o (s \o Rest(f))) /\ s \o Rest(f) \in Seq(STRING)
    BY <1>6, <1>7
  <2>4. (top \o (base \o t)) \o Rest(g) = top \o (base \o (t \o Rest(g))) /\ t \o Rest(g) \in Seq(STRING)
    BY <1>6, <1>7
  <2> QED BY <2>1, <2>2, <2>3, <2>4, Zenon
<1>9. base \o (s \o Rest(f)) \in Seq(STRING) /\ base \o (t \o Rest(g)) \in Seq(STRING)
  BY <1>1, <1>8, Concat, Zenon
<1>10. top \o (base \o (s \o Rest(f))) = top \o (base \o (t \o Rest(g)))
         <=> s \o Rest(f) = t \o Rest(g)
  BY <1>1, <1>4, <1>8, <1>9, Cancel
<1>11. fg = gg <=> PathWords(f.dir, f) = PathWords(g.dir, g)
  BY <1>2, <1>3, <1>5, <1>6, <1>8, <1>10
<1> QED BY <1>11 DEF fg, gg

(* A file without a root has a leading "_" in its guard.                   *)
LEMMA NoTopGuard ==
  ASSUME NEW f \in Files, NEW root
  PROVE  Tops(f) = {} => GetHeaderGuardCPPVariable(Named(f), root).leading = TRUE
<1> HAVE Tops(f) = {}
<1>1. Named(f) = [f EXCEPT !.absolute = TRUE]
  BY DEF Named, FullName
<1>2. Named(f).absolute = TRUE
  BY <1>1, FileFields
<1> QED BY <1>2 DEF GetHeaderGuardCPPVariable

(* Two headers of one repository have the same guard only if their paths   *)
(* are the same words, unless --root is taken out of one of them alone,    *)
(* and one of no repository shares its guard with none in one, for all     *)
(* files and every --root (GetHeaderGuardCPPVariable of RepositoryName).   *)
THEOREM GuardsAreDifferent == Spec => []GuardsDiffer
<1>1. NamesInv => GuardsDiffer
  <2> SUFFICES ASSUME NamesInv, pc = "done", NEW root \in Roots
               PROVE
      LET same == GetHeaderGuardCPPVariable(names[1], root) = GetHeaderGuardCPPVariable(names[2], root)
      IN /\ SameTop(Source, Header) /\ InRoot(names[1], root) = InRoot(names[2], root) =>
              (same <=> PathWords(Source.dir, Source) = PathWords(Header.dir, Header))
         /\ (Tops(Source) = {}) # (Tops(Header) = {}) => ~same
    BY DEF GuardsDiffer
  <2>1. names[1] = Named(Source) /\ names[2] = Named(Header)
    BY DEF NamesInv, Answers
  <2>2. Source \in Files /\ Header \in Files
    BY FilesAssumption DEF NamesInv, Answers, Source, Header
  <2>3. SameTop(Source, Header) /\ InRoot(names[1], root) = InRoot(names[2], root) =>
          (GetHeaderGuardCPPVariable(names[1], root) = GetHeaderGuardCPPVariable(names[2], root)
             <=> PathWords(Source.dir, Source) = PathWords(Header.dir, Header))
    BY <2>1, <2>2, SameGuard
  <2>4. (Tops(Source) = {}) # (Tops(Header) = {}) =>
          GetHeaderGuardCPPVariable(names[1], root) # GetHeaderGuardCPPVariable(names[2], root)
    <3>1. \A f \in Files :
            /\ Tops(f) = {} => GetHeaderGuardCPPVariable(Named(f), root).leading = TRUE
            /\ Tops(f) # {} => GetHeaderGuardCPPVariable(Named(f), root).leading = FALSE
      BY GuardWords, NoTopGuard
    <3>2. CASE Tops(Source) = {} /\ Tops(Header) # {}
      BY <2>1, <2>2, <3>1, <3>2
    <3>3. CASE Tops(Source) # {} /\ Tops(Header) = {}
      BY <2>1, <2>2, <3>1, <3>3
    <3> QED BY <3>2, <3>3
  <2> QED BY <2>3, <2>4
<1> QED BY <1>1, NamesInvHolds, PTL

-----------------------------------------------------------------------------
(* Directories without public and internal                                 *)

Plain == STRING \ SplitDirectories

(* f holds what Strip keeps of each beginning of a directory.              *)
Keeps(f, dir, n) ==
  /\ f \in [0..n -> Seq(Plain)]
  /\ f[0] = <<>>
  /\ \A m \in 1..n :
       f[m] = IF dir[m] \in SplitDirectories THEN f[m - 1] ELSE Append(f[m - 1], dir[m])

(* Every non-empty set of numbers has a least element.                   *)
LEMMA LeastNatural ==
  ASSUME NEW T, T \subseteq Nat, T # {}
  PROVE  \E x \in T : \A y \in T : x <= y
<1>1. PICK x \in T : \A y \in T : ~(<<y, x>> \in OpToRel(<, Nat))
  BY NatLessThanWellFounded, WFMin
<1>2. \A y \in T : ~(y < x)
  BY <1>1 DEF OpToRel
<1> QED BY <1>2, SMT

(* The parts of a directory without the split ones exist up to its       *)
(* length.                                                               *)
LEMMA KeepsExist ==
  ASSUME NEW dir \in Seq(STRING)
  PROVE  \E f : Keeps(f, dir, Len(dir))
<1> DEFINE T == {n \in 0..Len(dir) : \A f : ~Keeps(f, dir, n)}
<1> SUFFICES ASSUME Len(dir) \in T PROVE FALSE
  OBVIOUS
<1>1. T \subseteq Nat
  OBVIOUS
<1>2. PICK n \in T : \A y \in T : n <= y
  <2> HIDE DEF T
  <2> QED BY <1>1, LeastNatural
<1>3. n \in 0..Len(dir) /\ \A f : ~Keeps(f, dir, n)
  BY <1>2
<1>4. n # 0
  <2> DEFINE f == [m \in {0} |-> <<>>]
  <2>1. f \in [0..0 -> Seq(Plain)] /\ f[0] = <<>> /\ \A m \in 1..0 : FALSE
    <3>1. <<>> \in Seq(Plain)
      BY EmptySeq
    <3> QED BY <3>1
  <2> HIDE DEF f
  <2>2. Keeps(f, dir, 0)
    BY <2>1 DEF Keeps
  <2> QED BY <1>3, <2>2
<1>5. n - 1 \in 0..Len(dir) /\ n \in 1..Len(dir)
  BY <1>3, <1>4
<1>6. PICK g : Keeps(g, dir, n - 1)
  <2>1. ~(n - 1 \in T)
    BY <1>2, <1>5
  <2> QED BY <1>5, <2>1
<1>7. /\ g \in [0..(n - 1) -> Seq(Plain)] /\ g[0] = <<>>
      /\ \A m \in 1..(n - 1) :
           g[m] = IF dir[m] \in SplitDirectories THEN g[m - 1] ELSE Append(g[m - 1], dir[m])
  BY <1>6 DEF Keeps
<1> DEFINE last == IF dir[n] \in SplitDirectories THEN g[n - 1] ELSE Append(g[n - 1], dir[n])
<1>8. last \in Seq(Plain)
  <2>1. g[n - 1] \in Seq(Plain) /\ dir[n] \in STRING
    BY <1>5, <1>7, ElementOfSeq
  <2>2. dir[n] \notin SplitDirectories => dir[n] \in Plain
    BY <2>1 DEF Plain
  <2> QED BY <2>1, <2>2, AppendProperties
<1> DEFINE f == [m \in 0..n |-> IF m = n THEN last ELSE g[m]]
<1> HIDE DEF last
<1>9. /\ f \in [0..n -> Seq(Plain)] /\ f[n] = last
      /\ \A m \in 0..(n - 1) : f[m] = g[m]
  <2>1. \A m \in 0..n : m = n \/ m \in 0..(n - 1)
    BY <1>5
  <2>2. n \in 0..n /\ \A m \in 0..(n - 1) : m \in 0..n /\ m # n
    BY <1>5
  <2> QED BY <1>7, <1>8, <2>1, <2>2
<1> HIDE DEF f
<1>10. Keeps(f, dir, n)
  <2>1. \A m \in 1..n : m = n \/ (m \in 1..(n - 1) /\ m \in 0..(n - 1))
    BY <1>5
  <2>2. 0 \in 0..(n - 1) /\ n - 1 \in 0..(n - 1) /\ \A m \in 1..(n - 1) : m - 1 \in 0..(n - 1)
    BY <1>5
  <2>3. f[n] = IF dir[n] \in SplitDirectories THEN f[n - 1] ELSE Append(f[n - 1], dir[n])
    BY <1>9, <2>2 DEF last
  <2>4. ASSUME NEW m \in 1..(n - 1)
        PROVE  f[m] = IF dir[m] \in SplitDirectories THEN f[m - 1] ELSE Append(f[m - 1], dir[m])
    <3>1. m \in 0..(n - 1) /\ m - 1 \in 0..(n - 1)
      BY <1>5
    <3>2. f[m] = g[m] /\ f[m - 1] = g[m - 1]
      BY <1>9, <3>1, Zenon
    <3>3. g[m] = IF dir[m] \in SplitDirectories THEN g[m - 1] ELSE Append(g[m - 1], dir[m])
      BY <1>7, Zenon
    <3> QED BY <3>2, <3>3, Zenon
  <2> QED BY <1>7, <1>9, <2>1, <2>2, <2>3, <2>4 DEF Keeps
<1> QED BY <1>3, <1>10

(* What is left of a directory is the last of these parts.               *)
LEMMA StripKeeps ==
  ASSUME NEW dir \in Seq(STRING)
  PROVE  \E f : Keeps(f, dir, Len(dir)) /\ Strip(dir) = f[Len(dir)]
<1> DEFINE IsKept(f) ==
      f = [n \in 0..Len(dir) |->
             IF n = 0 THEN <<>>
             ELSE IF dir[n] \in SplitDirectories THEN f[n - 1] ELSE Append(f[n - 1], dir[n])]
           kept == CHOOSE f : IsKept(f)
<1>1. Len(dir) \in Nat /\ \A m \in 1..Len(dir) : m \in 0..Len(dir) /\ m - 1 \in 0..Len(dir) /\ m # 0
  OBVIOUS
<1>2. \A m \in 0..Len(dir) : m = 0 \/ m \in 1..Len(dir)
  BY <1>1
<1>3. PICK g : Keeps(g, dir, Len(dir))
  BY KeepsExist
<1>4. IsKept(g)
  <2>1. /\ g \in [0..Len(dir) -> Seq(Plain)] /\ g[0] = <<>>
        /\ \A m \in 1..Len(dir) :
             g[m] = IF dir[m] \in SplitDirectories THEN g[m - 1] ELSE Append(g[m - 1], dir[m])
    BY <1>3 DEF Keeps
  <2> QED BY <1>1, <1>2, <2>1
<1>5. Strip(dir) = kept[Len(dir)]
  BY DEF Strip
<1>6. IsKept(kept)
  <2> HIDE DEF IsKept
  <2> QED BY <1>4
<1> HIDE DEF kept
<1>7. /\ kept[0] = <<>>
      /\ \A m \in 1..Len(dir) :
           kept[m] = IF dir[m] \in SplitDirectories THEN kept[m - 1] ELSE Append(kept[m - 1], dir[m])
  <2>1. kept = [m \in 0..Len(dir) |->
                 IF m = 0 THEN <<>>
                 ELSE IF dir[m] \in SplitDirectories THEN kept[m - 1] ELSE Append(kept[m - 1], dir[m])]
    BY <1>6
  <2>2. 0 \in 0..Len(dir)
    BY <1>1
  <2> QED BY <1>1, <2>1, <2>2
<1> HIDE DEF IsKept
<1>8. \A m \in 0..Len(dir) : kept[m] = g[m]
  <2> DEFINE T == {m \in 0..Len(dir) : kept[m] # g[m]}
  <2> SUFFICES ASSUME T # {} PROVE FALSE
    OBVIOUS
  <2>1. T \subseteq Nat
    OBVIOUS
  <2>2. PICK n \in T : \A y \in T : n <= y
    <3> HIDE DEF T
    <3> QED BY <2>1, LeastNatural
  <2>3. n \in 0..Len(dir) /\ kept[n] # g[n]
    BY <2>2
  <2>4. g[0] = <<>> /\ \A m \in 1..Len(dir) :
          g[m] = IF dir[m] \in SplitDirectories THEN g[m - 1] ELSE Append(g[m - 1], dir[m])
    BY <1>3 DEF Keeps
  <2>5. n \in 1..Len(dir) /\ n - 1 \in 0..Len(dir)
    BY <1>1, <1>2, <1>7, <2>3, <2>4
  <2>6. kept[n - 1] = g[n - 1]
    BY <2>2, <2>5
  <2> QED BY <1>7, <2>3, <2>4, <2>5, <2>6
<1>9. Strip(dir) = g[Len(dir)]
  BY <1>1, <1>5, <1>8
<1> QED BY <1>3, <1>9

(* What is left has no split directory.                                  *)
LEMMA StripType ==
  ASSUME NEW dir \in Seq(STRING)
  PROVE  Strip(dir) \in Seq(Plain) /\ Strip(dir) \in Seq(STRING)
<1>1. PICK f : Keeps(f, dir, Len(dir)) /\ Strip(dir) = f[Len(dir)]
  BY StripKeeps
<1>2. Len(dir) \in 0..Len(dir)
  OBVIOUS
<1>3. Strip(dir) \in Seq(Plain)
  BY <1>1, <1>2 DEF Keeps
<1>4. Plain \subseteq STRING
  BY DEF Plain
<1> QED BY <1>3, <1>4, SeqMonotonic

(* Nothing is taken from a directory without split ones.                 *)
LEMMA StripPlain ==
  ASSUME NEW dir \in Seq(Plain)
  PROVE  Strip(dir) = dir
<1>1. dir \in Seq(STRING) /\ Len(dir) \in Nat
  <2>1. Plain \subseteq STRING
    BY DEF Plain
  <2>2. dir \in Seq(STRING)
    BY <2>1, SeqMonotonic
  <2> QED BY <2>2
<1>2. PICK f : Keeps(f, dir, Len(dir)) /\ Strip(dir) = f[Len(dir)]
  BY <1>1, StripKeeps
<1> DEFINE T == {m \in 0..Len(dir) : f[m] # SubSeq(dir, 1, m)}
<1>3. T = {}
  <2> SUFFICES ASSUME T # {} PROVE FALSE
    OBVIOUS
  <2>1. T \subseteq Nat
    OBVIOUS
  <2>2. PICK n \in T : \A y \in T : n <= y
    <3> HIDE DEF T
    <3> QED BY <2>1, LeastNatural
  <2>3. n \in 0..Len(dir) /\ f[n] # SubSeq(dir, 1, n)
    BY <2>2
  <2>4. n # 0
    <3>1. SubSeq(dir, 1, 0) = <<>> /\ f[0] = <<>>
      BY <1>2, SubSeqEmpty DEF Keeps
    <3> QED BY <2>3, <3>1
  <2>5. n \in 1..Len(dir) /\ n - 1 \in 0..Len(dir) /\ 1 \in 1..Len(dir) /\ n \in 1..Len(dir)
    BY <1>1, <2>3, <2>4
  <2>6. f[n - 1] = SubSeq(dir, 1, n - 1)
    BY <2>2, <2>5
  <2>7. dir[n] \notin SplitDirectories /\ dir[n] \in Plain
    BY <2>5, ElementOfSeq DEF Plain
  <2>8. f[n] = Append(SubSeq(dir, 1, n - 1), dir[n])
    BY <1>2, <2>5, <2>6, <2>7 DEF Keeps
  <2>9. SubSeq(dir, 1, n) = SubSeq(dir, 1, n - 1) \o <<dir[n]>>
    BY <1>1, <2>5, SubSeqRecursiveSecond
  <2>10. SubSeq(dir, 1, n - 1) \in Seq(STRING) /\ dir[n] \in STRING
    BY <1>1, <2>5, UpLength, ElementOfSeq
  <2>11. Append(SubSeq(dir, 1, n - 1), dir[n]) = SubSeq(dir, 1, n - 1) \o <<dir[n]>>
    BY <2>10, AppendIsConcat
  <2> QED BY <2>3, <2>8, <2>9, <2>11
<1>4. f[Len(dir)] = SubSeq(dir, 1, Len(dir))
  BY <1>1, <1>3
<1> QED BY <1>1, <1>2, <1>4, SubSeqFull

(* Nothing is left of no directory.                                      *)
LEMMA StripEmpty == Strip(<<>>) = <<>>
BY StripPlain, EmptySeq

Joined(a, b) == a \o b

(* An element can be appended before or after joining.                   *)
LEMMA ConcatAppend ==
  ASSUME NEW S, NEW a \in Seq(S), NEW b \in Seq(S), NEW e \in S
  PROVE  Append(Joined(a, b), e) = Joined(a, Append(b, e))
<1>1. a \o b \in Seq(S) /\ <<e>> \in Seq(S)
  BY ConcatProperties
<1>2. Append(a \o b, e) = (a \o b) \o <<e>> /\ Append(b, e) = b \o <<e>>
  BY <1>1, AppendIsConcat
<1>3. (a \o b) \o <<e>> = a \o (b \o <<e>>)
  BY <1>1, ConcatAssociative
<1> QED BY <1>2, <1>3 DEF Joined

(* What is left of two parts is what is left of each.                    *)
LEMMA StripConcat ==
  ASSUME NEW p \in Seq(STRING), NEW q \in Seq(STRING)
  PROVE  Strip(p \o q) = Strip(p) \o Strip(q)
<1> DEFINE d == p \o q
           L == Len(p)
           M == Len(q)
<1>1. /\ d \in Seq(STRING) /\ L \in Nat /\ M \in Nat /\ Len(d) = L + M
      /\ \A i \in 1..L : d[i] = p[i]
      /\ \A i \in 1..M : d[L + i] = q[i]
  <2>1. /\ d \in Seq(STRING) /\ L \in Nat /\ M \in Nat /\ Len(d) = L + M
        /\ \A i \in 1..(L + M) : d[i] = IF i <= L THEN p[i] ELSE q[i - L]
    BY ConcatProperties
  <2> HIDE DEF d
  <2>2. \A i \in 1..L : i \in 1..(L + M) /\ i <= L
    BY <2>1
  <2>3. \A i \in 1..M : L + i \in 1..(L + M) /\ ~(L + i <= L) /\ L + i - L = i
    BY <2>1
  <2> QED BY <2>1, <2>2, <2>3
<1>2. PICK f : Keeps(f, p, L) /\ Strip(p) = f[L]
  BY StripKeeps
<1>3. PICK g : Keeps(g, q, M) /\ Strip(q) = g[M]
  BY StripKeeps
<1>4. PICK h : Keeps(h, d, L + M) /\ Strip(d) = h[L + M]
  BY <1>1, StripKeeps
<1> HIDE DEF d, L, M
<1>5. \A m \in 0..L : h[m] = f[m]
  <2> DEFINE T == {m \in 0..L : h[m] # f[m]}
  <2> SUFFICES ASSUME T # {} PROVE FALSE
    OBVIOUS
  <2>1. T \subseteq Nat
    OBVIOUS
  <2>2. PICK n \in T : \A y \in T : n <= y
    <3> HIDE DEF T
    <3> QED BY <2>1, LeastNatural
  <2>3. n \in 0..L /\ h[n] # f[n]
    BY <2>2
  <2>4. n # 0
    BY <1>2, <1>4, <2>3 DEF Keeps
  <2>5. n \in 1..L /\ n - 1 \in 0..L /\ n \in 1..(L + M)
    BY <1>1, <2>3, <2>4
  <2>6. h[n - 1] = f[n - 1]
    BY <2>2, <2>5
  <2> QED BY <1>1, <1>2, <1>4, <2>3, <2>5, <2>6 DEF Keeps
<1>6. \A m \in 0..M : h[L + m] = Joined(f[L], g[m])
  <2> DEFINE T == {m \in 0..M : h[L + m] # Joined(f[L], g[m])}
  <2> SUFFICES ASSUME T # {} PROVE FALSE
    OBVIOUS
  <2>1. T \subseteq Nat
    BY <1>1
  <2>2. PICK n \in T : \A y \in T : n <= y
    <3> HIDE DEF T
    <3> QED BY <2>1, LeastNatural
  <2>3. n \in 0..M /\ h[L + n] # Joined(f[L], g[n])
    BY <2>2
  <2>4. f[L] \in Seq(Plain) /\ g[n] \in Seq(Plain)
    <3>1. L \in 0..L
      BY <1>1
    <3> QED BY <1>2, <1>3, <2>3, <3>1 DEF Keeps
  <2>5. n # 0
    <3> SUFFICES ASSUME n = 0 PROVE FALSE
      OBVIOUS
    <3>1. h[L + 0] = f[L] /\ L + 0 = L
      BY <1>1, <1>5
    <3>2. g[0] = <<>>
      BY <1>3 DEF Keeps
    <3>3. Joined(f[L], <<>>) = f[L]
      BY <2>4, ConcatEmptySeq DEF Joined
    <3> QED BY <2>3, <3>1, <3>2, <3>3
  <2>6. n \in 1..M /\ n - 1 \in 0..M /\ L + n \in 1..(L + M) /\ L + n - 1 = L + (n - 1)
    BY <1>1, <2>3, <2>5
  <2>7. h[L + (n - 1)] = Joined(f[L], g[n - 1]) /\ g[n - 1] \in Seq(Plain)
    <3>1. n - 1 \notin T
      BY <1>1, <2>2, <2>3
    <3>2. h[L + (n - 1)] = Joined(f[L], g[n - 1])
      BY <2>6, <3>1
    <3> HIDE DEF T
    <3> QED BY <1>3, <2>6, <3>2 DEF Keeps
  <2>8. d[L + n] = q[n]
    BY <1>1, <2>6
  <2>9. h[L + n] = IF q[n] \in SplitDirectories THEN h[L + (n - 1)]
                   ELSE Append(h[L + (n - 1)], q[n])
    <3> HIDE DEF T
    <3>1. PICK k \in 1..(L + M) : k = L + n /\ k - 1 = L + (n - 1)
      <4>1. L + n \in 1..(L + M)
        BY <2>6
      <4> QED BY <1>1, <2>3, <4>1
    <3>2. h[k] = IF d[k] \in SplitDirectories THEN h[k - 1] ELSE Append(h[k - 1], d[k])
      BY <1>4 DEF Keeps
    <3> QED BY <2>8, <3>1, <3>2
  <2>10. g[n] = IF q[n] \in SplitDirectories THEN g[n - 1] ELSE Append(g[n - 1], q[n])
    BY <1>3, <2>6 DEF Keeps
  <2>11. CASE q[n] \in SplitDirectories
    BY <2>3, <2>7, <2>9, <2>10, <2>11
  <2>12. CASE q[n] \notin SplitDirectories
    <3>1. q[n] \in Plain
      BY <2>6, <2>12, ElementOfSeq DEF Plain, M
    <3>2. g[n] = Append(g[n - 1], q[n]) /\ h[L + n] = Append(Joined(f[L], g[n - 1]), q[n])
      BY <2>7, <2>9, <2>10, <2>12
    <3>3. Append(Joined(f[L], g[n - 1]), q[n]) = Joined(f[L], Append(g[n - 1], q[n]))
      <4>1. \A a \in Seq(Plain), b \in Seq(Plain), e \in Plain :
              Append(Joined(a, b), e) = Joined(a, Append(b, e))
        BY ConcatAppend
      <4> QED BY <2>4, <2>7, <3>1, <4>1
    <3> QED BY <2>3, <3>2, <3>3
  <2> QED BY <2>11, <2>12
<1>7. h[L + M] = Joined(f[L], g[M])
  BY <1>1, <1>6
<1> QED BY <1>2, <1>3, <1>4, <1>7 DEF d, Joined

-----------------------------------------------------------------------------
(* Paths                                                                   *)

Components == STRING \X (DOMAIN WordOf \cup NoSuffix)
OfDirectory == [d \in STRING |-> Component(d)]
PathOf(dirs, base) == Append([i \in DOMAIN dirs |-> OfDirectory[dirs[i]]], base)
BaseOf(f, dropped) == <<f.stem, IF f.suffix \in dropped THEN "" ELSE f.suffix>>

(* The two parts of a pair.                                              *)
LEMMA Fields ==
  ASSUME NEW a, NEW b
  PROVE  <<a, b>>[1] = a /\ <<a, b>>[2] = b
OBVIOUS

(* Directories as components of a path.                                  *)
LEMMA DirectoryComponents ==
  /\ OfDirectory \in [STRING -> Components]
  /\ \A d \in STRING : OfDirectory[d] = Component(d) /\ OfDirectory[d][1] = d
<1>1. ASSUME NEW d \in STRING
      PROVE  Component(d) \in Components /\ Component(d)[1] = d
  <2>1. PICK e \in NoSuffix : Component(d) = <<d, e>>
    BY Zenon DEF Component, NoSuffix
  <2>2. <<d, e>> \in Components
    BY DEF Components
  <2> QED BY <2>1, <2>2, Fields
<1> QED BY <1>1 DEF OfDirectory

(* The path of a file is its directories and its base.                   *)
LEMMA PathIs ==
  ASSUME NEW f, NEW dropped, StripDirs(f) \in Seq(STRING)
  PROVE  Path(f, dropped) = PathOf(StripDirs(f), BaseOf(f, dropped))
<1> DEFINE dirs == StripDirs(f)
<1>1. \A i \in DOMAIN dirs : dirs[i] \in STRING
  BY ElementOfSeq
<1>2. \A i \in DOMAIN dirs : Component(dirs[i]) = OfDirectory[dirs[i]]
  BY <1>1, DirectoryComponents
<1>3. [i \in DOMAIN dirs |-> Component(dirs[i])] = [i \in DOMAIN dirs |-> OfDirectory[dirs[i]]]
  BY <1>2
<1> QED BY <1>3, Zenon DEF Path, PathOf, BaseOf

(* The components of a path.                                             *)
LEMMA PathProperties ==
  ASSUME NEW dirs \in Seq(STRING), NEW base \in Components
  PROVE  /\ PathOf(dirs, base) \in Seq(Components)
         /\ Len(dirs) \in Nat /\ Len(PathOf(dirs, base)) = Len(dirs) + 1
         /\ \A i \in 1..Len(dirs) : PathOf(dirs, base)[i] = OfDirectory[dirs[i]]
         /\ PathOf(dirs, base)[Len(dirs) + 1] = base
<1> DEFINE above == [i \in DOMAIN dirs |-> OfDirectory[dirs[i]]]
<1>1. Len(dirs) \in Nat /\ DOMAIN dirs = 1..Len(dirs) /\ \A i \in 1..Len(dirs) : dirs[i] \in STRING
  BY LenProperties, ElementOfSeq
<1>2. above \in Seq(Components) /\ Len(above) = Len(dirs)
      /\ \A i \in 1..Len(dirs) : above[i] = OfDirectory[dirs[i]]
  <2>1. above = [i \in 1..Len(dirs) |-> OfDirectory[dirs[i]]]
    BY <1>1
  <2>2. \A i \in 1..Len(dirs) : OfDirectory[dirs[i]] \in Components
    BY <1>1, DirectoryComponents
  <2> HIDE DEF above
  <2>3. above \in [1..Len(dirs) -> Components]
    BY <2>1, <2>2
  <2>4. above \in Seq(Components) /\ Len(above) = Len(dirs)
    BY <1>1, <2>3
  <2> QED BY <2>1, <2>4
<1> HIDE DEF above
<1> QED BY <1>1, <1>2, AppendProperties DEF PathOf, above

(* The directories of the beginning of a path.                           *)
LEMMA PathPrefix ==
  ASSUME NEW dirs \in Seq(STRING), NEW base \in Components, NEW k \in 0..Len(dirs)
  PROVE  [i \in 1..k |-> PathOf(dirs, base)[i][1]] = SubSeq(dirs, 1, k)
<1>1. Len(dirs) \in Nat /\ \A i \in 1..k : i \in 1..Len(dirs)
  BY LenProperties
<1>2. \A i \in 1..k : PathOf(dirs, base)[i][1] = dirs[i] /\ dirs[i] \in STRING
  BY <1>1, PathProperties, DirectoryComponents, ElementOfSeq
<1> DEFINE prefix == [i \in 1..k |-> PathOf(dirs, base)[i][1]]
<1>3. prefix \in Seq(STRING) /\ Len(prefix) = k /\ \A i \in 1..k : prefix[i] = dirs[i]
  BY <1>1, <1>2
<1>4. /\ SubSeq(dirs, 1, k) \in Seq(STRING) /\ Len(SubSeq(dirs, 1, k)) = k
      /\ \A i \in 1..k : SubSeq(dirs, 1, k)[i] = dirs[i]
  BY <1>1, <1>2, SubSeqProperties
<1> HIDE DEF prefix
<1>5. prefix = SubSeq(dirs, 1, k)
  BY <1>3, <1>4, SeqEqual
<1> QED BY <1>5 DEF prefix

(* One path ends like the other, but for its first component.              *)
EndsLike(c, h) ==
  /\ Len(c) - Len(h) >= 0
  /\ Tail(h) = SubSeq(c, Len(c) - Len(h) + 2, Len(c))

(* If a path ends like another, their directories agree from the second  *)
(* component on.                                                         *)
LEMMA PathsEnd ==
  ASSUME NEW s \in Seq(STRING), NEW t \in Seq(STRING), NEW a \in Components, NEW b \in Components,
         EndsLike(PathOf(s, a), PathOf(t, b))
  PROVE  /\ Len(PathOf(s, a)) - Len(PathOf(t, b)) = Len(s) - Len(t)
         /\ Len(s) - Len(t) \in 0..Len(s)
         /\ \A i \in 2..Len(t) : t[i] = s[Len(s) - Len(t) + i]
         /\ t # <<>> => a = b
<1> DEFINE c == PathOf(s, a)
           h == PathOf(t, b)
<1>1. PICK m \in Nat, n \in Nat : m = Len(s) /\ n = Len(t)
  BY PathProperties
<1>2. /\ c \in Seq(Components) /\ Len(c) = m + 1 /\ c[m + 1] = a
      /\ \A i \in 1..m : c[i] = OfDirectory[s[i]]
  BY <1>1, PathProperties
<1>3. /\ h \in Seq(Components) /\ Len(h) = n + 1 /\ h[n + 1] = b
      /\ \A i \in 1..n : h[i] = OfDirectory[t[i]]
  BY <1>1, PathProperties
<1>4. Len(c) - Len(h) = m - n /\ Len(c) - Len(h) >= 0
      /\ Tail(h) = SubSeq(c, Len(c) - Len(h) + 2, Len(c))
  BY <1>1, <1>2, <1>3 DEF EndsLike
<1> HIDE DEF c, h
<1>5. m - n \in 0..m /\ Tail(h) = SubSeq(c, m - n + 2, m + 1)
  <2>1. m - n >= 0 /\ Len(c) - Len(h) + 2 = m - n + 2
    BY <1>1, <1>2, <1>3, <1>4
  <2>2. m - n \in 0..m
    BY <1>1, <2>1
  <2>3. Tail(h) = SubSeq(c, m - n + 2, m + 1)
    BY <1>2, <1>4, <2>1, Zenon
  <2> QED BY <2>2, <2>3
<1>6. /\ Len(Tail(h)) = n
      /\ \A i \in 1..n : Tail(h)[i] = h[i + 1]
  <2>1. h # <<>>
    BY <1>3
  <2> QED BY <1>3, <2>1, HeadTailProperties
<1>7. \A i \in 1..n : SubSeq(c, m - n + 2, m + 1)[i] = c[m - n + i + 1]
  <2>1. \A i \in (m - n + 2)..(m + 1) : i \in 1..Len(c)
    BY <1>2, <1>5
  <2>2. \A i \in (m - n + 2)..(m + 1) : c[i] \in Components
    BY <1>2, <2>1, ElementOfSeq
  <2>3. \A i \in 1..((m + 1) - (m - n + 2) + 1) :
          SubSeq(c, m - n + 2, m + 1)[i] = c[(m - n + 2) + i - 1]
    BY <2>2, SubSeqProperties
  <2> QED BY <2>3
<1>8. \A i \in 1..n : h[i + 1] = c[m - n + i + 1]
  BY <1>5, <1>6, <1>7
<1>9. ASSUME NEW i \in 2..n
      PROVE  t[i] = s[m - n + i]
  <2>1. i - 1 \in 1..n /\ i \in 1..n /\ m - n + i \in 1..m /\ m - n + (i - 1) + 1 = m - n + i
        /\ i - 1 + 1 = i
    BY <1>5
  <2>2. h[i] = c[m - n + i]
    BY <1>8, <2>1
  <2>3. OfDirectory[t[i]] = OfDirectory[s[m - n + i]]
    BY <1>2, <1>3, <2>1, <2>2
  <2>4. t[i] \in STRING /\ s[m - n + i] \in STRING
    BY <1>1, <2>1, ElementOfSeq
  <2> QED BY <2>3, <2>4, DirectoryComponents
<1>10. ASSUME t # <<>> PROVE a = b
  <2>1. n \in 1..n /\ m - n + n + 1 = m + 1
    BY <1>1, <1>10, EmptySeq
  <2> QED BY <1>2, <1>3, <1>8, <2>1
<1> QED BY <1>1, <1>4, <1>5, <1>9, <1>10 DEF c, h

(* And two that do                                                         *)
AgreeBehind(s, t, b, k) ==
  /\ Len(PathOf(s, b)) - Len(PathOf(t, b)) = k
  /\ Tail(PathOf(t, b)) = SubSeq(PathOf(s, b), k + 2, Len(PathOf(s, b)))
  /\ PathOf(s, b)[k + 1] = PathOf(t, b)[1]

(* Directories that end like others make paths that agree.               *)
LEMMA PathsAgree ==
  ASSUME NEW s \in Seq(STRING), NEW t \in Seq(STRING), NEW b \in Components, NEW k \in 0..Len(s),
         t = SubSeq(s, k + 1, Len(s))
  PROVE  AgreeBehind(s, t, b, k)
<1> DEFINE c == PathOf(s, b)
           h == PathOf(t, b)
<1>1. PICK m \in Nat : m = Len(s)
  BY PathProperties
<1>2. /\ c \in Seq(Components) /\ Len(c) = m + 1 /\ c[m + 1] = b
      /\ \A i \in 1..m : c[i] = OfDirectory[s[i]]
  BY <1>1, PathProperties
<1>3. Len(t) = m - k /\ m - k \in Nat /\ \A i \in 1..(m - k) : t[i] = s[k + i]
  <2>1. \A i \in (k + 1)..m : i \in 1..Len(s)
    BY <1>1
  <2>2. \A i \in (k + 1)..m : s[i] \in STRING
    BY <2>1, ElementOfSeq
  <2>3. /\ Len(SubSeq(s, k + 1, m)) = IF k + 1 <= m THEN m - (k + 1) + 1 ELSE 0
        /\ \A i \in 1..(m - (k + 1) + 1) : SubSeq(s, k + 1, m)[i] = s[(k + 1) + i - 1]
    BY <1>1, <2>2, SubSeqProperties
  <2> QED BY <1>1, <2>3
<1>4. /\ h \in Seq(Components) /\ Len(h) = m - k + 1 /\ h[m - k + 1] = b
      /\ \A i \in 1..(m - k) : h[i] = OfDirectory[t[i]]
  <2>1. /\ h \in Seq(Components) /\ Len(h) = Len(t) + 1 /\ h[Len(t) + 1] = b
        /\ \A i \in 1..Len(t) : h[i] = OfDirectory[t[i]]
    BY PathProperties
  <2> HIDE DEF h
  <2> QED BY <1>3, <2>1
<1> HIDE DEF c, h
<1>5. \A i \in 1..(m - k + 1) : h[i] = c[k + i]
  <2>1. \A i \in 1..(m - k + 1) : i = m - k + 1 \/ (i \in 1..(m - k) /\ k + i \in 1..m)
    BY <1>1, <1>3
  <2>2. k + (m - k + 1) = m + 1
    BY <1>1
  <2>3. ASSUME NEW i \in 1..(m - k), k + i \in 1..m
        PROVE  h[i] = c[k + i]
    <3>1. h[i] = OfDirectory[t[i]] /\ t[i] = s[k + i]
      BY <1>3, <1>4, Zenon
    <3>2. c[k + i] = OfDirectory[s[k + i]]
      BY <1>2, <2>3, Zenon
    <3> QED BY <3>1, <3>2, Zenon
  <2> QED BY <1>2, <1>4, <2>1, <2>2, <2>3
<1>6. Tail(h) = SubSeq(c, k + 2, m + 1)
  <2>1. h # <<>>
    BY <1>3, <1>4
  <2>2. /\ Tail(h) \in Seq(Components) /\ Len(Tail(h)) = m - k
        /\ \A i \in 1..(m - k) : Tail(h)[i] = h[i + 1]
    BY <1>3, <1>4, <2>1, HeadTailProperties
  <2>3. \A i \in (k + 2)..(m + 1) : c[i] \in Components
    BY <1>1, <1>2, ElementOfSeq
  <2>4. /\ SubSeq(c, k + 2, m + 1) \in Seq(Components)
        /\ Len(SubSeq(c, k + 2, m + 1)) = IF k + 2 <= m + 1 THEN (m + 1) - (k + 2) + 1 ELSE 0
        /\ \A i \in 1..((m + 1) - (k + 2) + 1) : SubSeq(c, k + 2, m + 1)[i] = c[(k + 2) + i - 1]
    BY <2>3, SubSeqProperties
  <2>5. Len(SubSeq(c, k + 2, m + 1)) = m - k
        /\ \A i \in 1..(m - k) : SubSeq(c, k + 2, m + 1)[i] = c[k + (i + 1)] /\ i + 1 \in 1..(m - k + 1)
    BY <1>3, <2>4
  <2>6. \A i \in 1..(m - k) : Tail(h)[i] = SubSeq(c, k + 2, m + 1)[i]
    BY <1>5, <2>2, <2>5
  <2> QED BY <2>2, <2>4, <2>5, <2>6, SeqEqual
<1>7. c[k + 1] = h[1] /\ Len(c) - Len(h) = k
  <2>1. 1 \in 1..(m - k + 1)
    BY <1>3
  <2> QED BY <1>2, <1>3, <1>4, <1>5, <2>1
<1> QED BY <1>2, <1>6, <1>7, Zenon DEF c, h, AgreeBehind

(* The base of a file is a component.                                    *)
LEMMA BaseIs ==
  ASSUME NEW f, f.stem \in STRING, f.suffix \in DOMAIN WordOf \cup NoSuffix, NEW dropped
  PROVE  BaseOf(f, dropped) \in Components /\ BaseOf(f, dropped)[1] = f.stem
<1>1. PICK s \in DOMAIN WordOf \cup NoSuffix : BaseOf(f, dropped) = <<f.stem, s>>
  <2>1. CASE f.suffix \in dropped
    <3>1. \E s \in NoSuffix : BaseOf(f, dropped) = <<f.stem, s>>
      BY <2>1, Zenon DEF BaseOf, NoSuffix
    <3> QED BY <3>1
  <2>2. CASE f.suffix \notin dropped
    BY <2>2, Zenon DEF BaseOf
  <2> QED BY <2>1, <2>2
<1>2. <<f.stem, s>> \in Components
  BY DEF Components
<1> QED BY <1>1, <1>2, Fields

(* What StripDirs leaves of each kind of name                              *)
LEMMA StripDirsIs ==
  ASSUME NEW f
  PROVE  /\ f.absolute = TRUE => StripDirs(f) = Strip(f.dir)
         /\ f.absolute = FALSE /\ f.dir = <<>> => StripDirs(f) = <<>>
         /\ f.absolute = FALSE /\ f.dir # <<>> =>
              StripDirs(f) = <<Head(f.dir)>> \o Strip(Tail(f.dir))
<1>1. f.absolute = TRUE => StripDirs(f) = Strip(f.dir)
  BY Zenon DEF StripDirs
<1>2. f.dir = <<>> => StripDirs(f) = Strip(<<>>)
  BY Zenon DEF StripDirs
<1>3. f.absolute = FALSE /\ f.dir # <<>> => StripDirs(f) = <<Head(f.dir)>> \o Strip(Tail(f.dir))
  BY Zenon DEF StripDirs
<1> QED BY <1>1, <1>2, <1>3, StripEmpty

(* What EXCEPT makes of a file, by its fields.                           *)
LEMMA FileChanged ==
  ASSUME NEW f \in Files, NEW b, NEW t
  PROVE  /\ [f EXCEPT !.absolute = b]
              = [absolute |-> b, dir |-> f.dir, stem |-> f.stem, suffix |-> f.suffix, ext |-> f.ext]
         /\ [f EXCEPT !.absolute = b, !.dir = t]
              = [absolute |-> b, dir |-> t, stem |-> f.stem, suffix |-> f.suffix, ext |-> f.ext]
<1> DEFINE a == f.absolute
           d == f.dir
           s == f.stem
           x == f.suffix
           e == f.ext
<1>1. f = [absolute |-> a, dir |-> d, stem |-> s, suffix |-> x, ext |-> e]
  BY FileFields, Zenon
<1> HIDE DEF a, d, s, x, e
<1>2. [f EXCEPT !.absolute = b] = [absolute |-> b, dir |-> d, stem |-> s, suffix |-> x, ext |-> e]
  BY <1>1
<1> DEFINE g == [f EXCEPT !.absolute = b]
<1>3. [f EXCEPT !.absolute = b, !.dir = t] = [g EXCEPT !.dir = t]
  OBVIOUS
<1>4. g = [absolute |-> b, dir |-> d, stem |-> s, suffix |-> x, ext |-> e]
  BY <1>2
<1> HIDE DEF g
<1>5. [g EXCEPT !.dir = t] = [absolute |-> b, dir |-> t, stem |-> s, suffix |-> x, ext |-> e]
  BY <1>4
<1> QED BY <1>2, <1>3, <1>5, Zenon DEF d, s, x, e

(* A name is what the directory of its file is below some directory.       *)
LEMMA NameBelow ==
  ASSUME NEW f \in Files
  PROVE  /\ Named(f).stem = f.stem /\ Named(f).suffix = f.suffix /\ Named(f).ext = f.ext
         /\ Named(f) = [absolute |-> Named(f).absolute, dir |-> Named(f).dir, stem |-> f.stem,
                        suffix |-> f.suffix, ext |-> f.ext]
         /\ Named(f).dir \in Seq(STRING)
         /\ \/ Tops(f) = {} /\ Named(f).absolute = TRUE /\ Named(f).dir = f.dir
            \/ /\ Tops(f) # {} /\ Named(f).absolute = FALSE
               /\ \E n \in 1..Len(f.dir) :
                    /\ Shortest(Tops(f)) = SubSeq(f.dir, 1, n)
                    /\ Named(f).dir = SubSeq(f.dir, n + 1, Len(f.dir))
<1>1. f.dir \in Seq(STRING) /\ Len(f.dir) \in Nat
  BY FileFields
<1>2. CASE Tops(f) = {}
  <2>1. Named(f) = [f EXCEPT !.absolute = TRUE]
    BY <1>2 DEF Named, FullName
  <2>2. [f EXCEPT !.absolute = TRUE]
          = [absolute |-> TRUE, dir |-> f.dir, stem |-> f.stem, suffix |-> f.suffix, ext |-> f.ext]
    <3>1. \A b : [f EXCEPT !.absolute = b]
            = [absolute |-> b, dir |-> f.dir, stem |-> f.stem, suffix |-> f.suffix, ext |-> f.ext]
      BY FileChanged
    <3> QED BY <3>1, Zenon
  <2> QED BY <1>1, <1>2, <2>1, <2>2
<1>3. CASE Tops(f) # {}
  <2>1. PICK n \in 1..Len(f.dir) : Shortest(Tops(f)) = SubSeq(f.dir, 1, n)
    BY <1>3, TopIsAbove
  <2>2. Len(SubSeq(f.dir, 1, n)) = n
    BY <1>1, UpLength
  <2> DEFINE below == SubSeq(f.dir, n + 1, Len(f.dir))
  <2>3. Named(f) = [f EXCEPT !.absolute = FALSE, !.dir = below]
    BY <1>3, <2>1, <2>2 DEF Named, Relative
  <2>4. below \in Seq(STRING)
    BY <1>1, CutHere
  <2> HIDE DEF below
  <2>5. [f EXCEPT !.absolute = FALSE, !.dir = below]
          = [absolute |-> FALSE, dir |-> below, stem |-> f.stem, suffix |-> f.suffix, ext |-> f.ext]
    <3>1. \A b : [f EXCEPT !.absolute = b, !.dir = below]
            = [absolute |-> b, dir |-> below, stem |-> f.stem, suffix |-> f.suffix, ext |-> f.ext]
      BY FileChanged
    <3> QED BY <3>1, Zenon
  <2>6. /\ Named(f).stem = f.stem /\ Named(f).suffix = f.suffix /\ Named(f).ext = f.ext
        /\ Named(f).absolute = FALSE /\ Named(f).dir = below
        /\ Named(f) = [absolute |-> FALSE, dir |-> below, stem |-> f.stem,
                       suffix |-> f.suffix, ext |-> f.ext]
    BY <2>3, <2>5
  <2> QED BY <1>3, <2>1, <2>4, <2>6 DEF below
<1> QED BY <1>2, <1>3

(* The two paths of a source and the name of a header                      *)
LEMMA ModulePaths ==
  ASSUME NEW f \in Files, NEW g \in Files, f.absolute = TRUE
  PROVE  /\ StripDirs(f) \in Seq(Plain) /\ StripDirs(f) \in Seq(STRING)
         /\ StripDirs(Named(g)) \in Seq(STRING)
         /\ BaseOf(f, TestFileSuffixes) \in Components
         /\ BaseOf(f, TestFileSuffixes)[1] = f.stem
         /\ BaseOf(Named(g), {"-inl"}) \in Components
         /\ BaseOf(Named(g), {"-inl"})[1] = g.stem
         /\ CcPath(f) = PathOf(StripDirs(f), BaseOf(f, TestFileSuffixes))
         /\ HeaderPath(Named(g)) = PathOf(StripDirs(Named(g)), BaseOf(Named(g), {"-inl"}))
<1>1. StripDirs(f) \in Seq(Plain) /\ StripDirs(f) \in Seq(STRING)
  <2>1. StripDirs(f) = Strip(f.dir) /\ f.dir \in Seq(STRING)
    BY StripDirsIs, FileFields
  <2> QED BY <2>1, StripType
<1> DEFINE name == Named(g)
<1>2. /\ name.dir \in Seq(STRING) /\ name.absolute \in BOOLEAN /\ name.stem = g.stem
      /\ name.suffix = g.suffix
  <2>1. name.dir \in Seq(STRING) /\ name.stem = g.stem /\ name.suffix = g.suffix
    BY NameBelow
  <2>2. name.absolute = TRUE \/ name.absolute = FALSE
    BY NameBelow, Zenon
  <2> QED BY <2>1, <2>2, Zenon
<1> HIDE DEF name
<1>3. StripDirs(name) \in Seq(STRING)
  <2>1. CASE name.absolute = TRUE
    BY <1>2, <2>1, StripDirsIs, StripType
  <2>2. CASE name.absolute = FALSE /\ name.dir = <<>>
    <3>1. StripDirs(name) = <<>>
      BY <2>2, StripDirsIs
    <3> QED BY <3>1, EmptySeq
  <2>3. CASE name.absolute = FALSE /\ name.dir # <<>>
    <3>1. StripDirs(name) = <<Head(name.dir)>> \o Strip(Tail(name.dir))
      BY <2>3, StripDirsIs
    <3>2. Head(name.dir) \in STRING /\ Tail(name.dir) \in Seq(STRING)
      BY <1>2, <2>3, HeadTailProperties
    <3>3. <<Head(name.dir)>> \in Seq(STRING) /\ Strip(Tail(name.dir)) \in Seq(STRING)
      BY <3>2, StripType
    <3> QED BY <3>1, <3>3, Concat, Zenon
  <2> QED BY <1>2, <2>1, <2>2, <2>3, Zenon
<1>4. /\ BaseOf(f, TestFileSuffixes) \in Components
      /\ BaseOf(f, TestFileSuffixes)[1] = f.stem
  BY FileFields, BaseIs
<1>5. /\ BaseOf(name, {"-inl"}) \in Components
      /\ BaseOf(name, {"-inl"})[1] = g.stem
  <2>1. g.stem \in STRING /\ g.suffix \in DOMAIN WordOf \cup NoSuffix
    BY FileFields
  <2> QED BY <1>2, <2>1, BaseIs
<1>6. CcPath(f) = PathOf(StripDirs(f), BaseOf(f, TestFileSuffixes))
  BY <1>1, PathIs DEF CcPath
<1>7. HeaderPath(name) = PathOf(StripDirs(name), BaseOf(name, {"-inl"}))
  BY <1>3, PathIs DEF HeaderPath
<1> QED BY <1>1, <1>3, <1>4, <1>5, <1>6, <1>7 DEF name

-----------------------------------------------------------------------------
(* What is opened                                                          *)

(* A directory is cut in front of and behind one of its parts.           *)
LEMMA SplitHere ==
  ASSUME NEW dirs \in Seq(STRING), NEW k \in 0..(Len(dirs) - 1)
  PROVE  /\ SubSeq(dirs, 1, k) \in Seq(STRING) /\ SubSeq(dirs, k + 2, Len(dirs)) \in Seq(STRING)
         /\ dirs[k + 1] \in STRING
         /\ SubSeq(dirs, 1, k + 1) = SubSeq(dirs, 1, k) \o <<dirs[k + 1]>>
         /\ dirs = (SubSeq(dirs, 1, k) \o <<dirs[k + 1]>>) \o SubSeq(dirs, k + 2, Len(dirs))
<1>1. Len(dirs) \in Nat /\ k + 1 \in 1..Len(dirs) /\ k + 1 \in 0..Len(dirs) /\ k \in 0..Len(dirs)
      /\ k + 1 - 1 = k /\ k + 1 + 1 = k + 2 /\ 1 \in 1..Len(dirs)
  BY LenProperties
<1>2. /\ SubSeq(dirs, 1, k + 1) \in Seq(STRING) /\ SubSeq(dirs, k + 1 + 1, Len(dirs)) \in Seq(STRING)
      /\ dirs = SubSeq(dirs, 1, k + 1) \o SubSeq(dirs, k + 1 + 1, Len(dirs))
  BY <1>1, CutHere
<1>3. SubSeq(dirs, 1, k + 1) = SubSeq(dirs, 1, k + 1 - 1) \o <<dirs[k + 1]>>
  BY <1>1, SubSeqRecursiveSecond
<1>4. SubSeq(dirs, 1, k) \in Seq(STRING) /\ dirs[k + 1] \in STRING
  BY <1>1, UpLength, ElementOfSeq
<1> QED BY <1>1, <1>2, <1>3, <1>4

(* The beginning of a plain directory is plain.                          *)
LEMMA PlainPart ==
  ASSUME NEW dirs \in Seq(Plain), NEW k \in 0..Len(dirs)
  PROVE  SubSeq(dirs, 1, k) \in Seq(Plain)
<1>1. Len(dirs) \in Nat
  BY LenProperties
<1>2. \A i \in 1..k : dirs[i] \in Plain
  BY <1>1, ElementOfSeq
<1> QED BY <1>1, <1>2, SubSeqProperties

(* The head and tail of an element in front of a sequence.               *)
LEMMA HeadOfConcat ==
  ASSUME NEW S, NEW d \in S, NEW e \in Seq(S)
  PROVE  <<d>> \o e # <<>> /\ (<<d>> \o e)[1] = d /\ Tail(<<d>> \o e) = e
<1> DEFINE t == <<d>> \o e
<1>1. <<d>> \in Seq(S) /\ Len(<<d>>) = 1 /\ <<d>>[1] = d /\ Len(e) \in Nat
  OBVIOUS
<1>2. /\ t \in Seq(S) /\ Len(t) = Len(<<d>>) + Len(e)
      /\ \A i \in 1..(Len(<<d>>) + Len(e)) :
           t[i] = IF i <= Len(<<d>>) THEN <<d>>[i] ELSE e[i - Len(<<d>>)]
  BY <1>1, ConcatProperties
<1> HIDE DEF t
<1>3. Len(t) = 1 + Len(e) /\ t[1] = d /\ \A i \in 1..Len(e) : t[i + 1] = e[i]
  BY <1>1, <1>2
<1>4. t # <<>>
  BY <1>1, <1>3
<1>5. Tail(t) \in Seq(S) /\ Len(Tail(t)) = Len(e) /\ \A i \in 1..Len(e) : Tail(t)[i] = t[i + 1]
  BY <1>1, <1>2, <1>3, <1>4, HeadTailProperties
<1>6. Tail(t) = e
  BY <1>3, <1>5, SeqEqual
<1> QED BY <1>3, <1>4, <1>6 DEF t

(* A file that is opened for a source has its name, and lies in its        *)
(* directory but for public and internal.                                  *)
LEMMA OpenedNamesSource ==
  ASSUME NEW f \in Files, NEW g \in Files, FilesBelongToSameModule(f, Named(g))
  PROVE  /\ Opened(f, Named(g)).stem = f.stem
         /\ StripDirs(Opened(f, Named(g))) = StripDirs(f)
<1> DEFINE name == Named(g)
           s == StripDirs(f)
           t == StripDirs(name)
           a == BaseOf(f, TestFileSuffixes)
           b == BaseOf(name, {"-inl"})
           c == CcPath(f)
           h == HeaderPath(name)
           k == Len(s) - Len(t)
           prefix == [i \in 1..(Len(c) - Len(h)) |-> c[i][1]]
           first == c[Len(c) - Len(h) + 1][1]
<1>1. f.absolute = TRUE
  BY FilesAssumption
<1>2. /\ s \in Seq(Plain) /\ s \in Seq(STRING) /\ t \in Seq(STRING)
      /\ a \in Components /\ a[1] = f.stem /\ b \in Components /\ b[1] = g.stem
      /\ c = PathOf(s, a) /\ h = PathOf(t, b)
  BY <1>1, ModulePaths
<1>3. EndsLike(c, h)
  BY Zenon DEF FilesBelongToSameModule, EndsLike
<1>4. IF name.absolute THEN c[Len(c) - Len(h) + 1] = h[1]
      ELSE Ending(c[Len(c) - Len(h) + 1], h[1])
  BY Zenon DEF FilesBelongToSameModule
<1>5. /\ name.absolute = TRUE => /\ Opened(f, name).dir = prefix \o name.dir
                                 /\ Opened(f, name).stem = name.stem
                                 /\ Opened(f, name).absolute = TRUE
      /\ name.absolute = FALSE /\ name.dir = <<>> =>
           /\ Opened(f, name).dir = prefix /\ Opened(f, name).stem = Completed(first, name.stem)
           /\ Opened(f, name).absolute = TRUE
      /\ name.absolute = FALSE /\ name.dir # <<>> =>
           /\ Opened(f, name).dir = prefix \o <<Completed(first, Head(name.dir))>> \o Tail(name.dir)
           /\ Opened(f, name).stem = name.stem
           /\ Opened(f, name).absolute = TRUE
  BY Zenon DEF Opened
<1>6. name.dir \in Seq(STRING) /\ name.stem = g.stem /\ (name.absolute = TRUE \/ name.absolute = FALSE)
  <2>1. name.dir \in Seq(STRING) /\ name.stem = g.stem
    BY NameBelow
  <2>2. name.absolute = TRUE \/ name.absolute = FALSE
    BY NameBelow, Zenon
  <2> QED BY <2>1, <2>2, Zenon
<1> HIDE DEF name, s, t, a, b, c, h, prefix, first
<1>7. /\ Len(c) - Len(h) = k /\ k \in 0..Len(s) /\ (t # <<>> => a = b)
      /\ \A i \in 2..Len(t) : t[i] = s[k + i]
  <2>1. EndsLike(PathOf(s, a), PathOf(t, b))
    BY <1>2, <1>3, Zenon
  <2>2. Len(PathOf(s, a)) - Len(PathOf(t, b)) = Len(s) - Len(t)
    <3>1. Len(PathOf(s, a)) = Len(s) + 1 /\ Len(s) \in Nat
      BY <1>2, PathProperties
    <3>2. Len(PathOf(t, b)) = Len(t) + 1 /\ Len(t) \in Nat
      BY <1>2, PathProperties
    <3> QED BY <3>1, <3>2
  <2>3. Len(s) - Len(t) \in 0..Len(s)
    BY <1>2, <2>1, PathsEnd
  <2>4. t # <<>> => a = b
    BY <1>2, <2>1, PathsEnd
  <2>5. \A i \in 2..Len(t) : t[i] = s[Len(s) - Len(t) + i]
    BY <1>2, <2>1, PathsEnd
  <2> QED BY <1>2, <2>2, <2>3, <2>4, <2>5, Zenon
<1>8. /\ Len(s) \in Nat /\ Len(t) \in Nat
      /\ t = <<>> => k = Len(s)
      /\ t # <<>> => k \in 0..(Len(s) - 1) /\ 1 \in 1..Len(t) /\ k + 1 \in 1..Len(s)
  <2>1. Len(s) \in Nat /\ Len(t) \in Nat /\ (t = <<>> => Len(t) = 0) /\ (t # <<>> => Len(t) # 0)
    BY <1>2, EmptySeq, LenProperties
  <2> QED BY <1>7, <2>1
<1> HIDE DEF k
<1>9. prefix = SubSeq(s, 1, k) /\ prefix \in Seq(STRING) /\ Strip(prefix) = prefix
  <2>1. prefix = SubSeq(s, 1, k)
    <3>1. prefix = [i \in 1..k |-> PathOf(s, a)[i][1]]
      BY <1>2, <1>7, Zenon DEF prefix
    <3> QED BY <1>2, <1>7, <3>1, PathPrefix, Zenon
  <2>2. prefix \in Seq(Plain) /\ prefix \in Seq(STRING)
    BY <1>2, <1>7, <2>1, PlainPart, UpLength
  <2> QED BY <2>1, <2>2, StripPlain
<1>10. /\ t = <<>> => c[k + 1] = a /\ h[1] = b
       /\ t # <<>> => c[k + 1] = OfDirectory[s[k + 1]] /\ h[1] = OfDirectory[t[1]]
  <2>1. CASE t = <<>>
    <3>1. Len(t) + 1 = 1
      BY <2>1, EmptySeq
    <3>2. c[Len(s) + 1] = a /\ h[Len(t) + 1] = b
      BY <1>2, PathProperties
    <3> QED BY <1>8, <2>1, <3>1, <3>2
  <2>2. CASE t # <<>>
    BY <1>2, <1>8, <2>2, PathProperties, ZenonT(40)
  <2> QED BY <2>1, <2>2
<1>11. t # <<>> =>
         /\ s[k + 1] \in STRING /\ t[1] \in STRING
         /\ OfDirectory[s[k + 1]][1] = s[k + 1] /\ OfDirectory[t[1]][1] = t[1]
         /\ Tail(t) \in Seq(STRING) /\ t = <<t[1]>> \o Tail(t)
         /\ Tail(t) = SubSeq(s, k + 2, Len(s))
         /\ s = (prefix \o <<s[k + 1]>>) \o Tail(t)
  <2> HAVE t # <<>>
  <2>1. s[k + 1] \in STRING /\ t[1] \in STRING
    BY <1>2, <1>8, ElementOfSeq
  <2>2. OfDirectory[s[k + 1]][1] = s[k + 1] /\ OfDirectory[t[1]][1] = t[1]
    BY <2>1, DirectoryComponents
  <2>3. /\ Tail(t) \in Seq(STRING) /\ Len(Tail(t)) = Len(t) - 1
        /\ \A i \in 1..Len(Tail(t)) : Tail(t)[i] = t[i + 1]
    BY <1>2, HeadTailProperties
  <2>4. t = <<t[1]>> \o Tail(t)
    <3>1. Len(t) \in 1..Len(t) /\ 1 \in 1..Len(t)
      BY <1>8
    <3>2. SubSeq(t, 1, Len(t)) = <<t[1]>> \o SubSeq(t, 1 + 1, Len(t))
      BY <1>2, <3>1, SubSeqRecursiveFirst
    <3>3. SubSeq(t, 1, Len(t)) = t /\ SubSeq(t, 2, Len(t)) = Tail(t)
      BY <1>2, SubSeqFull, TailIsSubSeq
    <3> QED BY <3>2, <3>3
  <2>5. Tail(t) = SubSeq(s, k + 2, Len(s))
    <3>1. \A i \in (k + 2)..Len(s) : s[i] \in STRING
      BY <1>2, <1>7, <1>8, ElementOfSeq
    <3>2. /\ SubSeq(s, k + 2, Len(s)) \in Seq(STRING)
          /\ Len(SubSeq(s, k + 2, Len(s))) = IF k + 2 <= Len(s) THEN Len(s) - (k + 2) + 1 ELSE 0
          /\ \A i \in 1..(Len(s) - (k + 2) + 1) : SubSeq(s, k + 2, Len(s))[i] = s[k + 2 + i - 1]
      <4>1. k + 2 \in Int /\ Len(s) \in Int
        BY <1>7, <1>8
      <4> QED BY <3>1, <4>1, SubSeqProperties
    <3>3. Len(SubSeq(s, k + 2, Len(s))) = Len(t) - 1
      <4>1. k + 2 <= Len(s) => Len(s) - (k + 2) + 1 = Len(t) - 1
        BY <1>7, <1>8 DEF k
      <4>2. ~(k + 2 <= Len(s)) => Len(t) - 1 = 0
        <5>1. Len(t) = Len(s) - k /\ k \in Int /\ Len(s) \in Int /\ k <= Len(s) - 1
          BY <1>7, <1>8 DEF k
        <5> QED BY <5>1
      <4> QED BY <3>2, <4>1, <4>2
    <3>4. \A i \in 1..(Len(t) - 1) :
            /\ i + 1 \in 2..Len(t) /\ i \in 1..(Len(s) - (k + 2) + 1) /\ k + 2 + i - 1 = k + (i + 1)
      BY <1>7, <1>8 DEF k
    <3>5. \A i \in 1..(Len(t) - 1) : Tail(t)[i] = SubSeq(s, k + 2, Len(s))[i]
      BY <1>7, <2>3, <3>2, <3>4
    <3> QED BY <2>3, <3>2, <3>3, <3>5, SeqEqual
  <2>6. s = (prefix \o <<s[k + 1]>>) \o Tail(t)
    <3>1. s = (SubSeq(s, 1, k) \o <<s[k + 1]>>) \o SubSeq(s, k + 2, Len(s))
      BY <1>2, <1>8, SplitHere
    <3> QED BY <1>9, <2>5, <3>1
  <2> QED BY <2>1, <2>2, <2>3, <2>4, <2>5, <2>6
<1>12. first = c[k + 1][1]
  BY <1>7 DEF first
<1>13. CASE name.absolute = TRUE
  <2>1. c[k + 1] = h[1]
    BY <1>4, <1>7, <1>13, Zenon
  <2>2. t = Strip(name.dir)
    BY <1>13, StripDirsIs DEF t
  <2>3. StripDirs(Opened(f, name)) = prefix \o t
    <3>1. StripDirs(Opened(f, name)) = Strip(prefix \o name.dir)
      BY <1>5, <1>13, StripDirsIs
    <3> QED BY <1>6, <1>9, <2>2, <3>1, StripConcat
  <2>4. CASE t = <<>>
    <3>1. a = b
      BY <1>10, <2>1, <2>4
    <3>2. prefix \o t = s
      BY <1>2, <1>8, <1>9, <2>4, SubSeqFull, ConcatEmptySeq
    <3> QED BY <1>2, <1>5, <1>6, <1>13, <2>3, <3>1, <3>2 DEF name, s
  <2>5. CASE t # <<>>
    <3>1. s[k + 1] = t[1]
      BY <1>10, <1>11, <2>1, <2>5
    <3>2. (prefix \o <<t[1]>>) \o Tail(t) = prefix \o (<<t[1]>> \o Tail(t))
      <4>1. <<t[1]>> \in Seq(STRING) /\ Tail(t) \in Seq(STRING)
        BY <1>11, <2>5
      <4> QED BY <1>9, <4>1, Regroup
    <3>3. prefix \o t = s
      BY <1>11, <2>5, <3>1, <3>2
    <3> QED BY <1>2, <1>5, <1>6, <1>7, <1>13, <2>3, <2>5, <3>3 DEF name, s
  <2> QED BY <2>4, <2>5
<1>14. CASE name.absolute = FALSE /\ name.dir = <<>>
  <2>1. t = <<>>
    BY <1>14, StripDirsIs DEF t
  <2>2. Ending(a, b) /\ first = f.stem
    <3>1. Ending(c[k + 1], h[1])
      BY <1>4, <1>7, <1>14, Zenon
    <3> QED BY <1>2, <1>10, <1>12, <2>1, <3>1
  <2>3. Completed(f.stem, name.stem) = f.stem
    BY <1>2, <1>6, <2>2 DEF Ending, Completed
  <2>4. StripDirs(Opened(f, name)) = Strip(prefix)
    BY <1>5, <1>14, StripDirsIs
  <2>5. prefix = s
    BY <1>2, <1>8, <1>9, <2>1, SubSeqFull
  <2> QED BY <1>5, <1>9, <1>14, <2>2, <2>3, <2>4, <2>5 DEF name, s
<1>15. CASE name.absolute = FALSE /\ name.dir # <<>>
  <2> DEFINE d == Head(name.dir)
             e == Tail(name.dir)
  <2>1. d \in STRING /\ e \in Seq(STRING) /\ Strip(e) \in Seq(STRING)
    BY <1>6, <1>15, HeadTailProperties, StripType
  <2>2. t = <<d>> \o Strip(e)
    BY <1>15, StripDirsIs DEF t
  <2> HIDE DEF d, e
  <2>3. t # <<>> /\ t[1] = d /\ Tail(t) = Strip(e)
    BY <2>1, <2>2, HeadOfConcat
  <2>4. Ending(OfDirectory[s[k + 1]], OfDirectory[t[1]]) /\ first = s[k + 1]
    <3>1. Ending(c[k + 1], h[1])
      BY <1>4, <1>7, <1>15, Zenon
    <3> QED BY <1>10, <1>11, <1>12, <2>3, <3>1
  <2>5. Completed(first, d) = s[k + 1]
    BY <1>11, <2>3, <2>4 DEF Ending, Completed
  <2>6. Opened(f, name).dir = (prefix \o <<s[k + 1]>>) \o e
    BY <1>5, <1>15, <2>5, Zenon DEF d, e
  <2>7. Strip((prefix \o <<s[k + 1]>>) \o e) = (prefix \o <<s[k + 1]>>) \o Strip(e)
    <3>1. prefix \o <<s[k + 1]>> = SubSeq(s, 1, k + 1)
      <4>1. k + 1 \in 1..Len(s) /\ 1 \in 1..Len(s) /\ k + 1 - 1 = k
        BY <1>7, <1>8, <2>3
      <4>2. SubSeq(s, 1, k + 1) = SubSeq(s, 1, k) \o <<s[k + 1]>>
        BY <1>2, <1>8, <2>3, SplitHere
      <4> QED BY <1>9, <4>1, <4>2
    <3>2. k + 1 \in 0..Len(s)
      BY <1>7, <1>8, <2>3
    <3>3. /\ SubSeq(s, 1, k + 1) \in Seq(STRING)
          /\ Strip(SubSeq(s, 1, k + 1)) = SubSeq(s, 1, k + 1)
      BY <1>2, <3>2, PlainPart, StripPlain, UpLength
    <3> QED BY <2>1, <3>1, <3>3, StripConcat
  <2>8. StripDirs(Opened(f, name)) = s
    <3>1. StripDirs(Opened(f, name)) = Strip(Opened(f, name).dir)
      BY <1>5, <1>15, StripDirsIs
    <3> QED BY <1>11, <2>3, <2>6, <2>7, <3>1
  <2>9. Opened(f, name).stem = f.stem
    BY <1>2, <1>5, <1>6, <1>7, <1>15, <2>3
  <2> QED BY <2>8, <2>9 DEF name, s
<1> QED BY <1>6, <1>13, <1>14, <1>15, Zenon

-----------------------------------------------------------------------------
(* The header of a source                                                  *)

(* The two parts of joined directories.                                  *)
LEMMA ConcatParts ==
  ASSUME NEW a \in Seq(STRING), NEW b \in Seq(STRING)
  PROVE  /\ SubSeq(a \o b, 1, Len(a)) = a
         /\ SubSeq(a \o b, Len(a) + 1, Len(a \o b)) = b
<1> DEFINE c == a \o b
<1>1. Len(a) \in Nat /\ Len(b) \in Nat
  BY LenProperties
<1>2. /\ c \in Seq(STRING) /\ Len(c) = Len(a) + Len(b)
      /\ \A i \in 1..(Len(a) + Len(b)) : c[i] = IF i <= Len(a) THEN a[i] ELSE b[i - Len(a)]
  BY ConcatProperties
<1> HIDE DEF c
<1>3. Len(a) \in 0..Len(c)
  BY <1>1, <1>2
<1>4. /\ SubSeq(c, 1, Len(a)) \in Seq(STRING) /\ SubSeq(c, Len(a) + 1, Len(c)) \in Seq(STRING)
      /\ c = SubSeq(c, 1, Len(a)) \o SubSeq(c, Len(a) + 1, Len(c))
  BY <1>2, <1>3, CutHere
<1>5. SubSeq(c, 1, Len(a)) = a
  <2>1. Len(SubSeq(c, 1, Len(a))) = Len(a)
    BY <1>2, <1>3, UpLength
  <2>2. \A i \in 1..Len(a) : c[i] \in STRING /\ c[i] = a[i]
    BY <1>1, <1>2, ElementOfSeq
  <2>3. \A i \in 1..Len(a) : SubSeq(c, 1, Len(a))[i] = c[i]
    BY <1>1, <2>2, SubSeqProperties
  <2> QED BY <1>4, <2>1, <2>2, <2>3, SeqEqual
<1>6. a \o SubSeq(c, Len(a) + 1, Len(c)) = a \o b
  BY <1>4, <1>5 DEF c
<1>7. SubSeq(c, Len(a) + 1, Len(c)) = b
  BY <1>4, <1>6, Cancel
<1> QED BY <1>5, <1>7 DEF c

(* What the name of a header leaves of the stripped path of its source     *)
StrippedBelow(g, n, name) ==
  /\ n \in 0..Len(Strip(g.dir))
  /\ StripDirs(name) = SubSeq(Strip(g.dir), n + 1, Len(Strip(g.dir)))
  /\ SubSeq(Strip(g.dir), 1, n) = SubSeq(g.dir, 1, n)
  /\ name.absolute = FALSE /\ name.dir = <<>> =>
       StripDirs(name) = <<>> /\ SubSeq(g.dir, 1, n) = g.dir
  /\ name.absolute = FALSE /\ name.dir # <<>> =>
       /\ StripDirs(name) # <<>> /\ StripDirs(name)[1] = Head(name.dir)
       /\ (SubSeq(g.dir, 1, n) \o <<Head(name.dir)>>) \o Tail(name.dir) = g.dir

(* What is left of a name is the end of what is left of its file.        *)
LEMMA StrippedName ==
  ASSUME NEW g \in Files, NEW n \in 0..Len(g.dir), NEW name,
         name.dir = SubSeq(g.dir, n + 1, Len(g.dir)),
         \/ name.absolute = TRUE /\ n = 0
         \/ /\ name.absolute = FALSE
            /\ \A i \in 1..Len(g.dir) : i <= n + 1 => g.dir[i] \notin SplitDirectories
  PROVE  StrippedBelow(g, n, name)
<1> DEFINE dir == g.dir
           s == Strip(dir)
<1>1. dir \in Seq(STRING) /\ Len(dir) \in Nat /\ s \in Seq(STRING) /\ Len(s) \in Nat
  <2>1. dir \in Seq(STRING)
    BY FileFields
  <2> QED BY <2>1, StripType, LenProperties
<1>2. n \in 0..Len(dir) /\ name.dir = SubSeq(dir, n + 1, Len(dir))
  OBVIOUS
<1> HIDE DEF dir, s, StrippedBelow
<1>3. CASE name.absolute = TRUE /\ n = 0
  <2>1. name.dir = dir /\ SubSeq(s, 1, Len(s)) = s
    BY <1>1, <1>2, <1>3, SubSeqFull
  <2>2. SubSeq(dir, 1, 0) = <<>> /\ SubSeq(s, 1, 0) = <<>>
    BY SubSeqEmpty
  <2>3. StripDirs(name) = s
    BY <1>3, <2>1, StripDirsIs DEF s
  <2>4. name.absolute # FALSE
    BY <1>3, Zenon
  <2> QED BY <1>1, <1>3, <2>1, <2>2, <2>3, <2>4 DEF dir, s, StrippedBelow
<1>4. CASE /\ name.absolute = FALSE /\ n = Len(dir)
           /\ \A i \in 1..Len(dir) : i <= n + 1 => dir[i] \notin SplitDirectories
  <2>1. name.dir = <<>>
    <3>1. n + 1 \in Int /\ Len(dir) \in Int /\ Len(dir) < n + 1
      BY <1>1, <1>4
    <3>2. SubSeq(dir, n + 1, Len(dir)) = <<>>
      BY <3>1, SubSeqEmpty
    <3> QED BY <1>2, <3>2, Zenon
  <2>2. \A i \in 1..Len(dir) : dir[i] \in Plain
    BY <1>1, <1>4, ElementOfSeq DEF Plain
  <2>3. dir \in Seq(Plain)
    BY <1>1, <2>2, SubSeqProperties, SubSeqFull
  <2>4. s = dir
    BY <2>3, StripPlain DEF s
  <2>5. StripDirs(name) = <<>>
    BY <1>4, <2>1, StripDirsIs
  <2>6. SubSeq(s, n + 1, Len(s)) = <<>> /\ SubSeq(dir, 1, n) = dir
    BY <1>1, <1>4, <2>4, SubSeqEmpty, SubSeqFull
  <2> QED BY <1>1, <1>4, <2>1, <2>4, <2>5, <2>6 DEF dir, s, StrippedBelow
<1>5. CASE /\ name.absolute = FALSE /\ n # Len(dir)
           /\ \A i \in 1..Len(dir) : i <= n + 1 => dir[i] \notin SplitDirectories
  <2> DEFINE a == SubSeq(dir, 1, n)
             d == dir[n + 1]
             b == SubSeq(dir, n + 2, Len(dir))
  <2>1. n \in 0..(Len(dir) - 1) /\ n + 1 \in 1..Len(dir) /\ Len(dir) \in (n + 1)..Len(dir)
        /\ n + 1 + 1 = n + 2
    BY <1>1, <1>2, <1>5
  <2>2. /\ a \in Seq(STRING) /\ b \in Seq(STRING) /\ d \in STRING
        /\ SubSeq(dir, 1, n + 1) = a \o <<d>> /\ dir = (a \o <<d>>) \o b
    BY <1>1, <2>1, SplitHere
  <2>3. Head(name.dir) = d /\ Tail(name.dir) = b
    <3>1. /\ Head(SubSeq(dir, n + 1, Len(dir))) = dir[n + 1]
          /\ Tail(SubSeq(dir, n + 1, Len(dir))) = SubSeq(dir, n + 1 + 1, Len(dir))
      BY <1>1, <2>1, HeadTailOfSubSeq
    <3> QED BY <1>2, <2>1, <3>1
  <2>4. name.dir # <<>>
    <3>1. \A i \in (n + 1)..Len(dir) : dir[i] \in STRING
      BY <1>1, <1>2, ElementOfSeq
    <3>2. Len(SubSeq(dir, n + 1, Len(dir))) = Len(dir) - (n + 1) + 1
      BY <1>1, <2>1, <3>1, SubSeqProperties
    <3>3. Len(SubSeq(dir, n + 1, Len(dir))) # 0
      <4>1. Len(dir) - (n + 1) + 1 # 0
        BY <1>1, <1>2, <2>1
      <4> QED BY <3>2, <4>1, Zenon
    <3>4. Len(<<>>) = 0
      OBVIOUS
    <3> QED BY <1>2, <3>3, <3>4, Zenon
  <2>5. Strip(a \o <<d>>) = a \o <<d>>
    <3>1. \A i \in 1..(n + 1) : dir[i] \in Plain
      BY <1>1, <1>5, <2>1, ElementOfSeq DEF Plain
    <3>2. SubSeq(dir, 1, n + 1) \in Seq(Plain)
      BY <1>1, <2>1, <3>1, SubSeqProperties
    <3> QED BY <2>2, <3>2, StripPlain
  <2>6. Len(a) = n
    BY <1>1, <1>2, UpLength
  <2> HIDE DEF a, d, b
  <2>7. <<d>> \in Seq(STRING) /\ a \o <<d>> \in Seq(STRING) /\ Strip(b) \in Seq(STRING)
    BY <2>2, StripType, ConcatProperties
  <2> DEFINE t == <<d>> \o Strip(b)
  <2>8. t \in Seq(STRING) /\ t # <<>> /\ t[1] = d
    BY <2>2, <2>7, HeadOfConcat, ConcatProperties
  <2>9. s = a \o t
    <3>1. s = (a \o <<d>>) \o Strip(b)
      BY <2>2, <2>5, <2>7, StripConcat DEF s
    <3> QED BY <2>2, <2>7, <3>1, Regroup
  <2>10. StripDirs(name) = t
    BY <1>5, <2>3, <2>4, StripDirsIs
  <2> HIDE DEF t
  <2>11. SubSeq(s, 1, n) = a /\ SubSeq(s, n + 1, Len(s)) = t
    BY <2>2, <2>6, <2>8, <2>9, ConcatParts
  <2>12. n \in 0..Len(s)
    <3>1. Len(s) = Len(a) + Len(t) /\ Len(t) \in Nat
      BY <2>2, <2>8, <2>9, ConcatProperties
    <3> QED BY <1>1, <1>2, <2>6, <3>1
  <2>13. /\ StripDirs(name) # <<>> /\ StripDirs(name)[1] = Head(name.dir)
         /\ (SubSeq(dir, 1, n) \o <<Head(name.dir)>>) \o Tail(name.dir) = dir
    BY <2>2, <2>3, <2>8, <2>10 DEF a
  <2>14. SubSeq(s, 1, n) = SubSeq(dir, 1, n) /\ StripDirs(name) = SubSeq(s, n + 1, Len(s))
    BY <2>10, <2>11 DEF a
  <2> QED BY <2>4, <2>12, <2>13, <2>14 DEF dir, s, StrippedBelow
<1> QED BY <1>3, <1>4, <1>5 DEF dir

(* A source or its test, and a header or its -inl.h                        *)
OfOneModule(f, g) ==
  /\ f.stem = g.stem
  /\ f.ext = "cc" /\ f.suffix \in TestFileSuffixes \cup {""}
  /\ g.ext = "h" /\ g.suffix \in {"", "-inl"}

(* They have the same base name.                                           *)
LEMMA SameBase ==
  ASSUME NEW f \in Files, NEW g \in Files, OfOneModule(f, g)
  PROVE  BaseOf(f, TestFileSuffixes) = BaseOf(Named(g), {"-inl"})
<1>1. Named(g).stem = g.stem /\ Named(g).suffix = g.suffix
  BY NameBelow
<1>2. BaseOf(f, TestFileSuffixes) = <<f.stem, "">>
  BY Zenon DEF BaseOf, OfOneModule
<1>3. BaseOf(Named(g), {"-inl"}) = <<g.stem, "">>
  BY <1>1, Zenon DEF BaseOf, OfOneModule
<1> QED BY <1>2, <1>3, Zenon DEF OfOneModule

(* The header of a source is opened as that.                               *)
LEMMA OpensOwn ==
  ASSUME NEW f \in Files, NEW g \in Files, OfOneModule(f, g), Strip(f.dir) = Strip(g.dir),
         NEW n \in 0..Len(g.dir), Named(g).dir = SubSeq(g.dir, n + 1, Len(g.dir)),
         \/ Named(g).absolute = TRUE /\ n = 0
         \/ /\ Named(g).absolute = FALSE
            /\ \A i \in 1..Len(g.dir) : i <= n + 1 => g.dir[i] \notin SplitDirectories
  PROVE  FilesBelongToSameModule(f, Named(g)) /\ Opened(f, Named(g)) = g
<1> DEFINE name == Named(g)
           s == Strip(g.dir)
           t == StripDirs(name)
           a == BaseOf(f, TestFileSuffixes)
           c == CcPath(f)
           h == HeaderPath(name)
           prefix == [i \in 1..(Len(c) - Len(h)) |-> c[i][1]]
           first == c[Len(c) - Len(h) + 1][1]
<1>1. /\ s \in Seq(STRING) /\ t \in Seq(STRING) /\ a \in Components /\ a[1] = g.stem
      /\ c = PathOf(s, a) /\ h = PathOf(t, a)
  <2>1. f.absolute = TRUE
    BY FilesAssumption
  <2>2. StripDirs(f) = s
    BY <2>1, StripDirsIs
  <2>3. BaseOf(name, {"-inl"}) = a
    BY SameBase
  <2>4. f.stem = g.stem
    BY Zenon DEF OfOneModule
  <2> QED BY <2>1, <2>2, <2>3, <2>4, ModulePaths
<1>2. name.dir = SubSeq(g.dir, n + 1, Len(g.dir)) /\ name.stem = g.stem /\ name.suffix = g.suffix
      /\ name.ext = g.ext /\ name.dir \in Seq(STRING)
  BY NameBelow
<1>3. /\ n \in 0..Len(s) /\ t = SubSeq(s, n + 1, Len(s)) /\ SubSeq(s, 1, n) = SubSeq(g.dir, 1, n)
      /\ name.absolute = FALSE /\ name.dir = <<>> => t = <<>> /\ SubSeq(g.dir, 1, n) = g.dir
      /\ name.absolute = FALSE /\ name.dir # <<>> =>
           /\ t # <<>> /\ t[1] = Head(name.dir)
           /\ (SubSeq(g.dir, 1, n) \o <<Head(name.dir)>>) \o Tail(name.dir) = g.dir
  <2>1. StrippedBelow(g, n, name)
    BY StrippedName, Zenon
  <2> QED BY <2>1, Zenon DEF StrippedBelow
<1>4. /\ Len(c) - Len(h) = n /\ Tail(h) = SubSeq(c, n + 2, Len(c)) /\ c[n + 1] = h[1]
  <2>1. /\ Len(PathOf(s, a)) - Len(PathOf(t, a)) = n
        /\ Tail(PathOf(t, a)) = SubSeq(PathOf(s, a), n + 2, Len(PathOf(s, a)))
        /\ PathOf(s, a)[n + 1] = PathOf(t, a)[1]
    <3>1. s \in Seq(STRING) /\ t \in Seq(STRING) /\ a \in Components /\ n \in 0..Len(s)
          /\ t = SubSeq(s, n + 1, Len(s))
      BY <1>1, <1>3, Zenon
    <3> HIDE DEF name, s, t, a, c, h
    <3>2. AgreeBehind(s, t, a, n)
      BY <3>1, PathsAgree, Zenon
    <3> QED BY <3>2, Zenon DEF AgreeBehind
  <2> QED BY <1>1, <2>1, Zenon
<1>5. prefix = SubSeq(g.dir, 1, n)
  <2>1. [i \in 1..n |-> PathOf(s, a)[i][1]] = SubSeq(s, 1, n)
    BY <1>1, <1>3, PathPrefix
  <2> QED BY <1>1, <1>3, <1>4, <2>1, Zenon
<1>6. /\ t = <<>> => first = g.stem
      /\ t # <<>> => first = t[1]
  <2>1. first = h[1][1]
    BY <1>4, Zenon
  <2> HIDE DEF t, s, a, c, h, first
  <2>2. CASE t = <<>>
    <3>1. PathOf(t, a)[Len(t) + 1] = a
      BY <1>1, PathProperties
    <3>2. Len(t) + 1 = 1
      BY <2>2, EmptySeq
    <3> QED BY <1>1, <2>1, <2>2, <3>1, <3>2
  <2>3. CASE t # <<>>
    <3>1. 1 \in 1..Len(t) /\ t[1] \in STRING
      BY <1>1, <2>3, EmptySeq, ElementOfSeq
    <3>2. PathOf(t, a)[1] = OfDirectory[t[1]]
      BY <1>1, <3>1, PathProperties
    <3>3. OfDirectory[t[1]][1] = t[1]
      BY <3>1, DirectoryComponents
    <3> QED BY <1>1, <2>1, <2>3, <3>2, <3>3
  <2> QED BY <2>2, <2>3
<1>7. FilesBelongToSameModule(f, name)
  <2>1. n >= 0
    <3>1. Len(s) \in Nat
      BY <1>1, LenProperties
    <3> HIDE DEF s
    <3> QED BY <1>3, <3>1
  <2>2. f.ext \in SourceExtensions /\ name.ext = "h"
    BY <1>2, Zenon DEF SourceExtensions, OfOneModule
  <2>3. Ending(c[n + 1], h[1])
    BY <1>4, Zenon DEF Ending
  <2> QED BY <1>4, <2>1, <2>2, <2>3, Zenon DEF FilesBelongToSameModule
<1>8. \A d : Completed(d, d) = d
  BY DEF Completed
<1>9. g = [absolute |-> TRUE, dir |-> g.dir, stem |-> g.stem, suffix |-> g.suffix, ext |-> g.ext]
  <2>1. g.absolute = TRUE
    BY FilesAssumption
  <2> QED BY <2>1, FileFields, Zenon
<1> DEFINE At(dir, stem) == [absolute |-> TRUE, dir |-> dir, stem |-> stem,
                             suffix |-> name.suffix, ext |-> name.ext]
<1>10. /\ name.absolute = TRUE => Opened(f, name) = At(prefix \o name.dir, name.stem)
       /\ name.absolute = FALSE /\ name.dir = <<>> =>
            Opened(f, name) = At(prefix, Completed(first, name.stem))
       /\ name.absolute = FALSE /\ name.dir # <<>> =>
            Opened(f, name)
              = At(prefix \o <<Completed(first, Head(name.dir))>> \o Tail(name.dir), name.stem)
  BY Zenon DEF Opened
<1>11. \A dir, stem : dir = g.dir /\ stem = g.stem => At(dir, stem) = g
  BY <1>2, <1>9, Zenon
<1>12. name.absolute = TRUE => n = 0
  BY Zenon
<1> HIDE DEF At, prefix, first, name, t, s, a, c, h
<1>13. CASE name.absolute = TRUE
  <2>1. prefix \o name.dir = g.dir
    <3>1. g.dir \in Seq(STRING) /\ SubSeq(g.dir, 1, 0) = <<>>
      <4>1. SubSeq(g.dir, 1, 0) = <<>>
        BY SubSeqEmpty
      <4> QED BY <4>1, FileFields
    <3>2. prefix = <<>>
      BY <1>5, <1>12, <1>13, <3>1, Zenon
    <3>3. SubSeq(g.dir, 1, Len(g.dir)) = g.dir
      BY <3>1, SubSeqFull
    <3>4. name.dir = g.dir
      BY <1>2, <1>12, <1>13, <3>3
    <3> QED BY <3>1, <3>2, <3>4, ConcatEmptySeq
  <2>2. Opened(f, name) = At(prefix \o name.dir, name.stem)
    BY <1>10, <1>13
  <2> QED BY <1>2, <1>7, <1>11, <2>1, <2>2, Zenon DEF name
<1>14. CASE name.absolute = FALSE /\ name.dir = <<>>
  <2>1. prefix = g.dir /\ Completed(first, name.stem) = g.stem
    BY <1>2, <1>3, <1>5, <1>6, <1>8, <1>14
  <2>2. Opened(f, name) = At(prefix, Completed(first, name.stem))
    BY <1>10, <1>14
  <2> QED BY <1>7, <1>11, <2>1, <2>2, Zenon DEF name
<1>15. CASE name.absolute = FALSE /\ name.dir # <<>>
  <2>1. first = Head(name.dir)
    BY <1>3, <1>6, <1>15
  <2>2. Completed(first, Head(name.dir)) = Head(name.dir)
    BY <1>8, <2>1
  <2>3. prefix \o <<Completed(first, Head(name.dir))>> \o Tail(name.dir) = g.dir
    BY <1>3, <1>5, <1>15, <2>2
  <2>4. Opened(f, name)
          = At(prefix \o <<Completed(first, Head(name.dir))>> \o Tail(name.dir), name.stem)
    BY <1>10, <1>15
  <2> QED BY <1>2, <1>7, <1>11, <2>3, <2>4, Zenon DEF name
<1>16. name.absolute = TRUE \/ name.absolute = FALSE
  BY Zenon DEF name
<1> QED BY <1>13, <1>14, <1>15, <1>16, Zenon

-----------------------------------------------------------------------------
(* How the header is classified                                            *)

(* A pair of members is in the product.                                  *)
LEMMA PairIn ==
  ASSUME NEW A, NEW B, NEW a \in A, NEW b \in B
  PROVE  <<a, b>> \in A \X B
OBVIOUS

(* The fields of a name without suffixes.                                *)
LEMMA DroppedFields ==
  ASSUME NEW a, NEW d, NEW b, NEW r, r = [absolute |-> a, dir |-> d, base |-> b]
  PROVE  r.absolute = a /\ r.dir = d /\ r.base = b
OBVIOUS

(* The suffixes a source loses leave its stem.                           *)
LEMMA DroppedOfSource ==
  ASSUME NEW f \in Files, NEW g \in Files, OfOneModule(f, g)
  PROVE  DropCommonSuffixes(Named(f))
           = [absolute |-> Named(f).absolute, dir |-> Named(f).dir, base |-> <<f.stem, "">>]
<1>1. Named(f).stem = f.stem /\ Named(f).suffix = f.suffix /\ Named(f).ext = f.ext
  BY NameBelow
<1>2. f.ext = "cc" /\ (f.suffix \in TestFileSuffixes \/ f.suffix = "")
  BY Zenon DEF OfOneModule
<1>3. CASE f.suffix \in TestFileSuffixes
  <2> DEFINE tests == {"-test", "_test", "-regtest", "_regtest", "-unittest", "_unittest"}
  <2>1. f.suffix \in tests /\ f.ext \in {"cc"}
    BY <1>2, <1>3, Zenon DEF TestFileSuffixes
  <2> HIDE DEF tests
  <2>2. <<f.suffix, f.ext>> \in tests \X {"cc"}
    BY <2>1, PairIn, Zenon
  <2>3. <<f.suffix, f.ext>> \in CommonSuffixes
    BY <2>2, Zenon DEF CommonSuffixes, tests
  <2> QED BY <1>1, <2>3, Zenon DEF DropCommonSuffixes
<1>4. CASE f.suffix = ""
  BY <1>1, <1>4, Zenon DEF DropCommonSuffixes
<1> QED BY <1>2, <1>3, <1>4, Zenon

(* The suffixes a header loses leave its stem.                           *)
LEMMA DroppedOfHeader ==
  ASSUME NEW f \in Files, NEW g \in Files, OfOneModule(f, g)
  PROVE  DropCommonSuffixes(Named(g))
           = [absolute |-> Named(g).absolute, dir |-> Named(g).dir, base |-> <<g.stem, "">>]
<1>1. Named(g).stem = g.stem /\ Named(g).suffix = g.suffix /\ Named(g).ext = g.ext
  BY NameBelow
<1>2. g.ext = "h" /\ (g.suffix = "-inl" \/ g.suffix = "")
  BY Zenon DEF OfOneModule
<1>3. CASE g.suffix = "-inl"
  <2> DEFINE parts == {"-inl", "_inl", "-impl", "_impl", "-internal", "_internal"}
  <2>1. g.suffix \in parts /\ g.ext \in {"h"}
    BY <1>2, <1>3, Zenon
  <2> HIDE DEF parts
  <2>2. <<g.suffix, g.ext>> \in parts \X {"h"}
    BY <2>1, PairIn, Zenon
  <2>3. <<g.suffix, g.ext>> \in CommonSuffixes
    BY <2>2, Zenon DEF CommonSuffixes, parts
  <2> QED BY <1>1, <2>3, Zenon DEF DropCommonSuffixes
<1>4. CASE g.suffix = ""
  BY <1>1, <1>4, Zenon DEF DropCommonSuffixes
<1> QED BY <1>2, <1>3, <1>4, Zenon

(* A header beside the source or its test, or in public beside internal,   *)
(* with a name from the same directory is likely the source's own.         *)
LEMMA LikelyMine ==
  ASSUME NEW f \in Files, NEW g \in Files, OfOneModule(f, g),
         Named(g).absolute = Named(f).absolute,
         \/ Named(g).dir = Named(f).dir
         \/ Named(f).dir # <<>> /\ Named(g).dir = Append(Front(Named(f).dir), "public")
  PROVE  _ClassifyInclude(Named(f), Named(g), FALSE, FALSE) = "likely mine"
<1> DEFINE target == DropCommonSuffixes(Named(f))
           included == DropCommonSuffixes(Named(g))
<1>1. target = [absolute |-> Named(f).absolute, dir |-> Named(f).dir, base |-> <<f.stem, "">>]
  BY DroppedOfSource, Zenon
<1>2. included = [absolute |-> Named(g).absolute, dir |-> Named(g).dir, base |-> <<f.stem, "">>]
  <2>1. f.stem = g.stem
    BY Zenon DEF OfOneModule
  <2> QED BY <2>1, DroppedOfHeader, Zenon
<1> HIDE DEF target, included
<1>3. Named(g).dir = Named(f).dir => included = target
  BY <1>1, <1>2, Zenon
<1>4. ASSUME Named(f).dir # <<>> /\ Named(g).dir = Append(Front(Named(f).dir), "public")
      PROVE  included = PublicSibling(target)
  <2>1. /\ target.absolute = Named(f).absolute /\ target.dir = Named(f).dir
        /\ target.base = <<f.stem, "">>
    BY <1>1, DroppedFields, Zenon
  <2>2. Dirname(target.dir) = Front(Named(f).dir) /\ target.dir # <<>>
    BY <1>4, <2>1, Zenon DEF Dirname
  <2>3. (target.absolute \/ target.dir = <<>>) = target.absolute
    <3>1. target.absolute = TRUE \/ target.absolute = FALSE
      <4>1. Named(f).absolute = TRUE \/ Named(f).absolute = FALSE
        BY NameBelow, Zenon
      <4> QED BY <2>1, <4>1, Zenon
    <3>2. CASE target.absolute = TRUE
      BY <3>2, Zenon
    <3>3. CASE target.absolute = FALSE
      BY <2>2, <3>3, Zenon
    <3> QED BY <3>1, <3>2, <3>3, Zenon
  <2>4. PublicSibling(target)
          = [absolute |-> target.absolute, dir |-> Append(Front(Named(f).dir), "public"),
             base |-> target.base]
    BY <2>2, <2>3, Zenon DEF PublicSibling
  <2> QED BY <1>2, <1>4, <2>1, <2>4, Zenon
<1>5. included \in {target, PublicSibling(target)}
  <2>1. included = target \/ included = PublicSibling(target)
    BY <1>3, <1>4, <1>1, <1>2, Zenon
  <2> QED BY <2>1, Zenon
<1> QED BY <1>5, Zenon DEF _ClassifyInclude, target, included

-----------------------------------------------------------------------------
(* Where the names of a source and of its header start                     *)

(* What Append gives.                                                    *)
LEMMA Appended ==
  ASSUME NEW S, NEW p \in Seq(S), NEW x \in S
  PROVE  /\ Append(p, x) \in Seq(S) /\ Append(p, x) # <<>>
         /\ Len(Append(p, x)) = Len(p) + 1
         /\ Append(p, x)[Len(p) + 1] = x
         /\ \A i \in 1..Len(p) : Append(p, x)[i] = p[i]
BY AppendProperties

(* The last element of a sequence is in its set.                         *)
LEMMA LastIsMember ==
  ASSUME NEW S, NEW p \in Seq(S), NEW x, Append(p, x) \in Seq(S)
  PROVE  x \in S
<1>1. Append(p, x)[Len(p) + 1] = x /\ Len(p) + 1 \in 1..Len(Append(p, x))
  OBVIOUS
<1> QED BY <1>1

ComponentNames == STRING

(* The same as ConcatAppend for components.                              *)
LEMMA AppendedToBoth ==
  ASSUME NEW u \in Seq(ComponentNames), NEW v \in Seq(ComponentNames), NEW e \in ComponentNames
  PROVE  Append(Joined(u, v), e) = Joined(u, Append(v, e))
BY ConcatAppend

(* The same as Appended for components, as a fact about all of them.     *)
LEMMA AppendedTo ==
  \A u \in Seq(ComponentNames), e \in ComponentNames :
    /\ Append(u, e) \in Seq(ComponentNames) /\ Append(u, e) # <<>>
    /\ Len(Append(u, e)) = Len(u) + 1 /\ Append(u, e)[Len(u) + 1] = e
    /\ \A i \in 1..Len(u) : Append(u, e)[i] = u[i]
BY Appended

(* The parts of a directory with one level more.                         *)
LEMMA OneMore ==
  ASSUME NEW p \in Seq(STRING), NEW x \in STRING
  PROVE  /\ Append(p, x) \in Seq(STRING) /\ Append(p, x) # <<>>
         /\ Len(p) \in Nat /\ Len(Append(p, x)) = Len(p) + 1
         /\ Front(Append(p, x)) = p
         /\ SubSeq(Append(p, x), 1, Len(p) + 1) = Append(p, x)
         /\ \A n \in 0..Len(p) :
              /\ SubSeq(Append(p, x), 1, n) = SubSeq(p, 1, n)
              /\ SubSeq(Append(p, x), n + 1, Len(p) + 1) = Append(SubSeq(p, n + 1, Len(p)), x)
<1> DEFINE dir == Append(p, x)
<1>1. /\ dir \in Seq(STRING) /\ dir # <<>> /\ Len(p) \in Nat /\ Len(dir) = Len(p) + 1
      /\ dir[Len(p) + 1] = x
      /\ \A i \in 1..Len(p) : dir[i] = p[i]
  <2>1. p \in Seq(ComponentNames) /\ x \in ComponentNames
    BY Zenon DEF ComponentNames
  <2>2. /\ Append(p, x) \in Seq(ComponentNames) /\ Append(p, x) # <<>>
        /\ Len(Append(p, x)) = Len(p) + 1 /\ Append(p, x)[Len(p) + 1] = x
        /\ \A i \in 1..Len(p) : Append(p, x)[i] = p[i]
    BY <2>1, AppendedTo
  <2>3. Len(p) \in Nat
    BY LenProperties
  <2> QED BY <2>2, <2>3, Zenon DEF ComponentNames
<1> HIDE DEF dir
<1>2. ASSUME NEW n \in 0..Len(p)
      PROVE  SubSeq(dir, 1, n) = SubSeq(p, 1, n)
  <2>1. \A i \in 1..n : dir[i] = p[i] /\ dir[i] \in STRING /\ p[i] \in STRING
    BY <1>1, ElementOfSeq
  <2>2. /\ SubSeq(dir, 1, n) \in Seq(STRING) /\ SubSeq(p, 1, n) \in Seq(STRING)
        /\ Len(SubSeq(dir, 1, n)) = n /\ Len(SubSeq(p, 1, n)) = n
    BY <1>1, UpLength
  <2>3. \A i \in 1..n : SubSeq(dir, 1, n)[i] = dir[i] /\ SubSeq(p, 1, n)[i] = p[i]
    BY <1>1, <2>1, SubSeqProperties
  <2> QED BY <2>1, <2>2, <2>3, SeqEqual
<1>3. SubSeq(dir, 1, Len(p) + 1) = dir
  BY <1>1, SubSeqFull
<1>4. SubSeq(dir, 1, Len(p)) = p
  <2>1. Len(p) \in 0..Len(p)
    BY <1>1
  <2> QED BY <1>2, <2>1, SubSeqFull
<1>5. Front(dir) = p
  <2>1. Len(dir) - 1 = Len(p)
    BY <1>1
  <2> QED BY <1>4, <2>1, Zenon DEF Front
<1>6. ASSUME NEW n \in 0..Len(p)
      PROVE  SubSeq(dir, n + 1, Len(p) + 1) = Append(SubSeq(p, n + 1, Len(p)), x)
  <2> DEFINE a == SubSeq(p, 1, n)
             b == SubSeq(p, n + 1, Len(p))
             c == SubSeq(dir, n + 1, Len(p) + 1)
  <2>1. a \in Seq(STRING) /\ b \in Seq(STRING) /\ p = a \o b
    BY CutHere
  <2>2. c \in Seq(STRING) /\ dir = a \o c
    <3>1. n \in 0..Len(dir)
      BY <1>1
    <3>2. /\ SubSeq(dir, n + 1, Len(dir)) \in Seq(STRING)
          /\ dir = SubSeq(dir, 1, n) \o SubSeq(dir, n + 1, Len(dir))
      BY <1>1, <3>1, CutHere
    <3> QED BY <1>1, <1>2, <3>2
  <2> HIDE DEF a, b, c
  <2>3. dir = a \o Append(b, x) /\ Append(b, x) \in Seq(STRING)
    <3>0. a \in Seq(ComponentNames) /\ b \in Seq(ComponentNames) /\ x \in ComponentNames
      BY <2>1, Zenon DEF ComponentNames
    <3>1. Append(Joined(a, b), x) = Joined(a, Append(b, x))
      BY <3>0, AppendedToBoth, Zenon
    <3>2. Append(b, x) \in Seq(STRING)
      BY <2>1, AppendProperties
    <3> QED BY <2>1, <3>1, <3>2 DEF Joined, dir
  <2>4. a \o c = a \o Append(b, x)
    BY <2>2, <2>3
  <2> QED BY <2>1, <2>2, <2>3, <2>4, Cancel DEF b, c
<1> QED BY <1>1, <1>2, <1>3, <1>5, <1>6 DEF dir

(* A directory without a mark adds nothing to those above it with one.   *)
LEMMA MarkedAbove ==
  ASSUME NEW p \in Seq(STRING), NEW x \in STRING, ~Marked(Append(p, x))
  PROVE  {d \in DirsAbove(Append(p, x)) : Marked(d)} = {d \in DirsAbove(p) : Marked(d)}
<1>1. /\ Len(p) \in Nat /\ Len(Append(p, x)) = Len(p) + 1
      /\ SubSeq(Append(p, x), 1, Len(p) + 1) = Append(p, x)
      /\ \A n \in 0..Len(p) : SubSeq(Append(p, x), 1, n) = SubSeq(p, 1, n)
  BY OneMore
<1>2. ASSUME NEW d \in DirsAbove(Append(p, x)), Marked(d)
      PROVE  d \in DirsAbove(p)
  <2>1. PICK n \in 1..(Len(p) + 1) : d = SubSeq(Append(p, x), 1, n)
    BY <1>1 DEF DirsAbove
  <2>2. n # Len(p) + 1
    BY <1>1, <1>2, <2>1
  <2>3. n \in 1..Len(p) /\ n \in 0..Len(p)
    BY <1>1, <2>2
  <2>4. d = SubSeq(p, 1, n)
    BY <1>1, <2>1, <2>3
  <2> QED BY <2>3, <2>4 DEF DirsAbove
<1>3. ASSUME NEW d \in DirsAbove(p)
      PROVE  d \in DirsAbove(Append(p, x))
  <2>1. PICK n \in 1..Len(p) : d = SubSeq(p, 1, n)
    BY DEF DirsAbove
  <2>2. n \in 0..Len(p) /\ n \in 1..(Len(p) + 1)
    BY <1>1
  <2>3. d = SubSeq(Append(p, x), 1, n)
    BY <1>1, <2>1, <2>2
  <2> QED BY <1>1, <2>2, <2>3 DEF DirsAbove
<1> QED BY <1>2, <1>3

(* A sequence of one.                                                    *)
LEMMA OneElement ==
  ASSUME NEW S, NEW x \in S
  PROVE  <<x>> \in Seq(S) /\ Len(<<x>>) = 1 /\ <<x>>[1] = x
OBVIOUS

(* A split directory at the end is left out.                             *)
LEMMA StripSplit ==
  ASSUME NEW p \in Seq(STRING), NEW x \in STRING, x \in SplitDirectories
  PROVE  Strip(Append(p, x)) = Strip(p)
<1>1. <<x>> \in Seq(STRING) /\ Len(<<x>>) = 1 /\ <<x>>[1] = x
  BY OneElement
<1>2. Strip(<<x>>) = <<>>
  <2>1. PICK f : Keeps(f, <<x>>, 1) /\ Strip(<<x>>) = f[1]
    BY <1>1, StripKeeps
  <2>2. f[0] = <<>> /\ f[1] = IF <<x>>[1] \in SplitDirectories THEN f[1 - 1] ELSE Append(f[1 - 1], <<x>>[1])
    BY <2>1 DEF Keeps
  <2> QED BY <1>1, <2>1, <2>2
<1>3. Append(p, x) = p \o <<x>>
  BY AppendIsConcat
<1>4. Strip(p \o <<x>>) = Strip(p) \o Strip(<<x>>)
  BY <1>1, StripConcat
<1> QED BY <1>2, <1>3, <1>4, StripType, ConcatEmptySeq

(* A header beside its source, or in public beside internal                *)
BesideOrPublished(f, g) ==
  \/ f.dir = g.dir
  \/ /\ Last(f.dir) = "internal" /\ g.dir = Append(Front(f.dir), "public")
     /\ {f.dir, g.dir} \cap (svn \cup git) = {}

(* A published header lies in public beside the directory of its source. *)
LEMMA PublishedIn ==
  ASSUME NEW f \in Files, NEW g \in Files, BesideOrPublished(f, g), f.dir # g.dir
  PROVE  \E p \in Seq(STRING), x \in STRING, y \in STRING :
           /\ x \in SplitDirectories /\ y \in SplitDirectories /\ y = "public"
           /\ f.dir = Append(p, x) /\ g.dir = Append(p, y)
           /\ ~Marked(f.dir) /\ ~Marked(g.dir)
<1>1. /\ Last(f.dir) = "internal" /\ g.dir = Append(Front(f.dir), "public")
      /\ {f.dir, g.dir} \cap (svn \cup git) = {}
  BY Zenon DEF BesideOrPublished
<1>2. f.dir \in Seq(STRING) /\ f.dir # <<>>
  BY FileFields
<1>3. PICK p \in Seq(STRING), x \in STRING : f.dir = Append(p, x)
  BY <1>2, SequenceEmptyOrAppend
<1>4. Front(f.dir) = p /\ Last(f.dir) = x
  <2>1. Front(Append(p, x)) = p
    BY OneMore
  <2>2. Append(p, x)[Len(Append(p, x))] = x
    BY AppendProperties
  <2> QED BY <1>3, <2>1, <2>2 DEF Last
<1>5. x \in SplitDirectories /\ "public" \in SplitDirectories
  BY <1>1, <1>4, Zenon DEF SplitDirectories
<1>6. ~Marked(f.dir) /\ ~Marked(g.dir)
  BY <1>1 DEF Marked
<1>7. "public" \in STRING
  <2>1. g.dir \in Seq(STRING) /\ g.dir = Append(p, "public")
    BY <1>1, <1>4, FileFields
  <2> QED BY <2>1, LastIsMember, Zenon
<1> QED BY <1>1, <1>3, <1>4, <1>5, <1>6, <1>7, Zenon

(* A file is named from a root above its directory.                        *)
MarkedOver(p) == {d \in DirsAbove(p) : Marked(d)}

(* Both have the same marked directories above them.                     *)
LEMMA TopsOver ==
  ASSUME NEW f \in Files, NEW p \in Seq(STRING), NEW x \in STRING,
         f.dir = Append(p, x), ~Marked(f.dir), OnDisk(f)
  PROVE  Tops(f) = MarkedOver(p)
<1>1. f.dir \notin svn
  BY DEF Marked
<1>2. Tops(f) = {d \in DirsAbove(f.dir) : Marked(d)}
  BY <1>1 DEF Tops
<1> QED BY <1>2, MarkedAbove DEF MarkedOver

(* Both are named from the same root.                                    *)
LEMMA NamedOver ==
  ASSUME NEW f \in Files, NEW p \in Seq(STRING), NEW x \in STRING,
         f.dir = Append(p, x), ~Marked(f.dir), OnDisk(f),
         NEW k \in 1..Len(p), Shortest(MarkedOver(p)) = SubSeq(p, 1, k), MarkedOver(p) # {}
  PROVE  /\ Named(f).absolute = FALSE
         /\ Named(f).dir = Append(SubSeq(p, k + 1, Len(p)), x)
<1>1. Tops(f) = MarkedOver(p)
  BY TopsOver
<1>2. PICK n \in 1..Len(f.dir) :
        /\ SubSeq(p, 1, k) = SubSeq(f.dir, 1, n)
        /\ Named(f).dir = SubSeq(f.dir, n + 1, Len(f.dir))
  BY <1>1, NameBelow, Zenon
<1>3. Named(f).absolute = FALSE
  BY <1>1, NameBelow, Zenon
<1>4. f.dir \in Seq(STRING) /\ Len(p) \in Nat /\ Len(f.dir) = Len(p) + 1
  BY FileFields, OneMore
<1>5. n = k
  <2>1. n \in 0..Len(f.dir) /\ k \in 0..Len(p)
    BY <1>4
  <2>2. Len(SubSeq(f.dir, 1, n)) = n
    BY <1>4, <2>1, UpLength
  <2>3. Len(SubSeq(p, 1, k)) = k
    BY <2>1, UpLength
  <2> QED BY <1>2, <2>2, <2>3
<1>6. SubSeq(f.dir, k + 1, Len(f.dir)) = Append(SubSeq(p, k + 1, Len(p)), x)
  <2>1. k \in 0..Len(p)
    BY <1>4
  <2>2. SubSeq(Append(p, x), k + 1, Len(p) + 1) = Append(SubSeq(p, k + 1, Len(p)), x)
    BY <2>1, OneMore
  <2> QED BY <1>4, <2>2, Zenon
<1> QED BY <1>2, <1>3, <1>5, <1>6, Zenon

(* A header beside its source or published has the name of the source, in  *)
(* the same directory or in the public one beside it.                      *)
LEMMA NamesAlike ==
  ASSUME NEW f \in Files, NEW g \in Files, OnDisk(f), OnDisk(g), BesideOrPublished(f, g)
  PROVE  /\ Strip(f.dir) = Strip(g.dir)
         /\ Named(g).absolute = Named(f).absolute
         /\ \/ Named(g).dir = Named(f).dir
            \/ Named(f).dir # <<>> /\ Named(g).dir = Append(Front(Named(f).dir), "public")
<1>1. CASE f.dir = g.dir
  <2>1. Tops(f) = Tops(g)
    BY <1>1, Zenon DEF Tops
  <2>2. CASE Tops(f) = {}
    BY <1>1, <2>1, <2>2, NameBelow, Zenon
  <2>3. CASE Tops(f) # {}
    <3>1. Named(f).absolute = FALSE /\ Named(g).absolute = FALSE
      BY <2>1, <2>3, NameBelow, Zenon
    <3>2. PICK n \in 1..Len(f.dir) :
            Shortest(Tops(f)) = SubSeq(f.dir, 1, n) /\ Named(f).dir = SubSeq(f.dir, n + 1, Len(f.dir))
      BY <2>3, NameBelow, Zenon
    <3>3. PICK m \in 1..Len(g.dir) :
            Shortest(Tops(g)) = SubSeq(g.dir, 1, m) /\ Named(g).dir = SubSeq(g.dir, m + 1, Len(g.dir))
      BY <2>1, <2>3, NameBelow, Zenon
    <3>4. n = m
      <4>1. f.dir \in Seq(STRING) /\ Len(f.dir) \in Nat
        BY FileFields
      <4>2. n \in 0..Len(f.dir) /\ m \in 0..Len(f.dir)
        BY <1>1, <4>1
      <4>3. SubSeq(f.dir, 1, n) = SubSeq(f.dir, 1, m)
        BY <1>1, <2>1, <3>2, <3>3, Zenon
      <4>4. Len(SubSeq(f.dir, 1, n)) = n
        BY <4>1, <4>2, UpLength
      <4>5. Len(SubSeq(f.dir, 1, m)) = m
        BY <4>1, <4>2, UpLength
      <4> QED BY <4>3, <4>4, <4>5
    <3> QED BY <1>1, <3>1, <3>2, <3>3, <3>4, Zenon
  <2> QED BY <1>1, <2>2, <2>3, Zenon
<1>2. CASE f.dir # g.dir
  <2>1. PICK p \in Seq(STRING), x \in STRING, y \in STRING :
          /\ x \in SplitDirectories /\ y \in SplitDirectories /\ y = "public"
          /\ f.dir = Append(p, x) /\ g.dir = Append(p, y)
          /\ ~Marked(f.dir) /\ ~Marked(g.dir)
    BY <1>2, PublishedIn
  <2>2. Strip(f.dir) = Strip(g.dir)
    <3>1. Strip(Append(p, x)) = Strip(p)
      BY <2>1, StripSplit
    <3>2. Strip(Append(p, y)) = Strip(p)
      BY <2>1, StripSplit
    <3> QED BY <2>1, <3>1, <3>2, Zenon
  <2>3. Tops(f) = MarkedOver(p) /\ Tops(g) = MarkedOver(p)
    BY <2>1, TopsOver, Zenon
  <2>4. CASE MarkedOver(p) = {}
    <3>1. /\ Named(f).absolute = TRUE /\ Named(f).dir = f.dir
          /\ Named(g).absolute = TRUE /\ Named(g).dir = g.dir
      BY <2>3, <2>4, NameBelow, Zenon
    <3>2. Append(p, x) # <<>> /\ Front(Append(p, x)) = p
      BY OneMore
    <3> QED BY <2>1, <2>2, <3>1, <3>2, Zenon
  <2>5. CASE MarkedOver(p) # {}
    <3>1. PICK k \in 1..Len(p) : Shortest(MarkedOver(p)) = SubSeq(p, 1, k)
      <4>1. MarkedOver(p) \in SUBSET DirsAbove(p)
        BY DEF MarkedOver
      <4> QED BY <2>5, <4>1, ShortestExists
    <3> DEFINE q == SubSeq(p, k + 1, Len(p))
    <3>2. Named(f).absolute = FALSE /\ Named(f).dir = Append(q, x)
      BY <2>1, <2>5, <3>1, NamedOver, Zenon
    <3>3. Named(g).absolute = FALSE /\ Named(g).dir = Append(q, y)
      BY <2>1, <2>5, <3>1, NamedOver, Zenon
    <3>4. q \in Seq(STRING)
      <4>1. Len(p) \in Nat
        BY LenProperties
      <4>2. k \in 0..Len(p)
        BY <4>1
      <4> QED BY <4>2, CutHere
    <3>5. Front(Append(q, x)) = q /\ Append(q, x) # <<>>
      <4> HIDE DEF q
      <4> QED BY <3>4, OneMore
    <3> HIDE DEF q
    <3> QED BY <2>1, <2>2, <3>2, <3>3, <3>5, Zenon
  <2> QED BY <2>4, <2>5
<1> QED BY <1>1, <1>2

-----------------------------------------------------------------------------
(* The header of a source                                                  *)

(* SplitFirst of a header that is named                                    *)
SplitOver(g) ==
  Named(g).absolute = FALSE /\ \E i \in DOMAIN g.dir :
    g.dir[i] \in SplitDirectories /\ i <= Len(g.dir) - Len(Named(g).dir) + 1

(* A name that does not start at or below a split directory.             *)
LEMMA NotSplitOver ==
  ASSUME NEW g \in Files, ~SplitOver(g)
  PROVE  \E n \in 0..Len(g.dir) :
           /\ Named(g).dir = SubSeq(g.dir, n + 1, Len(g.dir))
           /\ \/ Named(g).absolute = TRUE /\ n = 0
              \/ /\ Named(g).absolute = FALSE
                 /\ \A i \in 1..Len(g.dir) : i <= n + 1 => g.dir[i] \notin SplitDirectories
<1>1. g.dir \in Seq(STRING) /\ Len(g.dir) \in Nat /\ DOMAIN g.dir = 1..Len(g.dir)
  BY FileFields
<1>2. CASE Tops(g) = {}
  <2>1. Named(g).absolute = TRUE /\ Named(g).dir = g.dir
    BY <1>2, NameBelow, Zenon
  <2>2. SubSeq(g.dir, 0 + 1, Len(g.dir)) = g.dir
    <3>1. SubSeq(g.dir, 1, Len(g.dir)) = g.dir
      BY <1>1, SubSeqFull
    <3> QED BY <3>1
  <2>3. 0 \in 0..Len(g.dir)
    BY <1>1
  <2> QED BY <2>1, <2>2, <2>3, Zenon
<1>3. CASE Tops(g) # {}
  <2>1. Named(g).absolute = FALSE
    BY <1>3, NameBelow, Zenon
  <2>2. PICK n \in 1..Len(g.dir) : Named(g).dir = SubSeq(g.dir, n + 1, Len(g.dir))
    BY <1>3, NameBelow, Zenon
  <2>3. n \in 0..Len(g.dir)
    BY <1>1
  <2>4. Len(SubSeq(g.dir, n + 1, Len(g.dir))) = Len(g.dir) - n
    BY <1>1, <2>3, SubSeqProperties
  <2>5. ASSUME NEW i \in 1..Len(g.dir), i <= n + 1
        PROVE  g.dir[i] \notin SplitDirectories
    <3>1. i <= Len(g.dir) - Len(Named(g).dir) + 1
      <4>1. Len(g.dir) - (Len(g.dir) - n) + 1 = n + 1
        BY <1>1
      <4> QED BY <2>2, <2>4, <2>5, <4>1
    <3> QED BY <1>1, <2>1, <3>1, Zenon DEF SplitOver
  <2> QED BY <2>1, <2>2, <2>3, <2>5, Zenon
<1> QED BY <1>2, <1>3

(* An own header is classified as one, and is the file that is opened.   *)
LEMMA OwnIsOpened ==
  ASSUME NEW f \in Files, NEW g \in Files, OnDisk(f), OnDisk(g),
         OfOneModule(f, g), BesideOrPublished(f, g)
  PROVE  /\ _ClassifyInclude(Named(f), Named(g), FALSE, FALSE) = "likely mine"
         /\ \/ SplitOver(g)
            \/ FilesBelongToSameModule(f, Named(g)) /\ Opened(f, Named(g)) = g
<1>1. /\ Strip(f.dir) = Strip(g.dir)
      /\ Named(g).absolute = Named(f).absolute
      /\ \/ Named(g).dir = Named(f).dir
         \/ Named(f).dir # <<>> /\ Named(g).dir = Append(Front(Named(f).dir), "public")
  BY NamesAlike, Zenon
<1>2. _ClassifyInclude(Named(f), Named(g), FALSE, FALSE) = "likely mine"
  BY <1>1, LikelyMine, Zenon
<1>3. ASSUME ~SplitOver(g)
      PROVE  FilesBelongToSameModule(f, Named(g)) /\ Opened(f, Named(g)) = g
  <2>1. PICK n \in 0..Len(g.dir) :
          /\ Named(g).dir = SubSeq(g.dir, n + 1, Len(g.dir))
          /\ \/ Named(g).absolute = TRUE /\ n = 0
             \/ /\ Named(g).absolute = FALSE
                /\ \A i \in 1..Len(g.dir) : i <= n + 1 => g.dir[i] \notin SplitDirectories
    BY <1>3, NotSplitOver, Zenon
  <2> QED BY <1>1, <2>1, OpensOwn, Zenon
<1> QED BY <1>2, <1>3, Zenon

(* OwnHeaderFound: for every tree of files and directories with marks, the *)
(* header of a source is called its own and is what is opened for it, and  *)
(* what is opened is never the header of another module.                   *)
THEOREM OwnHeadersAreFound == Spec => []OwnHeaderFound
<1>1. ASSUME NamesInv, pc = "done"
      PROVE  /\ Source \in Files /\ Header \in Files
             /\ names[1] = Named(Source) /\ names[2] = Named(Header)
  <2>1. asked \in Pairs /\ names = <<Named(Source), Named(Header)>>
    BY <1>1 DEF NamesInv, Answers
  <2>2. Source \in Files /\ Header \in Files
    BY <2>1, FilesAssumption DEF Source, Header
  <2> QED BY <2>1, <2>2
<1>2. ASSUME NamesInv, pc = "done"
      PROVE  OwnHeaderIsOwn
  <2>1. SUFFICES ASSUME OnDisk(Source), OnDisk(Header), OfOneModule(Source, Header),
                        BesideOrPublished(Source, Header)
                 PROVE  /\ _ClassifyInclude(names[1], names[2], FALSE, FALSE) = "likely mine"
                        /\ \/ SplitFirst(names[2])
                           \/ /\ FilesBelongToSameModule(Source, names[2])
                              /\ Opened(Source, names[2]) = Header
    BY Zenon DEF OwnHeaderIsOwn, OfOneModule, BesideOrPublished, Beside, Published
  <2>2. Source \in Files /\ Header \in Files
    BY <1>1, <1>2, Zenon
  <2>3. /\ _ClassifyInclude(Named(Source), Named(Header), FALSE, FALSE) = "likely mine"
        /\ \/ SplitOver(Header)
           \/ /\ FilesBelongToSameModule(Source, Named(Header))
              /\ Opened(Source, Named(Header)) = Header
    BY <2>1, <2>2, OwnIsOpened, Zenon
  <2>4. SplitOver(Header) => SplitFirst(Named(Header))
    BY Zenon DEF SplitOver, SplitFirst
  <2> QED BY <1>1, <1>2, <2>3, <2>4, Zenon
<1>3. ASSUME NamesInv, pc = "done"
      PROVE  OpenedIsOwn
  <2>1. Source \in Files /\ Header \in Files /\ names[2] = Named(Header)
    BY <1>1, <1>3, Zenon
  <2> QED BY <2>1, OpenedNamesSource, Zenon DEF OpenedIsOwn
<1>4. NamesInv => OwnHeaderFound
  <2>1. pc # "done" => OwnHeaderIsOwn /\ OpenedIsOwn
    BY Zenon DEF OwnHeaderIsOwn, OpenedIsOwn
  <2> QED BY <1>2, <1>3, <2>1, Zenon DEF OwnHeaderFound
<1> QED BY <1>4, NamesInvHolds, PTL

=============================================================================

------------------------------- MODULE FileNames -------------------------------
(***************************************************************************)
(* FileInfo.RepositoryName, and what is decided from names: whether an     *)
(* include is the header of the file (_ClassifyInclude), which header is   *)
(* opened as that (FilesBelongToSameModule), and the guard a header has to *)
(* have (GetHeaderGuardCPPVariable).                                       *)
(*                                                                         *)
(* A directory is the sequence of its components, "/" is <<>>.  A file is  *)
(* [absolute, dir, stem, suffix, ext] with a suffix like "_test" or "-inl" *)
(* or "" for none; a name is one too, "absolute" if it starts with "/".    *)
(* Directories named public or internal do not follow each other, no file  *)
(* lies in "/", and names are in lower case and have no c++ or flymake.    *)
(***************************************************************************)
EXTENDS Integers, SequencesExt

CONSTANTS
  Files,   \* the files
  Missing, \* those that are not on disk
  Pairs,   \* the files that are asked for, a source and a header
  Marks,   \* the directories with a .svn, and those with a .git or .hg
  Ends,    \* pairs of components, the second the end of the first
  FirstComponent, \* of a stem, up to the first - or _
  WordOf,  \* a suffix without its - or _
  Roots    \* what --root may be, <<>> for nothing

NoSuffix == {""}

(* A file has its full name, none lies in "/", and those that are asked    *)
(* for are files.                                                          *)
ASSUME FilesAssumption ==
  /\ Files \subseteq [absolute : {TRUE}, dir : Seq(STRING) \ {<<>>}, stem : STRING,
                      suffix : DOMAIN WordOf \cup NoSuffix, ext : STRING]
  /\ WordOf \in [DOMAIN WordOf -> STRING]
  /\ Pairs \subseteq [source : Files, header : Files]
  /\ Roots \subseteq Seq(STRING)

VARIABLES
  svn,         \* directories with a .svn
  git,         \* directories with a .git or .hg
  asked,       \* a source and a header
  todo,        \* the files whose names are not known yet
  pc,          \* "call", "svn" or "up" in a loop of RepositoryName, "done"
  root_dir,    \* its local variables
  current_dir, \* in the first loop one_up_dir
  names        \* the results of RepositoryName

vars == <<svn, git, asked, todo, pc, root_dir, current_dir, names>>

Init ==
  /\ \E marks \in Marks : svn = marks.svn /\ git = marks.git
  /\ asked \in Pairs
  /\ todo = <<asked.source, asked.header>>
  /\ pc = "call"
  /\ root_dir = <<>>
  /\ current_dir = <<>>
  /\ names = <<>>

-----------------------------------------------------------------------------
(* RepositoryName *)

Dirname(dir) == IF dir = <<>> THEN <<>> ELSE Front(dir)
Marked(dir) == dir \in svn \cup git

FullName(f) == [f EXCEPT !.absolute = TRUE]
Relative(f, root) ==
  [f EXCEPT !.absolute = FALSE, !.dir = SubSeq(f.dir, Len(root) + 1, Len(f.dir))]

File == Head(todo)

Return(name) ==
  /\ names' = Append(names, name)
  /\ todo' = Tail(todo)
  /\ pc' = IF Len(todo) = 1 THEN "done" ELSE "call"
  /\ UNCHANGED <<root_dir, current_dir>>

Call ==
  /\ pc = "call"
  /\ IF File \in Missing THEN Return(FullName(File))
     ELSE /\ root_dir' = File.dir
          /\ IF File.dir \in svn
             THEN pc' = "svn" /\ current_dir' = Dirname(File.dir)
             ELSE pc' = "up" /\ current_dir' = File.dir
          /\ UNCHANGED <<todo, names>>
  /\ UNCHANGED <<svn, git, asked>>

SvnUp ==
  /\ pc = "svn"
  /\ IF current_dir \in svn
     THEN /\ root_dir' = Dirname(root_dir)
          /\ current_dir' = Dirname(current_dir)
          /\ UNCHANGED <<todo, names, pc>>
     ELSE Return(Relative(File, root_dir))
  /\ UNCHANGED <<svn, git, asked>>

(* Mutants: "/" has a directory above it; the first directory with a mark  *)
(* is the root                                                             *)
AlwaysMoreUp == TRUE
MoreUp == current_dir # Dirname(current_dir)
FirstRoot == IF Marked(current_dir) /\ ~Marked(root_dir) THEN current_dir ELSE root_dir
NextRoot == IF Marked(current_dir) THEN current_dir ELSE root_dir

Up ==
  /\ pc = "up"
  /\ IF MoreUp
     THEN /\ root_dir' = NextRoot
          /\ current_dir' = Dirname(current_dir)
          /\ UNCHANGED <<todo, names, pc>>
     ELSE Return(IF Marked(root_dir) THEN Relative(File, root_dir) ELSE FullName(File))
  /\ UNCHANGED <<svn, git, asked>>

Next == Call \/ SvnUp \/ Up

Spec == Init /\ [][Next]_vars /\ WF_vars(Next)
-----------------------------------------------------------------------------
(* _ClassifyInclude *)

CommonSuffixes == {"-test", "_test", "-regtest", "_regtest", "-unittest", "_unittest"} \X {"cc"}
             \cup {"-inl", "_inl", "-impl", "_impl", "-internal", "_internal"} \X {"h"}

(* Directory, and base name without extension and common suffixes *)
DropCommonSuffixes(f) ==
  [absolute |-> f.absolute, dir |-> f.dir,
   base |-> <<f.stem, IF <<f.suffix, f.ext>> \in CommonSuffixes THEN "" ELSE f.suffix>>]

(* The directory ../public beside that of a name; it is absolute if the    *)
(* name has no directory                                                   *)
PublicSibling(name) ==
  [absolute |-> name.absolute \/ name.dir = <<>>, dir |-> Append(Dirname(name.dir), "public"),
   base |-> name.base]

_ClassifyInclude(name, include, is_system, is_cpp_h) ==
  LET target == DropCommonSuffixes(name)
      included == DropCommonSuffixes(include)
  IN IF is_system THEN IF is_cpp_h THEN "c++ system" ELSE "c system"
     ELSE IF included \in {target, PublicSibling(target)} THEN "likely mine"
     ELSE IF FirstComponent[name.stem] = FirstComponent[include.stem] THEN "possibly mine"
     ELSE "other"

-----------------------------------------------------------------------------
(* FilesBelongToSameModule.  A path is the sequence of the components of a *)
(* directory and the base name without extension, each with its suffix.    *)

TestFileSuffixes == {"_test", "_unittest", "_regtest"}
SourceExtensions == {"c", "cc", "cpp", "cxx"}
SplitDirectories == {"public", "internal"}

Component(name) == <<name, "">>
Ending(component, end) ==
  component[2] = end[2] /\ (component[1] = end[1] \/ <<component[1], end[1]>> \in Ends)

(* "/public/" and "/internal/" become "/"                                  *)
Strip(dir) ==
  LET Kept[n \in 0..Len(dir)] ==
        IF n = 0 THEN <<>>
        ELSE IF dir[n] \in SplitDirectories THEN Kept[n - 1] ELSE Append(Kept[n - 1], dir[n])
  IN Kept[Len(dir)]

(* The first component of a name that is not absolute stays *)
StripDirs(f) ==
  IF f.absolute \/ f.dir = <<>> THEN Strip(f.dir) ELSE <<Head(f.dir)>> \o Strip(Tail(f.dir))

Path(f, dropped) ==
  Append([i \in DOMAIN StripDirs(f) |-> Component(StripDirs(f)[i])],
         <<f.stem, IF f.suffix \in dropped THEN "" ELSE f.suffix>>)

CcPath(cc) == Path(cc, TestFileSuffixes)
HeaderPath(include) == Path(include, {"-inl"})

(* Mutant: only the base names count                                       *)
SameBaseNames(cc, include) ==
  /\ cc.ext \in SourceExtensions
  /\ include.ext = "h"
  /\ Len(CcPath(cc)) >= Len(HeaderPath(include))
  /\ Last(CcPath(cc)) = Last(HeaderPath(include))

FilesBelongToSameModule(cc, include) ==
  LET c == CcPath(cc)
      h == HeaderPath(include)
      above == Len(c) - Len(h)
  IN /\ cc.ext \in SourceExtensions
     /\ include.ext = "h"
     /\ above >= 0
     /\ Tail(h) = SubSeq(c, above + 2, Len(c))
     /\ IF include.absolute THEN c[above + 1] = h[1] ELSE Ending(c[above + 1], h[1])

(* common_path + header, the file that is opened for it: a source whose    *)
(* path only ends like the header's completes its first component          *)
Completed(component, end) ==
  IF <<component, end>> \in Ends THEN component ELSE end

Opened(cc, include) ==
  LET c == CcPath(cc)
      above == Len(c) - Len(HeaderPath(include))
      prefix == [i \in 1..above |-> c[i][1]]
      first == c[above + 1][1]
      At(dir, stem) == [absolute |-> TRUE, dir |-> dir, stem |-> stem,
                        suffix |-> include.suffix, ext |-> include.ext]
  IN IF include.absolute THEN At(prefix \o include.dir, include.stem)
     ELSE IF include.dir = <<>> THEN At(prefix, Completed(first, include.stem))
     ELSE At(prefix \o <<Completed(first, Head(include.dir))>> \o Tail(include.dir), include.stem)

-----------------------------------------------------------------------------
(* GetHeaderGuardCPPVariable: the words of a name with "_" between them,   *)
(* and in front if it is absolute                                          *)

Suffix(f) == IF f.suffix \in NoSuffix THEN <<>> ELSE <<WordOf[f.suffix]>>
PathWords(dir, f) == dir \o <<f.stem>> \o Suffix(f) \o <<f.ext>>

InRoot(name, root) == root # <<>> /\ ~name.absolute /\ IsPrefix(root, name.dir)

(* Mutant: --root is taken out anywhere in the name *)
AnywhereInRoot(name, root) ==
  [leading |-> name.absolute,
   words |-> PathWords(SelectSeq(name.dir, LAMBDA d : d \notin ToSet(root)), name)]

GetHeaderGuardCPPVariable(name, root) ==
  [leading |-> name.absolute,
   words |-> PathWords(IF InRoot(name, root) THEN SubSeq(name.dir, Len(root) + 1, Len(name.dir))
                       ELSE name.dir, name)]

-----------------------------------------------------------------------------
(* What the names are for                                                  *)

Source == asked.source
Header == asked.header
OnDisk(f) == f \in Files \ Missing

DirsAbove(dir) == {SubSeq(dir, 1, n) : n \in 1..Len(dir)}
Shortest(dirs) == CHOOSE d \in dirs : \A e \in dirs : Len(d) <= Len(e)
Chain(dir) == {d \in DirsAbove(dir) : \A e \in DirsAbove(dir) : Len(e) >= Len(d) => e \in svn}

(* The directories with a mark that a file may be named from *)
Tops(f) ==
  IF ~OnDisk(f) THEN {}
  ELSE IF f.dir \in svn THEN Chain(f.dir)
  ELSE {d \in DirsAbove(f.dir) : Marked(d)}

(* A file is named from the top of its repository: with a .svn in every    *)
(* directory that is the last one of the unbroken chain of them, otherwise *)
(* the outermost directory with a mark (a repository inside another is no  *)
(* root of its own); the full name is left without any mark, and to a file *)
(* that is not on disk                                                     *)
Named(f) == IF Tops(f) # {} THEN Relative(f, Shortest(Tops(f))) ELSE FullName(f)
NameBelowTheRoot == pc = "done" => \A i \in 1..2 : names[i] = Named(<<Source, Header>>[i])

(* Where the header of a source is, and a name that StripDirs cannot use:  *)
(* public or internal is its first directory or one above it               *)
Beside == Source.dir = Header.dir
Published ==
  /\ Last(Source.dir) = "internal" /\ Header.dir = Append(Front(Source.dir), "public")
  /\ {Source.dir, Header.dir} \cap (svn \cup git) = {}
SplitFirst(name) ==
  ~name.absolute /\ \E i \in DOMAIN Header.dir :
                     Header.dir[i] \in SplitDirectories /\ i <= Len(Header.dir) - Len(name.dir) + 1

OwnHeaderIsOwn ==
  /\ pc = "done" /\ OnDisk(Source) /\ OnDisk(Header)
  /\ Source.stem = Header.stem
  /\ Source.ext = "cc" /\ Source.suffix \in TestFileSuffixes \cup {""}
  /\ Header.ext = "h" /\ Header.suffix \in {"", "-inl"}
  /\ Beside \/ Published
  => LET include == names[2]
     IN /\ _ClassifyInclude(names[1], include, FALSE, FALSE) = "likely mine"
        /\ \/ SplitFirst(include)
           \/ FilesBelongToSameModule(Source, include) /\ Opened(Source, include) = Header

OpenedIsOwn ==
  pc = "done" =>
    LET opened == Opened(Source, names[2])
    IN FilesBelongToSameModule(Source, names[2]) /\ OnDisk(opened)
         => opened.stem = Source.stem /\ StripDirs(opened) = StripDirs(Source)

(* The docstrings of _ClassifyInclude and FilesBelongToSameModule agree    *)
(* for what both call the header of a source: a header or its -inl.h,      *)
(* beside the source or its test, or in public beside internal, named from *)
(* the same root.  It is likely the source's own and, unless its name      *)
(* starts in or below one of those two directories, it is that very file   *)
(* which is opened.  No other file is: what is opened is a header of the   *)
(* name of the source, in its directory but for public and internal.       *)
OwnHeaderFound == OwnHeaderIsOwn /\ OpenedIsOwn

SameTop(f, g) == Tops(f) # {} /\ Tops(g) # {} /\ Shortest(Tops(f)) = Shortest(Tops(g))

(* Two headers of one repository are told to have the same guard, so that  *)
(* one would hide the other, only if their paths are the same words with   *)
(* other punctuation between them, unless one of the two alone is in the   *)
(* directory of --root; a header of no repository shares its guard with    *)
(* none in one (GetHeaderGuardCPPVariable of RepositoryName).              *)
GuardsDiffer ==
  pc = "done" /\ Source.ext = "h" =>
    \A root \in Roots :
      LET same == GetHeaderGuardCPPVariable(names[1], root) = GetHeaderGuardCPPVariable(names[2], root)
      IN /\ SameTop(Source, Header) /\ InRoot(names[1], root) = InRoot(names[2], root) =>
              (same <=> PathWords(Source.dir, Source) = PathWords(Header.dir, Header))
         /\ (Tops(Source) = {}) # (Tops(Header) = {}) => ~same

(* Both loops of RepositoryName end, in every layout without a .svn in "/" *)
Returns == <<>> \notin svn => <>(pc = "done")
===============================================================================

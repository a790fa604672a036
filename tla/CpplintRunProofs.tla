--------------------------- MODULE CpplintRunProofs ---------------------------
(***************************************************************************)
(* Theorems about CpplintRun, for every set of files, directories,         *)
(* categories, command lines and CPPLINT.cfg files: the inductive          *)
(* invariant, the filters that each file starts from and is linted with,   *)
(* which files are excluded, and that a run keeps the contract.            *)
(***************************************************************************)
EXTENDS CpplintRun, SequenceTheorems, TLAPS

(* The program starts in a state of the right types, between files.        *)
LEMMA InitStateInv == Init => StateInv
<1> SUFFICES ASSUME Init PROVE StateInv
  OBVIOUS
<1>1. IncludeAlpha \in Prefixes /\ {"cc", "h", "cpp", "cu", "cuh"} \subseteq Exts
        /\ MaxErrors \in Nat
  BY RunAssumption
<1>2. DefaultFilters \in Seq(Filter)
  BY <1>1 DEF DefaultFilters, Filter
<1>e. cmdline \in CmdLines /\ cfg \in [Dirs -> CfgFiles]
  BY RunAssumption DEF Init
<1>3. TypeOK
  BY <1>1, <1>2, <1>e DEF Init, TypeOK, Keys
<1> QED
  BY <1>3 DEF Init, StateInv, FileInv, BackupInv, ConfigInv, FiltersRestored,
              InProcessFile

-----------------------------------------------------------------------------
(* What the data of a run look like.                                       *)

(* The elements of a sequence are of its type.                             *)
LEMMA SeqElements ==
  ASSUME NEW S, NEW s \in Seq(S)
  PROVE  Len(s) \in Nat /\ \A i \in 1..Len(s) : s[i] \in S
OBVIOUS

(* The options and the files of the command line *)
LEMMA CmdLineType ==
  ASSUME TypeOK
  PROVE  /\ cmdline.files \in Seq(Files)
         /\ Len(cmdline.opts) \in Nat
         /\ \A i \in 1..Len(cmdline.opts) : IsCmdOption(cmdline.opts[i])
BY RunAssumption DEF TypeOK

(* The steps of the walk *)
LEMMA PathType ==
  ASSUME NEW f \in Files
  PROVE  /\ Len(Path[f]) \in Nat
         /\ \A i \in 1..Len(Path[f]) : Path[f][i].dir \in Dirs
<1> DEFINE p == Path[f]
<1>1. p \in Seq([dir : Dirs, base : STRING])
  BY RunAssumption
<1>2. Len(p) \in Nat /\ \A i \in 1..Len(p) : p[i] \in [dir : Dirs, base : STRING]
  BY <1>1, SeqElements
<1>3. \A i \in 1..Len(p) : p[i].dir \in Dirs
  <2> HIDE DEF p
  <2> QED
    BY <1>2
<1> QED
  BY <1>2, <1>3

(* The CPPLINT.cfg that is being read *)
LEMMA ConfigType ==
  ASSUME StateInv, pc = "config"
  PROVE  LET content == cfg[Path[file][level].dir] IN
         /\ Len(content) \in Nat
         /\ \A i \in 1..Len(content) : IsCfgLine(content[i])
<1>1. file \in Files /\ level \in 1..Len(Path[file])
  BY DEF StateInv, FileInv, ConfigInv, InProcessFile
<1>2. cfg[Path[file][level].dir] \in CfgFiles \ {Absent, Unreadable}
  BY <1>1, PathType DEF StateInv, TypeOK, ConfigInv
<1> QED
  BY <1>2, RunAssumption

(* The walk of a file below its CPPLINT.cfg files keeps CmdFilters         *)
LEMMA CmdFiltersType ==
  ASSUME TypeOK
  PROVE  CmdFilters \in Seq(Filter)
<1>1. DefaultFilters \in Seq(Filter)
  BY RunAssumption DEF DefaultFilters, Filter
<1> QED
  BY <1>1 DEF CmdFilters, TypeOK

-----------------------------------------------------------------------------
(* One lemma for each part of the program                                  *)

(* getopt.getopt accepts or refuses the command line.                      *)
LEMMA GetOptStep == StateInv /\ GetOpt => StateInv'
BY DEF StateInv, GetOpt, Exit, TypeOK, FileInv, BackupInv, ConfigInv,
       FiltersRestored, CmdFilters, InProcessFile,
       parse, env, state, settings, walk

(* One option is applied: --filter changes what every file starts from.    *)
LEMMA ParseOptionStep == StateInv /\ ParseOption => StateInv'
<1> SUFFICES ASSUME StateInv, ParseOption PROVE StateInv'
  OBVIOUS
<1> DEFINE o == cmdline.opts[opt + 1]
<1>1. IsCmdOption(o) /\ opt + 1 \in Nat
  <2>1. TypeOK /\ opt \in Nat /\ opt < Len(cmdline.opts)
    BY DEF ParseOption, StateInv, TypeOK
  <2>2. opt + 1 \in 1..Len(cmdline.opts)
    BY <2>1, CmdLineType
  <2> QED
    BY <2>1, <2>2, CmdLineType
<1>2. pc' \in {"options", "exited"} /\ status' \in {None, 0, 1}
  BY DEF ParseOption, OutputFormats, SetLocal, Refuse, Exit, StateInv, TypeOK,
         ProcessHppHeadersOption
<1>3. local' \in [verbosity : Int, output_format : {"emacs", "vs7", "eclipse"},
                  filters : Seq(Filter),
                  counting_style : {"unset", "total", "toplevel", "detailed"}]
  BY <1>1, ZenonT(40) DEF ParseOption, OutputFormats, SetLocal, Refuse, Exit, StateInv, TypeOK, IsCmdOption
<1>4. /\ line_length' \in Int
      /\ root' \in Roots \cup {None}
      /\ hpp_headers' \in SUBSET Exts
      /\ valid_extensions' \in SUBSET Exts
  BY <1>1 DEF ParseOption, OutputFormats, SetLocal, Refuse, Exit, StateInv, TypeOK, IsCmdOption,
              ProcessHppHeadersOption, settings
<1>5. TypeOK'
  BY <1>1, <1>2, <1>3, <1>4
  DEF ParseOption, StateInv, TypeOK, env, state, walk
<1>6. file' = None
  BY DEF ParseOption, StateInv, FileInv
<1> QED
  BY <1>2, <1>5, <1>6 DEF StateInv, FileInv, BackupInv, ConfigInv, FiltersRestored,
                    InProcessFile

(* The end of ParseArguments: files or usage text.                         *)
LEMMA FinishParseStep == StateInv /\ FinishParse => StateInv'
<1> SUFFICES ASSUME StateInv, FinishParse PROVE StateInv'
  OBVIOUS
<1>1. DefaultFilters \o local.filters \in Seq(Filter) /\ cmdline.files \in Seq(Files)
  BY CmdFiltersType, CmdLineType DEF StateInv, CmdFilters
<1>2. /\ pc' \in {"files", "exited"}
      /\ status' \in {None, 0, 1}
      /\ queue' \in Seq(Files)
      /\ filters' \in Seq(Filter)
      /\ filters_backup' \in Seq(Filter)
      /\ verbose_level' \in Int
      /\ counting' \in {"unset", "total", "toplevel", "detailed"}
      /\ output_format' \in {"emacs", "vs7", "eclipse"}
      /\ error_count' \in 0..MaxErrors
      /\ errors_by_category' \in [Keys -> Nat]
  BY <1>1 DEF FinishParse, Exit, StateInv, TypeOK, state
<1>3. TypeOK'
  BY <1>2 DEF FinishParse, StateInv, TypeOK, parse, env, settings, walk
<1>4. pc' = "files" => filters' = CmdFilters' /\ file' = None
  BY DEF FinishParse, Exit, CmdFilters, parse, StateInv, FileInv, TypeOK
<1> QED
  BY <1>2, <1>3, <1>4 DEF FinishParse, Exit, StateInv, FileInv, BackupInv, ConfigInv,
                    FiltersRestored, InProcessFile

(* ProcessFile returns: the backup becomes the list of filters again       *)
LEMMA EndFileFacts ==
  ASSUME StateInv, pc \in InProcessFile,
         NEW what \in {"excluded", "unreadable", "ignored", "linted"},
         EndFile(what),
         UNCHANGED <<local>>
  PROVE  /\ filters' = CmdFilters'
         /\ filters' \in Seq(Filter)
         /\ file' = None
         /\ pc' = "files"
         /\ outcome' \in Seq(Outcome)
<1>1. file \in Files
  BY DEF StateInv, FileInv
<1>2. [file |-> file, what |-> what, errors |-> error_count] \in Outcome
  BY <1>1 DEF StateInv, TypeOK, Outcome
<1>3. outcome' \in Seq(Outcome)
  BY <1>2 DEF EndFile, StateInv, TypeOK
<1> QED
  BY <1>3 DEF EndFile, RestoreFilters, StateInv, TypeOK, BackupInv, CmdFilters

(* ProcessFile starts: the filters are backed up.                          *)
LEMMA StartFileStep == StateInv /\ StartFile => StateInv'
<1> SUFFICES ASSUME StateInv, StartFile PROVE StateInv'
  OBVIOUS
<1>1. file' \in Files /\ queue' \in Seq(Files)
  BY DEF StartFile, StateInv, TypeOK
<1>2. cfg_filters' \in Seq(Seq(Filter))
  BY DEF StartFile
<1>3. TypeOK'
  BY <1>1, <1>2 DEF StartFile, BackupFilters, StateInv, TypeOK, parse, env, settings
<1>4. filters_backup' = CmdFilters'
  BY DEF StartFile, BackupFilters, StateInv, FiltersRestored, CmdFilters, parse
<1> QED
  BY <1>1, <1>3, <1>4 DEF StartFile, StateInv, FileInv, BackupInv, ConfigInv,
                         FiltersRestored, InProcessFile

(* One directory up, with the CPPLINT.cfg there opened or not.             *)
LEMMA AscendStep == StateInv /\ Ascend => StateInv'
<1> SUFFICES ASSUME StateInv, Ascend PROVE StateInv'
  OBVIOUS
<1>1. file \in Files
  BY DEF Ascend, StateInv, FileInv, InProcessFile
<1>2. /\ level' \in Nat \ {0}
      /\ lineno' \in Nat
      /\ keep_looking' \in BOOLEAN
      /\ pc' \in {"walk", "config", "apply"}
  <2>1. /\ level' \in {level, level + 1}
        /\ lineno' \in {lineno, 0}
        /\ keep_looking' \in {keep_looking, FALSE}
        /\ pc' \in {"walk", "config", "apply"}
    BY DEF Ascend, NextLevel
  <2>2. level \in Nat \ {0} /\ lineno \in Nat /\ keep_looking \in BOOLEAN
    BY DEF StateInv, TypeOK
  <2>3. keep_looking' \in BOOLEAN
    BY <2>1, <2>2, Zenon
  <2>4. level' \in Nat \ {0} /\ lineno' \in Nat
    BY <2>1, <2>2
  <2> QED
    BY <2>1, <2>3, <2>4
<1>3. TypeOK'
  BY <1>2 DEF Ascend, StateInv, TypeOK, parse, env, state, settings
<1>4. ConfigInv'
  <2> SUFFICES ASSUME pc' = "config" PROVE ConfigInv'
    BY DEF ConfigInv
  <2>1. /\ level \in 1..Len(Path[file])
        /\ cfg[Path[file][level].dir] \in CfgFiles \ {Absent, Unreadable}
    <3>1. /\ level <= Len(Path[file])
          /\ cfg[Path[file][level].dir] \notin {Absent, Unreadable}
      BY Zenon DEF Ascend
    <3>2. level \in Nat \ {0} /\ cfg \in [Dirs -> CfgFiles]
      BY DEF StateInv, TypeOK
    <3> QED BY <1>1, <3>1, <3>2, PathType
  <2>2. Len(cfg[Path[file][level].dir]) \in Nat
    BY <2>1, RunAssumption
  <2>3. lineno' = 0 /\ level' = level /\ file' = file /\ cfg' = cfg
    BY DEF Ascend, env
  <2> QED
    BY <2>1, <2>2, <2>3 DEF ConfigInv
<1> QED
  BY <1>1, <1>2, <1>3, <1>4
  DEF Ascend, StateInv, FileInv, BackupInv, FiltersRestored, CmdFilters,
      InProcessFile, parse, state

(* A line of a CPPLINT.cfg: filters are collected, settings change.        *)
LEMMA ConfigLineStep == StateInv /\ ConfigLine => StateInv'
<1> SUFFICES ASSUME StateInv, ConfigLine PROVE StateInv'
  OBVIOUS
<1> DEFINE content == cfg[Path[file][level].dir]
           l == content[lineno + 1]
<1>1. IsCfgLine(l) /\ lineno + 1 \in 0..Len(content) /\ lineno \in Nat
  <2>1. lineno \in Nat /\ lineno < Len(content) /\ pc = "config"
    BY ZenonT(40) DEF ConfigLine, StateInv, TypeOK
  <2>2. Len(content) \in Nat /\ lineno + 1 \in 1..Len(content)
    BY <2>1, ConfigType, SMTT(30)
  <2> QED
    BY <2>1, <2>2, ConfigType
<1>2. keep_looking' \in BOOLEAN /\ cfg_filters' \in Seq(Seq(Filter))
  <2>1. l.name = "filter" => Collected(l.filters) \in Seq(Seq(Filter))
    BY <1>1, SMTT(30) DEF IsCfgLine, Collected, StateInv, TypeOK
  <2> QED
    BY <1>1, <2>1, ZenonT(40) DEF ConfigLine, StateInv, TypeOK
<1>3. /\ line_length' \in Int
      /\ root' \in Roots \cup {None}
      /\ hpp_headers' \in SUBSET Exts
      /\ valid_extensions' \in SUBSET Exts
  BY <1>1, ZenonT(40) DEF ConfigLine, StateInv, TypeOK, IsCfgLine, ProcessHppHeadersOption,
              settings
<1>4. TypeOK'
  <2>1. lineno' = lineno + 1 /\ level' = level
    BY ZenonT(40) DEF ConfigLine
  <2> HIDE DEF l, content
  <2>2. UNCHANGED <<pc, parse, env, queue, file, state, outcome, status>>
    BY DEF ConfigLine
  <2> QED
    BY <1>1, <1>2, <1>3, <2>1, <2>2, SMTT(30) DEF StateInv, TypeOK, parse, env, state
<1>5. UNCHANGED <<pc, file, level, cfg, local, state>> /\ lineno' = lineno + 1
        /\ pc = "config"
  BY DEF ConfigLine, env, parse
<1>6. ConfigInv'
  BY <1>1, <1>5 DEF ConfigInv, StateInv
<1> QED
  BY <1>4, <1>5, <1>6 DEF StateInv, FileInv, BackupInv, FiltersRestored,
                          CmdFilters, InProcessFile, state

(* The file is excluded: ProcessFile returns with the filters restored.    *)
LEMMA ExcludeStep == StateInv /\ Exclude => StateInv'
<1> SUFFICES ASSUME StateInv, Exclude PROVE StateInv'
  OBVIOUS
<1>1. pc \in InProcessFile /\ EndFile("excluded") /\ UNCHANGED <<local>>
  BY DEF Exclude, InProcessFile, parse
<1>2. TypeOK'
  BY <1>1, EndFileFacts, ZenonT(40) DEF Exclude, StateInv, TypeOK, parse, env, settings, walk
<1> QED
  BY <1>1, <1>2, EndFileFacts DEF StateInv, FileInv, BackupInv, ConfigInv,
                                  FiltersRestored, InProcessFile

(* A pattern that cannot be compiled ends the run.                         *)
LEMMA BadPatternStep == StateInv /\ BadPattern => StateInv'
BY DEF StateInv, BadPattern, Exit, TypeOK, FileInv, BackupInv, ConfigInv,
       FiltersRestored, CmdFilters, InProcessFile,
       parse, env, state, settings, walk

(* The end of a CPPLINT.cfg: up or, with noparent, to the filters.         *)
LEMMA ConfigEndStep == StateInv /\ ConfigEnd => StateInv'
<1> SUFFICES ASSUME StateInv, ConfigEnd PROVE StateInv'
  OBVIOUS
<1>1. level' \in Nat \ {0}
  BY DEF ConfigEnd, NextLevel, StateInv, TypeOK
<1>2. TypeOK'
  BY <1>1 DEF ConfigEnd, StateInv, TypeOK, parse, env, state, settings
<1> QED
  BY <1>2 DEF ConfigEnd, StateInv, FileInv, BackupInv, ConfigInv, FiltersRestored,
              CmdFilters, InProcessFile, parse, state

(* The collected filters are added behind those of the command line.       *)
LEMMA ApplyFiltersStep == StateInv /\ ApplyFilters => StateInv'
<1> SUFFICES ASSUME StateInv, ApplyFilters PROVE StateInv'
  OBVIOUS
<1>1. Len(cfg_filters) \in Nat \ {0} /\ cfg_filters[Len(cfg_filters)] \in Seq(Filter)
  BY DEF ApplyFilters, StateInv, TypeOK
<1>2. filters' \in Seq(Filter) /\ cfg_filters' \in Seq(Seq(Filter))
  BY <1>1 DEF ApplyFilters, StateInv, TypeOK
<1>3. pc' \in {"apply", "exited"} /\ status' \in {None, 0, 1}
  BY DEF ApplyFilters, Exit, StateInv, TypeOK
<1>4. TypeOK'
  <2>1. UNCHANGED <<parse, env, queue, file, filters_backup, verbose_level, counting,
                    output_format, error_count, errors_by_category, settings, level,
                    lineno, keep_looking, outcome>>
    BY Zenon DEF ApplyFilters
  <2> QED BY <1>2, <1>3, <2>1 DEF StateInv, TypeOK, parse, env, settings
<1> QED
  BY <1>3, <1>4 DEF ApplyFilters, StateInv, FileInv, BackupInv, ConfigInv,
                    FiltersRestored, CmdFilters, InProcessFile, parse

(* The file is read, ignored for its extension or unreadable.              *)
LEMMA OpenFileStep == StateInv /\ OpenFile => StateInv'
<1> SUFFICES ASSUME StateInv, OpenFile PROVE StateInv'
  OBVIOUS
<1>1. pc \in InProcessFile /\ UNCHANGED <<local>>
  BY DEF OpenFile, InProcessFile, parse
<1>2. CASE EndFile("unreadable") \/ EndFile("ignored")
  <2>1. TypeOK'
    BY <1>1, <1>2, EndFileFacts
    DEF OpenFile, StateInv, TypeOK, parse, env, settings, walk
  <2> QED
    BY <1>1, <1>2, <2>1, EndFileFacts
    DEF StateInv, FileInv, BackupInv, ConfigInv, FiltersRestored, InProcessFile
<1>3. CASE pc' = "lint" /\ UNCHANGED <<filters, outcome, file>>
  <2>1. TypeOK'
    BY <1>3 DEF OpenFile, StateInv, TypeOK, parse, env, settings, walk
  <2> QED
    BY <1>1, <1>3, <2>1
    DEF OpenFile, StateInv, FileInv, BackupInv, ConfigInv, FiltersRestored,
        CmdFilters, InProcessFile
<1> QED
  BY <1>2, <1>3 DEF OpenFile

(* An error is counted in the categories of the state.                     *)
LEMMA ErrorStep ==
  ASSUME StateInv, NEW c \in Categories, NEW n \in 0..5, Error(c, n)
  PROVE  StateInv'
<1>1. error_count' \in 0..MaxErrors
  BY RunAssumption DEF Error, StateInv, TypeOK
<1>2. errors_by_category' \in [Keys -> Nat]
  BY DEF Error, StateInv, TypeOK
<1>3. TypeOK'
  BY <1>1, <1>2 DEF Error, StateInv, TypeOK, parse, env, settings, walk
<1> QED
  BY <1>3 DEF Error, StateInv, FileInv, BackupInv, ConfigInv, FiltersRestored,
              CmdFilters, InProcessFile, parse

(* ProcessFile returns after the checks: the filters are restored.         *)
LEMMA FinishFileStep == StateInv /\ FinishFile => StateInv'
<1> SUFFICES ASSUME StateInv, FinishFile PROVE StateInv'
  OBVIOUS
<1>1. pc \in InProcessFile /\ EndFile("linted") /\ UNCHANGED <<local>>
  BY DEF FinishFile, InProcessFile, parse
<1>2. TypeOK'
  BY <1>1, EndFileFacts DEF FinishFile, StateInv, TypeOK, parse, env, settings, walk
<1> QED
  BY <1>1, <1>2, EndFileFacts DEF StateInv, FileInv, BackupInv, ConfigInv,
                                  FiltersRestored, InProcessFile

(* The counts are printed and the process exits.                           *)
LEMMA FinishRunStep == StateInv /\ FinishRun => StateInv'
BY DEF StateInv, FinishRun, ExitStatus, Exit, TypeOK, FileInv, BackupInv, ConfigInv,
       FiltersRestored, CmdFilters, InProcessFile,
       parse, env, state, settings, walk

-----------------------------------------------------------------------------

(* No step of the program breaks the invariant.                            *)
LEMMA NextStateInv == StateInv /\ [Next]_vars => StateInv'
<1> SUFFICES ASSUME StateInv, [Next]_vars PROVE StateInv'
  OBVIOUS
<1>1. CASE UNCHANGED vars
  BY <1>1 DEF vars, StateInv, TypeOK, FileInv, BackupInv, ConfigInv,
              FiltersRestored, CmdFilters, parse, env, state, settings, walk
<1>2. CASE Next
  BY <1>2, GetOptStep, ParseOptionStep, FinishParseStep, StartFileStep,
     AscendStep, ConfigLineStep, ExcludeStep, BadPatternStep, ConfigEndStep,
     ApplyFiltersStep, OpenFileStep, ErrorStep, FinishFileStep, FinishRunStep
  DEF Next
<1> QED
  BY <1>1, <1>2

-----------------------------------------------------------------------------
(* The files of the command line, one after the other                      *)

(* What remains when one more file is left *)
LEMMA RemainingNext ==
  ASSUME TypeOK, Remaining # <<>>, NEW x, outcome' = Append(outcome, x), cmdline' = cmdline
  PROVE  Remaining' = Tail(Remaining)
<1> DEFINE fs == cmdline.files
           n == Len(outcome)
<1>1. fs \in Seq(Files) /\ n \in Nat /\ Len(fs) \in Nat
  BY CmdLineType DEF TypeOK
<1>2. n + 1 \in 1..Len(fs)
  <2> SUFFICES ASSUME Len(fs) < n + 1 PROVE FALSE
    BY <1>1
  <2> QED BY <1>1, SubSeqEmpty DEF Remaining
<1>3. Len(outcome') = n + 1 /\ fs' = fs
  BY DEF TypeOK
<1>4. Tail(SubSeq(fs, n + 1, Len(fs))) = SubSeq(fs, (n + 1) + 1, Len(fs))
  <2>1. Len(fs) \in n + 1 .. Len(fs)
    BY <1>1, <1>2
  <2> HIDE DEF fs, n
  <2> QED BY <1>1, <1>2, <2>1, HeadTailOfSubSeq
<1> QED BY <1>3, <1>4 DEF Remaining

(* Before the first return of ProcessFile nothing is missing *)
LEMMA RemainingFirst ==
  ASSUME TypeOK, outcome = <<>>
  PROVE  Remaining = cmdline.files
<1>1. cmdline.files \in Seq(Files)
  BY CmdLineType
<1> QED BY <1>1, SubSeqFull DEF Remaining

(* ProcessFile returns: the file is left, and the queue is what remains.   *)
LEMMA EndFileQueue ==
  ASSUME StateInv, QueueInv, pc \in InProcessFile,
         NEW what \in {"excluded", "unreadable", "ignored", "linted"}, EndFile(what),
         UNCHANGED <<env, queue, error_count, status>>
  PROVE  QueueInv'
<1> DEFINE x == [file |-> file, what |-> what, errors |-> error_count]
<1>1. /\ outcome' = Append(outcome, x) /\ cmdline' = cmdline /\ pc' = "files"
      /\ queue' = queue /\ error_count' = error_count /\ status' = status
  BY DEF EndFile, env
<1>2. Remaining' = Tail(Remaining)
  BY <1>1, RemainingNext DEF StateInv, QueueInv
<1>3. outcome' # <<>> /\ outcome'[Len(outcome')] = x
  <2>1. outcome \in Seq(Outcome) /\ x \in Outcome
    BY DEF StateInv, TypeOK, FileInv, Outcome
  <2> QED BY <1>1, <2>1, AppendProperties
<1>4. Contract!Reported' = error_count
  BY <1>3 DEF Contract!Reported
<1>5. cmdline.files # <<>> /\ status = None /\ queue = Tail(Remaining)
  BY DEF QueueInv, InProcessFile
<1> QED BY <1>1, <1>2, <1>4, <1>5 DEF QueueInv, InProcessFile

(* No step loses a file, takes one twice or forgets an error (main and the *)
(* returns of ProcessFile).                                                *)
LEMMA QueueStep == StateInv /\ QueueInv /\ [Next]_vars => QueueInv'
<1> SUFFICES ASSUME StateInv, QueueInv, [Next]_vars PROVE QueueInv'
  OBVIOUS
<1> USE DEF InProcessFile
<1>1. CASE GetOpt
  BY <1>1 DEF GetOpt, Exit, QueueInv, Remaining, env, state
<1>2. CASE ParseOption
  <2>1. pc' \in {"options", "exited"} /\ (pc' # "exited" => status' = status) /\ pc = "options"
    BY <1>2 DEF ParseOption, SetLocal, Refuse, Exit, ProcessHppHeadersOption, settings
  <2> QED BY <1>2, <2>1 DEF ParseOption, QueueInv, state
<1>3. CASE FinishParse
  <2>1. outcome = <<>> /\ error_count = 0 /\ pc = "options" /\ status = None
    BY <1>3 DEF FinishParse, QueueInv
  <2>2. /\ outcome' = <<>> /\ error_count' = 0 /\ pc' \in {"files", "exited"}
        /\ pc' = "files" => queue' = cmdline.files /\ status' = None /\ cmdline.files # <<>>
        /\ cmdline' = cmdline
    BY <1>3, <2>1 DEF FinishParse, Exit, env, state
  <2>3. Remaining = cmdline.files
    BY <2>1, RemainingFirst DEF StateInv
  <2>4. Remaining' = Remaining
    BY <2>1, <2>2 DEF Remaining
  <2> QED BY <2>2, <2>3, <2>4 DEF QueueInv, Contract!Reported
<1>4. CASE StartFile
  <2>1. /\ queue = Remaining /\ Remaining # <<>> /\ cmdline.files # <<>> /\ status = None
        /\ error_count = Contract!Reported
    BY <1>4 DEF StartFile, QueueInv
  <2>2. Remaining' = Remaining /\ Contract!Reported' = Contract!Reported
    BY <1>4 DEF StartFile, Remaining, Contract!Reported, env
  <2> QED BY <1>4, <2>1, <2>2 DEF StartFile, QueueInv, env
<1>5. CASE UNCHANGED <<env, queue, file, outcome, error_count, status>> /\ pc \in InProcessFile
           /\ pc' \in {"walk", "config", "apply"} /\ pc # "lint"
  <2>1. Remaining' = Remaining /\ Contract!Reported' = Contract!Reported
    BY <1>5 DEF Remaining, Contract!Reported, env
  <2> QED BY <1>5, <2>1 DEF QueueInv, env
<1>6. CASE Ascend
  BY <1>5, <1>6 DEF Ascend, state
<1>7. CASE ConfigLine
  BY <1>5, <1>7 DEF ConfigLine, state
<1>8. CASE Exclude
  BY <1>8, EndFileQueue DEF Exclude
<1>9. CASE BadPattern
  BY <1>9 DEF BadPattern, Exit, QueueInv
<1>10. CASE ConfigEnd
  BY <1>5, <1>10 DEF ConfigEnd, state
<1>11. CASE ApplyFilters
  <2>1. CASE pc' = "exited"
    BY <1>11, <2>1 DEF ApplyFilters, QueueInv
  <2>2. CASE pc' = pc /\ status' = status
    BY <1>5, <1>11, <2>2 DEF ApplyFilters
  <2> QED BY <1>11, <2>1, <2>2 DEF ApplyFilters, Exit
<1>12. CASE OpenFile
  <2>1. CASE EndFile("unreadable") \/ EndFile("ignored")
    BY <1>12, <2>1, EndFileQueue DEF OpenFile
  <2>2. CASE pc' = "lint" /\ UNCHANGED <<outcome, file>>
    <3>1. Remaining' = Remaining /\ pc = "apply" /\ status' = status /\ queue' = queue
          /\ cmdline' = cmdline
      BY <1>12, <2>2 DEF OpenFile, Remaining, env
    <3> QED BY <2>2, <3>1 DEF QueueInv
  <2> QED BY <1>12, <2>1, <2>2 DEF OpenFile
<1>13. CASE \E c \in Categories, n \in 0..5 : Error(c, n)
  <2>1. /\ pc = "lint" /\ pc' = pc
        /\ UNCHANGED <<cmdline, queue, file, outcome, status>>
    BY <1>13 DEF Error, env
  <2>2. Remaining' = Remaining
    BY <2>1 DEF Remaining
  <2> QED BY <2>1, <2>2 DEF QueueInv
<1>14. CASE FinishFile
  BY <1>14, EndFileQueue DEF FinishFile
<1>15. CASE FinishRun
  BY <1>15 DEF FinishRun, Exit, QueueInv
<1>16. CASE UNCHANGED vars
  <2>1. UNCHANGED <<pc, cmdline, queue, file, error_count, outcome, status>>
    BY <1>16 DEF vars, env, state
  <2>2. Remaining' = Remaining /\ Contract!Reported' = Contract!Reported
    BY <2>1 DEF Remaining, Contract!Reported
  <2> QED BY <2>1, <2>2 DEF QueueInv
<1> QED
  BY <1>1, <1>2, <1>3, <1>4, <1>6, <1>7, <1>8, <1>9, <1>10, <1>11, <1>12, <1>13, <1>14,
     <1>15, <1>16 DEF Next

-----------------------------------------------------------------------------
(* The contract                                                            *)

(* ProcessFile returns: the contract leaves the file.                      *)
LEMMA EndFileLeaves ==
  ASSUME StateInv, QueueInv, pc \in InProcessFile,
         NEW what \in {"excluded", "unreadable", "ignored", "linted"}, EndFile(what),
         what # "linted" => pc # "lint",
         UNCHANGED <<env, queue, error_count, status>>
  PROVE  Contract!Leave(what)
<1>1. Remaining # <<>> /\ file = Head(Remaining) /\ status = None
  BY DEF QueueInv, InProcessFile
<1>2. outcome' = Append(outcome, [file |-> file, what |-> what, errors |-> error_count])
  BY DEF EndFile
<1>3. Remaining' = Tail(Remaining)
  BY <1>1, <1>2, RemainingNext DEF StateInv, env
<1>4. what # "linted" => error_count = Contract!Reported
  BY DEF QueueInv, InProcessFile
<1> QED BY <1>1, <1>2, <1>3, <1>4 DEF Contract!Leave

(* The states in which nothing is left, nothing is counted and the run     *)
(* goes on are one state of the contract.                                  *)
LEMMA SameForContract ==
  ASSUME UNCHANGED <<cmdline, outcome, error_count, status>>
  PROVE  UNCHANGED Contract!vars
BY DEF Contract!vars, Remaining

(* What the first part of the run can do to the contract: refuse *)
LEMMA RefusedByContract ==
  ASSUME QueueInv, pc \in {"getopt", "options"}, Exit(0) \/ Exit(1),
         UNCHANGED <<cmdline, outcome, error_count>>
  PROVE  Contract!Refuse
<1>1. status = None /\ outcome = <<>> /\ error_count = 0 /\ status' \in {0, 1}
  BY DEF QueueInv, Exit
<1> QED BY <1>1 DEF Contract!Refuse, Remaining

(* A CPPLINT.cfg ends the run: the contract aborts.                        *)
LEMMA AbortedForContract ==
  ASSUME QueueInv, pc \in {"config", "apply"}, Exit(1),
         UNCHANGED <<cmdline, outcome, error_count>>
  PROVE  Contract!Abort
<1>1. status = None /\ Remaining # <<>> /\ error_count = Contract!Reported /\ status' = 1
  BY DEF QueueInv, Exit, InProcessFile
<1> QED BY <1>1 DEF Contract!Abort, Remaining

(* Every step of the program is one of the contract, or none.              *)
LEMMA ContractStep == StateInv /\ QueueInv /\ [Next]_vars => [Contract!Next]_(Contract!vars)
<1> SUFFICES ASSUME StateInv, QueueInv, [Next]_vars
             PROVE  Contract!Next \/ UNCHANGED Contract!vars
  OBVIOUS
<1>1. CASE GetOpt
  <2>1. CASE pc' = "exited"
    BY <1>1, <2>1, RefusedByContract DEF GetOpt, Contract!Next, env, state
  <2>2. CASE pc' = "options" /\ status' = status
    BY <1>1, <2>2, SameForContract DEF GetOpt, env, state
  <2> QED BY <1>1, <2>1, <2>2 DEF GetOpt, Exit
<1>2. CASE ParseOption
  <2>1. pc = "options" /\ UNCHANGED <<cmdline, outcome, error_count>>
    BY <1>2 DEF ParseOption, env, state
  <2>2. Exit(0) \/ Exit(1) \/ status' = status
    BY <1>2 DEF ParseOption, SetLocal, Refuse, ProcessHppHeadersOption, settings
  <2> QED BY <2>1, <2>2, RefusedByContract, SameForContract DEF Contract!Next
<1>3. CASE FinishParse
  <2>1. pc = "options" /\ UNCHANGED <<cmdline, outcome, error_count>>
    BY <1>3 DEF FinishParse, env, state
  <2>2. Exit(1) \/ status' = status
    BY <1>3 DEF FinishParse
  <2> QED BY <2>1, <2>2, RefusedByContract, SameForContract DEF Contract!Next
<1>4. CASE StartFile
  BY <1>4, SameForContract DEF StartFile, env
<1>5. CASE Ascend
  BY <1>5, SameForContract DEF Ascend, env, state
<1>6. CASE ConfigLine
  BY <1>6, SameForContract DEF ConfigLine, env, state
<1>7. CASE Exclude
  BY <1>7, EndFileLeaves DEF Exclude, InProcessFile, Contract!Next
<1>8. CASE BadPattern
  BY <1>8, AbortedForContract DEF BadPattern, env, state, Contract!Next
<1>9. CASE ConfigEnd
  BY <1>9, SameForContract DEF ConfigEnd, env, state
<1>10. CASE ApplyFilters
  <2>1. pc = "apply" /\ UNCHANGED <<cmdline, outcome, error_count>>
    BY <1>10 DEF ApplyFilters, env
  <2>2. Exit(1) \/ status' = status
    BY <1>10 DEF ApplyFilters
  <2> QED BY <2>1, <2>2, AbortedForContract, SameForContract DEF Contract!Next
<1>11. CASE OpenFile
  <2>1. CASE EndFile("unreadable")
    BY <1>11, <2>1, EndFileLeaves DEF OpenFile, InProcessFile, Contract!Next
  <2>2. CASE EndFile("ignored")
    BY <1>11, <2>2, EndFileLeaves DEF OpenFile, InProcessFile, Contract!Next
  <2>3. CASE UNCHANGED <<filters, outcome, file>>
    BY <1>11, <2>3, SameForContract DEF OpenFile, env
  <2> QED BY <1>11, <2>1, <2>2, <2>3 DEF OpenFile
<1>12. CASE \E c \in Categories, n \in 0..5 : Error(c, n)
  <2>1. pc = "lint" /\ error_count' = error_count + 1 /\ UNCHANGED <<cmdline, outcome, status>>
    BY <1>12 DEF Error, env
  <2>2. status = None /\ Remaining # <<>>
    BY <2>1 DEF QueueInv, InProcessFile
  <2> QED BY <2>1, <2>2 DEF Contract!Next, Contract!Report, Remaining
<1>13. CASE FinishFile
  BY <1>13, EndFileLeaves DEF FinishFile, InProcessFile, Contract!Next
<1>14. CASE FinishRun
  <2>1. /\ pc = "files" /\ status = None /\ Remaining = <<>> /\ cmdline.files # <<>>
        /\ UNCHANGED <<cmdline, outcome, error_count>>
    BY <1>14 DEF FinishRun, QueueInv, env, state
  <2>2. outcome # <<>>
    BY <2>1, RemainingFirst DEF StateInv
  <2> QED
    BY <1>14, <2>1, <2>2
    DEF FinishRun, ExitStatus, Exit, Contract!Next, Contract!Finish, Remaining
<1>15. CASE UNCHANGED vars
  BY <1>15, SameForContract DEF vars, env, state
<1> QED
  BY <1>1, <1>2, <1>3, <1>4, <1>5, <1>6, <1>7, <1>8, <1>9, <1>10, <1>11, <1>12, <1>13,
     <1>14, <1>15 DEF Next

-----------------------------------------------------------------------------
(* The walk up the directories                                             *)

(* What the CPPLINT.cfg files ask for depends on them and on --filter only *)
LEMMA SameCfg ==
  ASSUME cfg' = cfg, NEW f
  PROVE  /\ \A j : Stops(f, j)' <=> Stops(f, j)
         /\ \A name : Asked(f, name)' = Asked(f, name)
         /\ \A at : At(f, at)' = At(f, at)
         /\ \A lines, c : Votes(f, lines, c)' = Votes(f, lines, c)
         /\ ExcludedByCfg(f)' <=> ExcludedByCfg(f)
<1>1. \A j : Stops(f, j)' <=> Stops(f, j)
  BY DEF Stops, HasCfg, CfgLines
<1>2. \A name : Asked(f, name)' = Asked(f, name)
  BY DEF Asked, ReadLevels, Stops, HasCfg, CfgLines
<1>3. \A at : At(f, at)' = At(f, at)
  BY DEF At, CfgLines
<1>4. \A lines, c : Votes(f, lines, c)' = Votes(f, lines, c)
  BY DEF Votes, Touches, At, CfgLines
<1>5. ExcludedByCfg(f)' <=> ExcludedByCfg(f)
  BY <1>2, <1>3 DEF ExcludedByCfg
<1> QED BY <1>1, <1>2, <1>3, <1>4, <1>5

(* A decision is one of the configuration files alone.                   *)
LEMMA SameDecision ==
  ASSUME cfg' = cfg, local' = local, NEW f, NEW c
  PROVE  Decision(f, c)' = Decision(f, c)
BY DEF Decision, Votes, Touches, At, Asked, ReadLevels, Stops, HasCfg, CfgLines, CmdFilters,
       IsNearest, Before

(* The lines of one name are those of the levels that are read.            *)
LEMMA AskedLines ==
  ASSUME NEW f, NEW name
  PROVE  /\ \A at \in Asked(f, name) :
              /\ at = <<at[1], at[2]>>
              /\ at[1] \in ReadLevels(f)
              /\ at[2] \in 1..Len(CfgLines(f, at[1]))
              /\ At(f, at).name = name
         /\ \A i \in ReadLevels(f) : \A k \in 1..Len(CfgLines(f, i)) :
              CfgLines(f, i)[k].name = name => <<i, k>> \in Asked(f, name)
BY DEF Asked, At

(* The levels that are read are directories that have a file.            *)
LEMMA ReadLevelsType ==
  ASSUME NEW f \in Files
  PROVE  \A i \in ReadLevels(f) : i \in 1..Len(Path[f]) /\ i \in Int /\ HasCfg(f, i)
BY PathType DEF ReadLevels

(* No file is not a file that cannot be read.                            *)
LEMMA AbsentAssumption == Absent # Unreadable
BY RunAssumption

(* ProcessConfigOverrides keeps looking as long as no level below stops it *)
LEMMA LookStep == StateInv /\ LookInv /\ [Next]_vars => LookInv'
<1> SUFFICES ASSUME StateInv, LookInv, [Next]_vars PROVE LookInv'
  OBVIOUS
<1>0. level \in Nat \ {0} /\ lineno \in Nat /\ keep_looking \in BOOLEAN
  BY DEF StateInv, TypeOK
<1>1. CASE pc' \in {"getopt", "options", "files", "exited"}
  BY <1>1 DEF LookInv
<1>2. CASE StartFile
  BY <1>2 DEF StartFile, LookInv
<1>3. CASE Ascend
  <2>1. /\ pc = "walk" /\ file' = file /\ cfg' = cfg
        /\ keep_looking <=> \A j \in 1..level - 1 : ~Stops(file, j)
    BY <1>3 DEF Ascend, LookInv, env
  <2>2. CASE ~(keep_looking /\ level <= Len(Path[file]))
    <3>1. pc' = "apply" /\ level' = level /\ keep_looking' = keep_looking /\ file \in Files
      BY <1>3, <2>1, <2>2 DEF Ascend, StateInv, FileInv, InProcessFile
    <3>2. ~keep_looking \/ level > Len(Path[file])
      BY <1>0, <2>2, <3>1, PathType
    <3> QED BY <2>1, <3>1, <3>2, SameCfg DEF LookInv
  <2> DEFINE content == cfg[Path[file][level].dir]
  <2>3. CASE keep_looking /\ level <= Len(Path[file]) /\ content = Absent
    <3>1. pc' = "walk" /\ level' = level + 1 /\ keep_looking' = keep_looking
      BY <1>3, <2>3, AbsentAssumption DEF Ascend, NextLevel
    <3>2. ~Stops(file, level)
      BY <2>3, AbsentAssumption DEF Stops, HasCfg
    <3>3. \A j \in 1..level' - 1 : ~Stops(file, j)
      <4>1. \A j \in 1..level' - 1 : j \in 1..level - 1 \/ j = level
        BY <1>0, <3>1
      <4> QED BY <2>1, <2>3, <3>2, <4>1
    <3> QED BY <2>1, <2>3, <3>1, <3>3, SameCfg DEF LookInv
  <2>4. CASE keep_looking /\ level <= Len(Path[file]) /\ content = Unreadable
    <3>1. pc' = "walk" /\ level' = level + 1 /\ keep_looking' = FALSE
      BY <1>3, <2>4, AbsentAssumption DEF Ascend, NextLevel
    <3>2. Stops(file, level)
      BY <2>4 DEF Stops
    <3>3. level \in 1..level' - 1
      BY <1>0, <3>1
    <3> QED BY <2>1, <3>1, <3>2, <3>3, SameCfg DEF LookInv
  <2>5. CASE keep_looking /\ level <= Len(Path[file]) /\ content \notin {Absent, Unreadable}
    <3>1. pc' = "config" /\ level' = level /\ keep_looking' = keep_looking /\ lineno' = 0
      BY <1>3, <2>5 DEF Ascend
    <3>2. \A k \in 1..lineno' : CfgLines(file, level)[k].name # "set noparent"
      <4>1. 1..lineno' = {}
        BY <3>1
      <4> QED BY <4>1, Zenon
    <3>3. \A j \in 1..level - 1 : ~Stops(file, j)
      BY <2>1, <2>5
    <3>4. CfgLines(file, level)' = CfgLines(file, level)
      BY <2>1, <3>1 DEF CfgLines
    <3>5. keep_looking'
      BY <2>5, <3>1, Zenon
    <3>6. /\ \A j \in 1..level' - 1 : ~Stops(file, j)'
          /\ \A k \in 1..lineno' : CfgLines(file, level)'[k].name # "set noparent"
      BY <2>1, <3>1, <3>2, <3>3, <3>4, SameCfg
    <3> QED BY <2>1, <3>1, <3>5, <3>6 DEF LookInv
  <2> QED BY <2>2, <2>3, <2>4, <2>5
<1>4. CASE ConfigLine
  <2> DEFINE l == CfgLines(file, level)[lineno + 1]
  <2>1. /\ pc = "config" /\ pc' = pc /\ file' = file /\ cfg' = cfg /\ level' = level
        /\ lineno' = lineno + 1
        /\ IF l.name = "set noparent" THEN keep_looking' = FALSE
           ELSE keep_looking' = keep_looking
    BY <1>4 DEF ConfigLine, env, CfgLines
  <2>2. CfgLines(file, level)' = CfgLines(file, level)
    BY <2>1 DEF CfgLines
  <2>3. keep_looking <=>
          \A k \in 1..lineno : CfgLines(file, level)[k].name # "set noparent"
    BY <2>1 DEF LookInv
  <2>4. keep_looking' <=>
          \A k \in 1..lineno + 1 : CfgLines(file, level)[k].name # "set noparent"
    <3>1. \A k \in 1..lineno + 1 : k \in 1..lineno \/ k = lineno + 1
      BY <1>0
    <3>2. lineno + 1 \in 1..lineno + 1 /\ \A k \in 1..lineno : k \in 1..lineno + 1
      BY <1>0
    <3> HIDE DEF l
    <3>3. CASE l.name = "set noparent"
      BY <2>1, <3>2, <3>3 DEF l
    <3>4. CASE l.name # "set noparent"
      BY <2>1, <2>3, <3>1, <3>2, <3>4 DEF l
    <3> QED BY <3>3, <3>4
  <2> QED BY <2>1, <2>2, <2>4, SameCfg DEF LookInv
<1>5. CASE ConfigEnd
  <2>1. /\ pc = "config" /\ pc' = "walk" /\ file' = file /\ cfg' = cfg /\ level' = level + 1
        /\ keep_looking' = keep_looking /\ lineno = Len(CfgLines(file, level))
    BY <1>5 DEF ConfigEnd, NextLevel, env, CfgLines
  <2>2. /\ \A j \in 1..level - 1 : ~Stops(file, j)
        /\ keep_looking <=> ~Stops(file, level)
    BY <2>1 DEF LookInv, Stops, StateInv, ConfigInv, HasCfg, CfgLines
  <2>3. keep_looking <=> \A j \in 1..level' - 1 : ~Stops(file, j)
    BY <1>0, <2>1, <2>2
  <2> QED BY <2>1, <2>3, SameCfg DEF LookInv
<1>6. CASE pc' \in {"apply", "lint"} /\ pc \in {"apply", "lint"}
           /\ UNCHANGED <<file, cfg, level, keep_looking>>
  BY <1>6, SameCfg DEF LookInv
<1>7. CASE ApplyFilters
  <2>1. pc = "apply" /\ (pc' = pc \/ pc' = "exited") /\ UNCHANGED <<file, cfg, level, keep_looking>>
    BY <1>7 DEF ApplyFilters, Exit, env
  <2> QED BY <1>1, <1>6, <2>1
<1>8. CASE OpenFile
  <2>1. CASE EndFile("unreadable") \/ EndFile("ignored")
    BY <1>1, <2>1 DEF EndFile
  <2>2. CASE pc' = "lint" /\ UNCHANGED file
    BY <1>6, <1>8, <2>2 DEF OpenFile, env, walk
  <2> QED BY <1>8, <2>1, <2>2 DEF OpenFile
<1>9. CASE \E c \in Categories, n \in 0..5 : Error(c, n)
  BY <1>6, <1>9 DEF Error, env, walk
<1>10. CASE UNCHANGED vars
  BY <1>10, SameCfg DEF vars, env, walk, LookInv, CfgLines
<1>11. CASE GetOpt \/ ParseOption \/ FinishParse \/ Exclude \/ BadPattern \/ FinishFile \/ FinishRun
  BY <1>1, <1>11
  DEF GetOpt, ParseOption, FinishParse, Exclude, BadPattern, FinishFile, FinishRun, EndFile, Exit,
      SetLocal, Refuse, ProcessHppHeadersOption
<1> QED
  BY <1>2, <1>3, <1>4, <1>5, <1>7, <1>8, <1>9, <1>10, <1>11 DEF Next

-----------------------------------------------------------------------------
(* The lines that the walk has come to                                     *)

(* A CPPLINT.cfg that is read lies where the walk was not stopped before   *)
LEMMA LevelIsRead ==
  ASSUME StateInv, LookInv, pc = "config"
  PROVE  level \in ReadLevels(file)
BY DEF StateInv, ConfigInv, LookInv, ReadLevels, HasCfg

(* When the walk ends it has come to all lines                             *)
LEMMA WalkIsOver ==
  ASSUME StateInv, LookInv, pc \in {"walk", "apply", "lint"},
         ~keep_looking \/ level > Len(Path[file]), NEW name
  PROVE  Read(name) = Asked(file, name)
<1>0. file \in Files /\ level \in Nat \ {0} /\ keep_looking \in BOOLEAN
  BY DEF StateInv, FileInv, InProcessFile, TypeOK
<1>1. \A i \in ReadLevels(file) : i < level
  <2>1. CASE level > Len(Path[file])
    BY <1>0, <2>1, ReadLevelsType, PathType
  <2>2. CASE ~keep_looking
    <3>1. PICK j \in 1..level - 1 : Stops(file, j)
      BY <2>2 DEF LookInv
    <3>2. \A i \in ReadLevels(file) : i \in Int /\ j \notin 1..i - 1
      BY <1>0, <3>1, ReadLevelsType DEF ReadLevels
    <3> QED BY <1>0, <3>1, <3>2
  <2> QED BY <2>1, <2>2
<1> QED BY <1>1, AskedLines DEF Read

(* When the walk is over, all that was asked for has been read.          *)
LEMMA AllRead ==
  ASSUME StateInv, LookInv, pc \in {"apply", "lint"}, NEW name
  PROVE  Read(name) = Asked(file, name)
BY WalkIsOver DEF LookInv

(* At the first level nothing has been read                                *)
LEMMA ReadNothing ==
  ASSUME StateInv, StartFile, NEW name
  PROVE  Read(name)' = {}
<1>1. pc' = "walk" /\ level' = 1 /\ cfg' = cfg /\ file' \in Files
  BY DEF StartFile, StateInv, TypeOK, env
<1>2. \A at \in Asked(file', name) : at[1] \in Int /\ at[1] >= 1
  BY <1>1, AskedLines, ReadLevelsType, PathType
<1>3. Asked(file, name)' = Asked(file', name)
  BY <1>1 DEF Asked, ReadLevels, Stops, HasCfg, CfgLines
<1> QED BY <1>1, <1>2, <1>3 DEF Read

(* One level up there is nothing new, whether a CPPLINT.cfg is opened, is  *)
(* missing or cannot be read                                               *)
LEMMA ReadAscend ==
  ASSUME StateInv, Ascend, NEW name
  PROVE  Read(name)' = Read(name)
<1>0. /\ file \in Files /\ level \in Nat \ {0} /\ pc = "walk"
      /\ file' = file /\ cfg' = cfg
  BY DEF StateInv, FileInv, InProcessFile, TypeOK, Ascend, env
<1>1. Asked(file, name)' = Asked(file, name)
  BY <1>0, SameCfg
<1>2. \A at \in Asked(file, name) : at[1] \in Int /\ HasCfg(file, at[1]) /\ at[2] \in Int /\ at[2] >= 1
  BY <1>0, AskedLines, ReadLevelsType
<1>3. Read(name) = {at \in Asked(file, name) : at[1] < level}
  BY <1>0 DEF Read
<1>4. CASE pc' = "apply" /\ level' = level
  BY <1>0, <1>1, <1>3, <1>4 DEF Read
<1>5. CASE pc' = "walk" /\ level' = level + 1 /\ ~HasCfg(file, level)
  <2>1. Read(name)' = {at \in Asked(file, name) : at[1] < level + 1}
    BY <1>0, <1>1, <1>5 DEF Read
  <2>2. \A at \in Asked(file, name) : at[1] < level + 1 <=> at[1] < level
    BY <1>0, <1>2, <1>5
  <2> QED BY <1>3, <2>1, <2>2
<1>6. CASE pc' = "config" /\ level' = level /\ lineno' = 0
  <2>1. Read(name)' = {at \in Asked(file, name) : at[1] < level \/ (at[1] = level /\ at[2] <= 0)}
    BY <1>0, <1>1, <1>6 DEF Read
  <2>2. \A at \in Asked(file, name) : ~(at[2] <= 0)
    BY <1>2
  <2> QED BY <1>3, <2>1, <2>2
<1>7. CASE keep_looking /\ level <= Len(Path[file])
  <2> DEFINE content == cfg[Path[file][level].dir]
  <2>1. CASE content \in {Absent, Unreadable}
    <3>1. pc' = "walk" /\ level' = level + 1
      BY <1>0, <1>7, <2>1 DEF Ascend, NextLevel
    <3> QED BY <1>5, <2>1, <3>1 DEF HasCfg
  <2>2. CASE content \notin {Absent, Unreadable}
    BY <1>6, <1>7, <2>2 DEF Ascend
  <2> QED BY <2>1, <2>2
<1>8. CASE ~(keep_looking /\ level <= Len(Path[file]))
  BY <1>4, <1>8 DEF Ascend
<1> QED BY <1>7, <1>8

(* A line of a CPPLINT.cfg is one more of its name, behind all others      *)
LEMMA ReadLine ==
  ASSUME StateInv, LookInv, pc = "config", pc' = pc, UNCHANGED <<file, cfg, level>>,
         lineno < Len(CfgLines(file, level)), lineno' = lineno + 1, NEW name
  PROVE  LET here == <<level, lineno + 1>>
             l == CfgLines(file, level)[lineno + 1]
         IN /\ here \in Asked(file, l.name) /\ At(file, here) = l
            /\ Read(name)' = IF l.name = name THEN Read(name) \cup {here} ELSE Read(name)
            /\ \A at \in Read(name) : Before(at, here) /\ ~Before(here, at)
<1> DEFINE here == <<level, lineno + 1>>
           l == CfgLines(file, level)[lineno + 1]
<1>0. /\ file \in Files /\ level \in Nat \ {0} /\ lineno \in Nat
      /\ Len(CfgLines(file, level)) \in Nat
  BY ConfigType DEF StateInv, FileInv, InProcessFile, TypeOK, CfgLines
<1>1. here \in Asked(file, l.name) /\ At(file, here) = l
  <2>1. lineno + 1 \in 1..Len(CfgLines(file, level))
    BY <1>0
  <2> QED BY <2>1, LevelIsRead, AskedLines DEF At
<1>2. Asked(file, name)' = Asked(file, name)
  BY SameCfg
<1>3. \A at \in Asked(file, name) :
        /\ at = <<at[1], at[2]>> /\ at[1] \in Int /\ at[2] \in Int
        /\ At(file, at).name = name
  BY <1>0, AskedLines, ReadLevelsType
<1>4. /\ Read(name) = {at \in Asked(file, name) :
                         at[1] < level \/ (at[1] = level /\ at[2] <= lineno)}
      /\ Read(name)' = {at \in Asked(file, name) :
                         at[1] < level \/ (at[1] = level /\ at[2] <= lineno + 1)}
  BY <1>2 DEF Read
<1>5. \A at \in Asked(file, name) :
        (at[1] < level \/ (at[1] = level /\ at[2] <= lineno + 1)) <=>
          \/ at[1] < level \/ (at[1] = level /\ at[2] <= lineno)
          \/ at = here
  BY <1>0, <1>3
<1>6. here \in Asked(file, name) <=> l.name = name
  BY <1>1, <1>3
<1>7. Read(name)' = IF l.name = name THEN Read(name) \cup {here} ELSE Read(name)
  BY <1>4, <1>5, <1>6
<1>8. \A at \in Read(name) : Before(at, here) /\ ~Before(here, at)
  BY <1>0, <1>3, <1>4 DEF Before
<1> QED BY <1>1, <1>7, <1>8

(* The end of a CPPLINT.cfg: the whole of it has been read                 *)
LEMMA ReadEnd ==
  ASSUME StateInv, ConfigEnd, NEW name
  PROVE  Read(name)' = Read(name)
<1>0. /\ file \in Files /\ level \in Nat \ {0} /\ pc = "config" /\ pc' = "walk"
      /\ file' = file /\ cfg' = cfg /\ level' = level + 1
      /\ lineno = Len(CfgLines(file, level)) /\ lineno \in Nat
  BY DEF StateInv, FileInv, InProcessFile, TypeOK, ConfigEnd, NextLevel, env, CfgLines
<1>1. Asked(file, name)' = Asked(file, name)
  BY <1>0, SameCfg
<1>2. \A at \in Asked(file, name) :
        at[1] \in Int /\ at[2] \in 1..Len(CfgLines(file, at[1]))
  BY <1>0, AskedLines, ReadLevelsType
<1>3. Read(name)' = {at \in Asked(file, name) : at[1] < level + 1}
  BY <1>0, <1>1 DEF Read
<1>4. \A at \in Asked(file, name) :
        at[1] < level + 1 <=> at[1] < level \/ (at[1] = level /\ at[2] <= lineno)
  BY <1>0, <1>2
<1> QED BY <1>0, <1>3, <1>4 DEF Read

(* A step that leaves the walk alone                                       *)
LEMMA ReadSame ==
  ASSUME UNCHANGED <<file, cfg, level, lineno>>, pc # "config" <=> pc' # "config", NEW name
  PROVE  Read(name)' = Read(name)
BY SameCfg DEF Read

-----------------------------------------------------------------------------
(* Which files are excluded                                                *)

(* ProcessFile returns and says why.                                       *)
LEMMA EndFileExclusion ==
  ASSUME StateInv, ExcludeInv, pc \in InProcessFile, cfg' = cfg,
         NEW what \in {"excluded", "unreadable", "ignored", "linted"}, EndFile(what),
         what = "excluded" <=> ExcludedByCfg(file)
  PROVE  ExcludeInv'
<1> DEFINE x == [file |-> file, what |-> what, errors |-> error_count]
<1>1. outcome' = Append(outcome, x) /\ pc' = "files"
  BY DEF EndFile
<1>2. outcome \in Seq(Outcome) /\ x \in Outcome
  BY DEF StateInv, TypeOK, FileInv, Outcome
<1>3. \A i \in 1..Len(outcome') : i \in 1..Len(outcome) \/ i = Len(outcome) + 1
  BY <1>1, <1>2
<1>4. /\ \A i \in 1..Len(outcome) : outcome'[i] = outcome[i]
      /\ outcome'[Len(outcome) + 1] = x
  BY <1>1, <1>2, AppendProperties
<1>5. \A i \in 1..Len(outcome') :
        outcome'[i].what = "excluded" <=> ExcludedByCfg(outcome'[i].file)
  BY <1>3, <1>4 DEF ExcludeInv
<1>6. \A i \in 1..Len(outcome') :
        ExcludedByCfg(outcome'[i].file) <=> ExcludedByCfg(outcome[i].file)'
  BY SameCfg
<1>7. pc' \notin InProcessFile
  BY <1>1 DEF InProcessFile
<1> QED BY <1>5, <1>6, <1>7 DEF ExcludeInv

(* The files left keep what became of them.                                *)
LEMMA SameOutcome ==
  ASSUME ExcludeInv, cfg' = cfg, outcome' = outcome,
         pc' \in InProcessFile =>
           \A at \in Read("exclude_files")' :
             Path[file'][at[1]].base \notin At(file, at)'.names
  PROVE  ExcludeInv'
<1>1. \A i \in 1..Len(outcome') :
        ExcludedByCfg(outcome[i].file)' <=> ExcludedByCfg(outcome[i].file)
  BY SameCfg
<1> QED BY <1>1 DEF ExcludeInv

(* Whether a file is given up is what the lines up to there ask for, and   *)
(* the walk comes to all of them unless it ends at one that excludes.      *)
LEMMA ExclusionStep ==
  StateInv /\ LookInv /\ ExcludeInv /\ [Next]_vars => ExcludeInv'
<1> SUFFICES ASSUME StateInv, LookInv, ExcludeInv, [Next]_vars PROVE ExcludeInv'
  OBVIOUS
<1> DEFINE Kept(at) == Path[file][at[1]].base \notin At(file, at).names
<1>0. level \in Nat \ {0} /\ lineno \in Nat /\ (pc \in InProcessFile => file \in Files)
  BY DEF StateInv, FileInv, TypeOK
<1>1. ASSUME pc \in InProcessFile PROVE \A at \in Read("exclude_files") : Kept(at)
  BY <1>1 DEF ExcludeInv
<1>2. ASSUME pc \in {"apply", "lint"} PROVE ~ExcludedByCfg(file)
  BY <1>1, <1>2, AllRead DEF ExcludedByCfg, InProcessFile
<1>3. CASE /\ pc \in InProcessFile /\ UNCHANGED <<file, cfg, outcome>>
           /\ Read("exclude_files")' = Read("exclude_files")
  BY <1>1, <1>3, SameOutcome, SameCfg
<1>4. CASE pc' \notin InProcessFile /\ UNCHANGED <<cfg, outcome>>
  BY <1>4, SameOutcome
<1>5. CASE StartFile
  <2>1. cfg' = cfg /\ outcome' = outcome
    BY <1>5 DEF StartFile, env
  <2> QED BY <1>5, <2>1, ReadNothing, SameOutcome
<1>6. CASE Ascend
  BY <1>3, <1>6, ReadAscend DEF Ascend, env, InProcessFile
<1>7. CASE ConfigLine
  <2> DEFINE here == <<level, lineno + 1>>
             l == CfgLines(file, level)[lineno + 1]
  <2>1. /\ pc = "config" /\ pc' = pc /\ UNCHANGED <<file, cfg, level, outcome>>
        /\ lineno < Len(CfgLines(file, level)) /\ lineno' = lineno + 1
        /\ l.name = "exclude_files" => ~Excludes(l.names)
    BY <1>7 DEF ConfigLine, env, CfgLines
  <2>2. /\ At(file, here) = l
        /\ Read("exclude_files")' =
             IF l.name = "exclude_files" THEN Read("exclude_files") \cup {here}
             ELSE Read("exclude_files")
    BY <2>1, ReadLine
  <2>3. l.name = "exclude_files" => Kept(here)
    BY <2>1, <2>2 DEF Excludes
  <2>4. \A at \in Read("exclude_files")' : Kept(at)
    <3> HIDE DEF Kept, l, here
    <3> QED BY <1>1, <2>1, <2>2, <2>3 DEF InProcessFile
  <2> QED BY <2>1, <2>4, SameOutcome, SameCfg
<1>8. CASE Exclude
  <2> DEFINE here == <<level, lineno + 1>>
             l == CfgLines(file, level)[lineno + 1]
  <2>1. /\ pc = "config" /\ cfg' = cfg /\ EndFile("excluded")
        /\ lineno < Len(CfgLines(file, level))
        /\ l.name = "exclude_files" /\ Excludes(l.names)
    BY <1>8 DEF Exclude, env, CfgLines
  <2>2. here \in Asked(file, "exclude_files") /\ At(file, here) = l
    <3>1. Len(CfgLines(file, level)) \in Nat
      BY <2>1, ConfigType DEF CfgLines
    <3>2. lineno + 1 \in 1..Len(CfgLines(file, level))
      BY <1>0, <2>1, <3>1
    <3> QED BY <2>1, <3>2, LevelIsRead, AskedLines DEF At
  <2>3. ExcludedByCfg(file)
    BY <2>1, <2>2 DEF ExcludedByCfg, Excludes
  <2> QED BY <2>1, <2>3, EndFileExclusion DEF InProcessFile
<1>9. CASE ConfigEnd
  BY <1>3, <1>9, ReadEnd DEF ConfigEnd, env, InProcessFile
<1>10. CASE ApplyFilters
  <2>1. /\ pc = "apply" /\ (pc' = pc \/ pc' = "exited")
        /\ UNCHANGED <<file, cfg, level, lineno, outcome>>
    BY <1>10 DEF ApplyFilters, Exit, env
  <2> QED BY <1>3, <1>4, <2>1, ReadSame DEF InProcessFile
<1>11. CASE OpenFile
  <2>1. pc = "apply" /\ UNCHANGED <<cfg, level, lineno>>
    BY <1>11 DEF OpenFile, env, walk
  <2>2. CASE EndFile("unreadable") \/ EndFile("ignored")
    BY <1>2, <2>1, <2>2, EndFileExclusion DEF InProcessFile
  <2>3. CASE pc' = "lint" /\ UNCHANGED <<filters, outcome, file>>
    BY <1>3, <2>1, <2>3, ReadSame DEF InProcessFile
  <2> QED BY <1>11, <2>2, <2>3 DEF OpenFile
<1>12. CASE \E c \in Categories, n \in 0..5 : Error(c, n)
  <2>1. pc = "lint" /\ pc' = pc /\ UNCHANGED <<file, cfg, level, lineno, outcome>>
    BY <1>12 DEF Error, env, walk
  <2> QED BY <1>3, <2>1, ReadSame DEF InProcessFile
<1>13. CASE FinishFile
  BY <1>2, <1>13, EndFileExclusion DEF FinishFile, env, InProcessFile
<1>14. CASE GetOpt \/ ParseOption \/ FinishParse \/ BadPattern \/ FinishRun
  <2>1. UNCHANGED <<cfg, outcome>>
    BY <1>14 DEF GetOpt, ParseOption, FinishParse, BadPattern, FinishRun, env
  <2>2. pc' \notin InProcessFile
    BY <1>14 DEF GetOpt, ParseOption, FinishParse, BadPattern, FinishRun, Exit, SetLocal, Refuse,
                 ProcessHppHeadersOption, InProcessFile
  <2> QED BY <1>4, <2>1, <2>2
<1>15. CASE UNCHANGED vars
  <2>1. UNCHANGED <<pc, file, cfg, level, lineno, outcome>>
    BY <1>15 DEF vars, env, walk
  <2> QED BY <1>3, <1>4, <2>1, ReadSame
<1> QED
  BY <1>5, <1>6, <1>7, <1>8, <1>9, <1>10, <1>11, <1>12, <1>13, <1>14, <1>15 DEF Next

-----------------------------------------------------------------------------
(* Which filters decide                                                    *)

(* The last filters decide if one of them is for the category, and change  *)
(* nothing otherwise (the loop of _ShouldPrintError).                      *)
LEMMA LastFiltersDecide ==
  ASSUME NEW fs \in Seq(Filter), NEW gs \in Seq(Filter), NEW c
  PROVE  IsFiltered(fs \o gs, c) <=>
           IF Touches(gs, c) THEN IsFiltered(gs, c) ELSE IsFiltered(fs, c)
<1> DEFINE hs == fs \o gs
           m == Len(fs)
           n == Len(gs)
           For(xs, i) == c \in Matches[xs[i].prefix]
           Decides(xs, i) == xs[i].sign = "-" /\ For(xs, i)
<1>1. /\ m \in Nat /\ n \in Nat /\ Len(hs) = m + n
      /\ \A i \in 1..m : hs[i] = fs[i]
      /\ \A i \in 1..n : hs[m + i] = gs[i]
  BY ConcatProperties
<1>2. \A i \in 1..m + n : i \in 1..m \/ (i - m \in 1..n /\ i = m + (i - m))
  BY <1>1
<1>3. /\ IsFiltered(hs, c) <=> \E i \in 1..m + n : Decides(hs, i) /\ \A j \in i + 1 .. m + n : ~For(hs, j)
      /\ IsFiltered(gs, c) <=> \E i \in 1..n : Decides(gs, i) /\ \A j \in i + 1 .. n : ~For(gs, j)
      /\ IsFiltered(fs, c) <=> \E i \in 1..m : Decides(fs, i) /\ \A j \in i + 1 .. m : ~For(fs, j)
      /\ Touches(gs, c) <=> \E i \in 1..n : For(gs, i)
  BY <1>1 DEF IsFiltered, Touches
<1>4. /\ \A i \in 1..m : (For(hs, i) <=> For(fs, i)) /\ (Decides(hs, i) <=> Decides(fs, i))
      /\ \A i \in 1..n : (For(hs, m + i) <=> For(gs, i)) /\ (Decides(hs, m + i) <=> Decides(gs, i))
  BY <1>1
<1> HIDE DEF hs, m, n, For, Decides
<1>5. ASSUME NEW i \in 1..n, Decides(gs, i), \A j \in i + 1 .. n : ~For(gs, j)
      PROVE  IsFiltered(hs, c)
  <2>1. m + i \in 1..m + n /\ Decides(hs, m + i)
    BY <1>1, <1>4, <1>5
  <2>2. \A j \in (m + i) + 1 .. m + n : ~For(hs, j)
    <3> SUFFICES ASSUME NEW j \in (m + i) + 1 .. m + n PROVE ~For(hs, j)
      OBVIOUS
    <3>1. j - m \in i + 1 .. n /\ j = m + (j - m) /\ j - m \in 1..n
      BY <1>1
    <3> QED BY <1>4, <1>5, <3>1
  <2> QED BY <1>3, <2>1, <2>2
<1>6. ASSUME NEW i \in 1..m, Decides(fs, i), \A j \in i + 1 .. m : ~For(fs, j), ~Touches(gs, c)
      PROVE  IsFiltered(hs, c)
  <2>1. i \in 1..m + n /\ Decides(hs, i)
    BY <1>1, <1>4, <1>6
  <2>2. \A j \in i + 1 .. m + n : ~For(hs, j)
    <3> SUFFICES ASSUME NEW j \in i + 1 .. m + n PROVE ~For(hs, j)
      OBVIOUS
    <3>1. CASE j \in 1..m
      <4>1. j \in i + 1 .. m
        BY <1>1, <3>1
      <4> QED BY <1>4, <1>6, <3>1, <4>1
    <3>2. CASE j - m \in 1..n /\ j = m + (j - m)
      BY <1>3, <1>4, <1>6, <3>2
    <3> QED BY <1>1, <1>2, <3>1, <3>2
  <2> QED BY <1>3, <2>1, <2>2
<1>7. ASSUME NEW i \in 1..m + n, Decides(hs, i), \A j \in i + 1 .. m + n : ~For(hs, j)
      PROVE  IF Touches(gs, c) THEN IsFiltered(gs, c) ELSE IsFiltered(fs, c)
  <2>1. CASE i \in 1..m
    <3>1. \A j \in 1..n : ~For(gs, j)
      <4> SUFFICES ASSUME NEW j \in 1..n PROVE ~For(gs, j)
        OBVIOUS
      <4>1. m + j \in i + 1 .. m + n
        BY <1>1, <2>1
      <4> QED BY <1>4, <1>7, <4>1
    <3>2. \A j \in i + 1 .. m : j \in i + 1 .. m + n /\ j \in 1..m
      BY <1>1, <2>1
    <3>3. Decides(fs, i) /\ \A j \in i + 1 .. m : ~For(fs, j)
      BY <1>4, <1>7, <2>1, <3>2
    <3> QED BY <1>3, <2>1, <3>1, <3>3
  <2>2. CASE i - m \in 1..n /\ i = m + (i - m)
    <3>1. Decides(gs, i - m)
      BY <1>4, <1>7, <2>2
    <3>2. \A j \in (i - m) + 1 .. n : m + j \in i + 1 .. m + n /\ j \in 1..n
      BY <1>1, <2>2
    <3>3. \A j \in (i - m) + 1 .. n : ~For(gs, j)
      BY <1>4, <1>7, <3>2
    <3>4. Touches(gs, c)
      BY <1>3, <2>2, <3>1 DEF Decides
    <3> QED BY <1>3, <2>2, <3>1, <3>3, <3>4
  <2> QED BY <1>2, <2>1, <2>2
<1> QED BY <1>3, <1>5, <1>6, <1>7 DEF hs

(* There is one nearest line, and its filters decide.                      *)
LEMMA NearestDecides ==
  ASSUME NEW f \in Files, NEW c, NEW v, IsNearest(v, Votes(f, Asked(f, "filter"), c))
  PROVE  Decision(f, c) = At(f, v).filters
<1> DEFINE votes == Votes(f, Asked(f, "filter"), c)
<1>1. \A w \in votes : w = <<w[1], w[2]>> /\ w[1] \in Int /\ w[2] \in Int
  BY AskedLines, ReadLevelsType DEF Votes
<1>2. \A w \in votes : IsNearest(w, votes) => w = v
  <2> SUFFICES ASSUME NEW w \in votes, IsNearest(w, votes) PROVE w = v
    OBVIOUS
  <2>1. v \in votes /\ Before(v, w) /\ Before(w, v)
    BY DEF IsNearest
  <2>2. v[1] = w[1] /\ v[2] = w[2]
    BY <1>1, <2>1 DEF Before
  <2> QED BY <1>1, <2>1, <2>2
<1>3. v \in votes
  BY DEF IsNearest
<1> HIDE DEF votes
<1>4. (CHOOSE w \in votes : IsNearest(w, votes)) = v
  BY <1>2, <1>3, SMTT(30) DEF votes
<1> QED BY <1>3, <1>4, Zenon DEF Decision, votes

(* What is collected stays if the walk comes to no filter line             *)
LEMMA SameCollected ==
  ASSUME UNCHANGED <<file, cfg, cfg_filters>>, NEW lines, NEW c
  PROVE  /\ NoneTouches(c)' <=> NoneTouches(c)
         /\ NearestFirst(c, lines)' <=> NearestFirst(c, lines)
<1>1. Votes(file, lines, c)' = Votes(file, lines, c) /\ \A v : At(file, v)' = At(file, v)
  BY SameCfg DEF Votes
<1>2. NoneTouches(c)' <=> NoneTouches(c)
  BY DEF NoneTouches
<1>3. NearestFirst(c, lines)' <=> NearestFirst(c, lines)
  BY <1>1, Zenon DEF NearestFirst
<1> QED BY <1>2, <1>3, Zenon

(* A step that reads no filter leaves what the lists say alone.          *)
LEMMA SameRead ==
  ASSUME UNCHANGED <<file, cfg, cfg_filters>>, Read("filter")' = Read("filter"), NEW c
  PROVE  /\ NoneTouches(c)' <=> NoneTouches(c)
         /\ NearestFirst(c, Read("filter"))' <=> NearestFirst(c, Read("filter"))
         /\ Votes(file, Read("filter"), c)' = Votes(file, Read("filter"), c)
<1>1. Votes(file, Read("filter"), c)' = Votes(file, Read("filter"), c)
  BY Zenon DEF Votes, Touches, At, CfgLines
<1>2. \A v : At(file, v)' = At(file, v)
  BY SameCfg
<1>3. NoneTouches(c)' <=> NoneTouches(c)
  BY DEF NoneTouches, Touches
<1>4. NearestFirst(c, Read("filter"))' <=> NearestFirst(c, Read("filter"))
  BY <1>1, <1>2, Zenon DEF NearestFirst
<1> QED BY <1>1, <1>3, <1>4, Zenon

(* The list of one more line goes behind those of the nearer lines         *)
LEMMA CollectLine ==
  ASSUME StateInv, LookInv, CollectInv, ConfigLine,
         CfgLines(file, level)[lineno + 1].name = "filter"
  PROVE  CollectInv'
<1> DEFINE here == <<level, lineno + 1>>
           l == CfgLines(file, level)[lineno + 1]
           n == Len(cfg_filters)
           lines == Read("filter")
<1>1. /\ pc = "config" /\ pc' = pc /\ UNCHANGED <<file, cfg, level, filters, local>>
      /\ lineno < Len(CfgLines(file, level)) /\ lineno' = lineno + 1
      /\ cfg_filters' = Append(cfg_filters, l.filters)
  BY DEF ConfigLine, env, parse, state, CfgLines, Collected
<1>2. /\ At(file, here) = l
      /\ lines' = lines \cup {here}
      /\ \A at \in lines : Before(at, here)
  BY <1>1, ReadLine
<1>3. n \in Nat /\ cfg_filters \in Seq(Seq(Filter)) /\ l.filters \in Seq(Filter)
  <2>1. lineno + 1 \in 1..Len(CfgLines(file, level))
    <3>1. Len(CfgLines(file, level)) \in Nat /\ lineno \in Nat
      BY <1>1, ConfigType DEF CfgLines, StateInv, TypeOK
    <3> QED BY <1>1, <3>1
  <2>2. IsCfgLine(l)
    BY <1>1, <2>1, ConfigType DEF CfgLines
  <2>3. cfg_filters \in Seq(Seq(Filter))
    BY DEF StateInv, TypeOK
  <2> QED BY <2>2, <2>3 DEF IsCfgLine
<1>4. /\ Len(cfg_filters') = n + 1
      /\ \A i \in 1..n : cfg_filters'[i] = cfg_filters[i]
      /\ cfg_filters'[n + 1] = l.filters
  BY <1>1, <1>3, AppendProperties
<1>5. level \in Int /\ lineno + 1 \in Int
  BY DEF StateInv, TypeOK
<1>7. \A c : Votes(file, lines, c)' = Votes(file, lines', c)
  BY <1>1 DEF Votes, Touches, At, CfgLines
<1> HIDE DEF l, n
<1>6. ASSUME NEW c \in Categories
      PROVE  IF Votes(file, lines', c) = {} THEN NoneTouches(c)' ELSE NearestFirst(c, lines)'
  <2>1. Votes(file, lines', c) =
          IF Touches(l.filters, c) THEN Votes(file, lines, c) \cup {here}
          ELSE Votes(file, lines, c)
    BY <1>2 DEF Votes
  <2>2. Votes(file, lines, c)' = Votes(file, lines', c)
    BY <1>7
  <2>3. \A at : At(file, at)' = At(file, at)
    BY <1>1, SameCfg
  <2>4. CASE Votes(file, lines, c) = {} /\ ~Touches(l.filters, c)
    <3>1. NoneTouches(c)
      BY <1>1, <2>4 DEF CollectInv
    <3>2. \A i \in 1..n + 1 : i \in 1..n \/ i = n + 1
      BY <1>3
    <3>3. NoneTouches(c)'
      BY <1>4, <2>4, <3>1, <3>2 DEF NoneTouches, Touches, n
    <3> QED BY <2>1, <2>4, <3>3
  <2>5. CASE Votes(file, lines, c) = {} /\ Touches(l.filters, c)
    <3>1. NoneTouches(c)
      BY <1>1, <2>5 DEF CollectInv
    <3>2. Votes(file, lines', c) = {here}
      BY <2>1, <2>5
    <3>3. IsNearest(here, Votes(file, lines', c))
      BY <1>5, <3>2 DEF IsNearest, Before
    <3>4. n + 1 \in 1..Len(cfg_filters') /\ \A j \in 1..(n + 1) - 1 : j \in 1..n
      BY <1>3, <1>4
    <3>5. /\ Touches(cfg_filters'[n + 1], c)
          /\ \A j \in 1..(n + 1) - 1 : ~Touches(cfg_filters'[j], c)
          /\ cfg_filters'[n + 1] = At(file, here).filters
      BY <1>2, <1>4, <2>5, <3>1, <3>4 DEF NoneTouches, n
    <3>6. NearestFirst(c, lines)'
      <4>1. here \in lines' /\ IsNearest(here, Votes(file, lines, c)')
        BY <1>2, <2>2, <3>3
      <4> HIDE DEF here, lines
      <4> QED BY <2>3, <3>4, <3>5, <4>1 DEF NearestFirst, Touches, IsNearest, Before
    <3> QED BY <3>2, <3>6
  <2>6. CASE Votes(file, lines, c) # {}
    <3>1. NearestFirst(c, lines)
      BY <1>1, <2>6 DEF CollectInv
    <3>2. PICK i \in 1..n, v \in lines :
            /\ Touches(cfg_filters[i], c)
            /\ \A j \in 1..i - 1 : ~Touches(cfg_filters[j], c)
            /\ IsNearest(v, Votes(file, lines, c))
            /\ cfg_filters[i] = At(file, v).filters
      BY <3>1 DEF NearestFirst, n
    <3>3. IsNearest(v, Votes(file, lines', c))
      BY <1>2, <2>1, <3>2 DEF IsNearest
    <3>4. i \in 1..Len(cfg_filters') /\ \A j \in 1..i - 1 : j \in 1..n
      BY <1>3, <1>4
    <3>5. /\ Touches(cfg_filters'[i], c)
          /\ \A j \in 1..i - 1 : ~Touches(cfg_filters'[j], c)
          /\ cfg_filters'[i] = At(file, v).filters
      BY <1>4, <3>2, <3>4
    <3>6. NearestFirst(c, lines)'
      <4>1. v \in lines' /\ IsNearest(v, Votes(file, lines, c)')
        BY <1>2, <2>2, <3>2, <3>3
      <4> HIDE DEF lines
      <4> QED BY <2>3, <3>4, <3>5, <4>1 DEF NearestFirst, Touches, IsNearest, Before
    <3>7. Votes(file, lines', c) # {}
      BY <2>1, <2>6
    <3> QED BY <3>6, <3>7
  <2> QED BY <2>4, <2>5, <2>6
<1>8. filters = CmdFilters /\ filters' = filters /\ CmdFilters' = CmdFilters
  BY <1>1 DEF CollectInv, CmdFilters
<1> QED BY <1>1, <1>6, <1>7, <1>8 DEF CollectInv

(* The last list is applied: the lists of the nearer lines are still there *)
(* to overrule it, or it is the nearest itself                             *)
LEMMA ApplyLast ==
  ASSUME StateInv, CollectInv, ApplyFilters, pc' = "apply"
  PROVE  CollectInv'
<1> DEFINE n == Len(cfg_filters)
           last == cfg_filters[n]
           lines == Asked(file, "filter")
<1>1. /\ pc = "apply" /\ UNCHANGED <<file, cfg, local>> /\ cfg_filters # <<>>
      /\ filters' = filters \o last /\ cfg_filters' = SubSeq(cfg_filters, 1, n - 1)
  BY DEF ApplyFilters, env, parse
<1>2. /\ cfg_filters \in Seq(Seq(Filter)) /\ filters \in Seq(Filter) /\ file \in Files
      /\ n \in Nat /\ n >= 1 /\ last \in Seq(Filter)
  <2>1. cfg_filters \in Seq(Seq(Filter)) /\ filters \in Seq(Filter) /\ file \in Files
    BY <1>1 DEF StateInv, TypeOK, FileInv, InProcessFile
  <2>2. n \in Nat /\ n >= 1
    BY <1>1, <2>1
  <2> QED BY <2>1, <2>2
<1>3. Len(cfg_filters') = n - 1 /\ \A i \in 1..n - 1 : cfg_filters'[i] = cfg_filters[i]
  <2>1. n - 1 \in Int /\ \A i \in 1..n - 1 : cfg_filters[i] \in Seq(Filter)
    BY <1>2
  <2> HIDE DEF last, n
  <2>2. /\ Len(SubSeq(cfg_filters, 1, n - 1)) = IF 1 <= n - 1 THEN n - 1 - 1 + 1 ELSE 0
        /\ \A i \in 1..n - 1 - 1 + 1 : SubSeq(cfg_filters, 1, n - 1)[i] = cfg_filters[1 + i - 1]
    BY <2>1, SubSeqProperties
  <2>3. \A i \in 1..n - 1 : i \in 1..n - 1 - 1 + 1 /\ 1 + i - 1 = i
    BY <1>2
  <2>4. (IF 1 <= n - 1 THEN n - 1 - 1 + 1 ELSE 0) = n - 1
    BY <1>2
  <2> QED BY <1>1, <2>2, <2>3, <2>4
<1> HIDE DEF n, last
<1>4. ASSUME NEW c \in Categories
      PROVE  \/ NearestFirst(c, lines)'
             \/ NoneTouches(c)' /\ (IsFiltered(filters', c) <=> IsFiltered(Decision(file, c), c))
  <2>1. IsFiltered(filters', c) <=>
          IF Touches(last, c) THEN IsFiltered(last, c) ELSE IsFiltered(filters, c)
    BY <1>1, <1>2, LastFiltersDecide
  <2>2. CASE NoneTouches(c) /\ (IsFiltered(filters, c) <=> IsFiltered(Decision(file, c), c))
    <3>1. ~Touches(last, c)
      BY <1>2, <2>2 DEF NoneTouches, n, last
    <3>2. \A i \in 1..n - 1 : i \in 1..n
      BY <1>2
    <3>3. NoneTouches(c)'
      BY <1>3, <2>2, <3>2 DEF NoneTouches, Touches, n
    <3> QED BY <2>1, <2>2, <3>1, <3>3
  <2>3. CASE NearestFirst(c, lines)
    <3>1. PICK i \in 1..n, v \in lines :
            /\ Touches(cfg_filters[i], c)
            /\ \A j \in 1..i - 1 : ~Touches(cfg_filters[j], c)
            /\ IsNearest(v, Votes(file, lines, c))
            /\ cfg_filters[i] = At(file, v).filters
      BY <2>3 DEF NearestFirst, n
    <3>2. CASE i = n
      <4>1. Decision(file, c) = last
        BY <1>2, <3>1, <3>2, NearestDecides DEF last
      <4>2. IsFiltered(filters', c) <=> IsFiltered(Decision(file, c), c)
        BY <2>1, <3>1, <3>2, <4>1 DEF last
      <4>3. NoneTouches(c)'
        BY <1>3, <3>1, <3>2 DEF NoneTouches, Touches
      <4> QED BY <4>2, <4>3
    <3>3. CASE i # n
      <4>1. i \in 1..n - 1 /\ \A j \in 1..i - 1 : j \in 1..n - 1
        BY <1>2, <3>3
      <4>2. /\ i \in 1..Len(cfg_filters') /\ Touches(cfg_filters'[i], c)
            /\ \A j \in 1..i - 1 : ~Touches(cfg_filters'[j], c)
            /\ cfg_filters'[i] = At(file, v).filters
        BY <1>3, <3>1, <4>1
      <4>3. \A at : At(file, at)' = At(file, at)
        BY <1>1, SameCfg
      <4>4. lines' = lines
        BY <1>1, SameCfg
      <4>5. Votes(file, lines, c)' = Votes(file, lines, c)
        BY <1>1, <4>3, <4>4 DEF Votes, Touches
      <4>6. NearestFirst(c, lines)'
        <5> HIDE DEF lines
        <5> QED BY <3>1, <4>2, <4>3, <4>4, <4>5 DEF NearestFirst, Touches, IsNearest, Before
      <4> QED BY <4>6
    <3> QED BY <3>2, <3>3
  <2> QED BY <1>1, <2>2, <2>3 DEF CollectInv
<1>5. \A c : Decision(file, c)' = Decision(file, c)
  BY <1>1, SameDecision
<1>6. \A c : IsFiltered(filters, c)' <=> IsFiltered(filters', c)
  BY DEF IsFiltered
<1>7. \A c : IsFiltered(Decision(file, c), c)' <=> IsFiltered(Decision(file, c), c)
  BY <1>5 DEF IsFiltered
<1> QED BY <1>4, <1>6, <1>7 DEF CollectInv

(* A step that leaves the lists, the filters and the lines read alone       *)
LEMMA CollectSame ==
  ASSUME CollectInv, UNCHANGED <<file, cfg, cfg_filters, filters, local>>,
         \/ /\ pc \in {"walk", "config"} /\ pc' \in {"walk", "config"}
            /\ Read("filter")' = Read("filter")
         \/ /\ pc \in {"apply", "lint"} /\ pc' \in {"apply", "lint"}
            /\ pc' = "lint" => cfg_filters = <<>>
  PROVE  CollectInv'
<1>1. CASE /\ pc \in {"walk", "config"} /\ pc' \in {"walk", "config"}
           /\ Read("filter")' = Read("filter")
  <2>1. filters' = CmdFilters'
    BY <1>1 DEF CollectInv, CmdFilters
  <2>2. ASSUME NEW c \in Categories
        PROVE  IF Votes(file, Read("filter"), c)' = {}
               THEN NoneTouches(c)' ELSE NearestFirst(c, Read("filter"))'
    BY <1>1, SameRead DEF CollectInv
  <2> QED BY <1>1, <2>1, <2>2 DEF CollectInv
<1>2. CASE /\ pc \in {"apply", "lint"} /\ pc' \in {"apply", "lint"}
           /\ pc' = "lint" => cfg_filters = <<>>
  <2> DEFINE lines == Asked(file, "filter")
  <2>1. lines' = lines /\ \A v : At(file, v)' = At(file, v)
    BY SameCfg
  <2>2. ASSUME NEW c \in Categories
        PROVE  \/ NearestFirst(c, lines)'
               \/ NoneTouches(c)' /\ (IsFiltered(filters, c)' <=> IsFiltered(Decision(file, c), c)')
    <3>1. Votes(file, lines, c)' = Votes(file, lines, c)
      BY <2>1 DEF Votes, Touches
    <3>2. NoneTouches(c)' <=> NoneTouches(c)
      BY DEF NoneTouches, Touches
    <3>3. NearestFirst(c, lines)' <=> NearestFirst(c, lines)
      <4> HIDE DEF lines
      <4> QED BY <2>1, <3>1 DEF NearestFirst, Touches, IsNearest, Before
    <3>4. Decision(file, c)' = Decision(file, c)
      BY SameDecision
    <3>5. /\ IsFiltered(Decision(file, c), c)' <=> IsFiltered(Decision(file, c), c)
          /\ IsFiltered(filters, c)' <=> IsFiltered(filters, c)
      BY <3>4 DEF IsFiltered
    <3> QED BY <1>2, <3>2, <3>3, <3>5 DEF CollectInv
  <2> QED BY <1>2, <2>2 DEF CollectInv
<1> QED BY <1>1, <1>2

(* When the walk is over, what was collected is all that was asked for     *)
LEMMA CollectOver ==
  ASSUME StateInv, LookInv, CollectInv, pc = "walk", pc' = "apply",
         ~(keep_looking /\ level <= Len(Path[file])),
         UNCHANGED <<file, cfg, cfg_filters, filters, local>>
  PROVE  CollectInv'
<1> DEFINE lines == Asked(file, "filter")
<1>1. Read("filter") = lines
  <2>1. file \in Files /\ level \in Nat /\ Len(Path[file]) \in Nat
    BY PathType DEF StateInv, TypeOK, FileInv, InProcessFile
  <2>2. ~keep_looking \/ level > Len(Path[file])
    BY <2>1
  <2> QED BY <2>2, WalkIsOver
<1>2. lines' = lines /\ \A v : At(file, v)' = At(file, v)
  BY SameCfg
<1>3. ASSUME NEW c \in Categories
      PROVE  \/ NearestFirst(c, lines)'
             \/ NoneTouches(c)' /\ (IsFiltered(filters, c)' <=> IsFiltered(Decision(file, c), c)')
  <2>1. Votes(file, lines, c)' = Votes(file, lines, c)
    BY <1>2 DEF Votes, Touches
  <2>2. NoneTouches(c)' <=> NoneTouches(c)
    BY DEF NoneTouches, Touches
  <2>3. NearestFirst(c, lines)' <=> NearestFirst(c, lines)
    <3> HIDE DEF lines
    <3> QED BY <1>2, <2>1, Zenon DEF NearestFirst
  <2>4. Decision(file, c)' = Decision(file, c)
    BY SameDecision
  <2>5. /\ IsFiltered(Decision(file, c), c)' <=> IsFiltered(Decision(file, c), c)
        /\ IsFiltered(filters, c)' <=> IsFiltered(filters, c)
    BY <2>4 DEF IsFiltered
  <2>6. CASE Votes(file, lines, c) = {}
    <3>1. NoneTouches(c) /\ filters = CmdFilters
      BY <1>1, <2>6 DEF CollectInv
    <3>2. Decision(file, c) = CmdFilters
      BY <2>6 DEF Decision
    <3>3. IsFiltered(filters, c) <=> IsFiltered(Decision(file, c), c)
      BY <3>1, <3>2
    <3> QED BY <2>2, <2>5, <3>1, <3>3
  <2>7. CASE Votes(file, lines, c) # {}
    BY <1>1, <2>3, <2>7 DEF CollectInv
  <2> QED BY <2>6, <2>7
<1> QED BY <1>3 DEF CollectInv

(* ProcessFile starts with the filters of the command line and no lists.   *)
LEMMA CollectNothing ==
  ASSUME StateInv, StartFile
  PROVE  CollectInv'
<1>1. pc' = "walk" /\ cfg_filters' = <<>> /\ UNCHANGED <<filters, local>> /\ pc = "files"
  BY DEF StartFile, parse
<1>2. filters' = CmdFilters'
  BY <1>1 DEF StateInv, FiltersRestored, CmdFilters
<1>3. Read("filter")' = {}
  BY ReadNothing
<1>4. ASSUME NEW c \in Categories
      PROVE  Votes(file, Read("filter"), c)' = {} /\ NoneTouches(c)'
  <2>1. Votes(file, Read("filter"), c)' = {}
    BY <1>3 DEF Votes
  <2>2. Len(cfg_filters') = 0
    BY <1>1
  <2> QED BY <2>1, <2>2 DEF NoneTouches
<1> QED BY <1>1, <1>2, <1>4 DEF CollectInv

(* Whatever filters the CPPLINT.cfg files have and wherever they are, the  *)
(* nearest one ends up where it decides.                                   *)
LEMMA CollectStep ==
  StateInv /\ LookInv /\ CollectInv /\ [Next]_vars => CollectInv'
<1> SUFFICES ASSUME StateInv, LookInv, CollectInv, [Next]_vars PROVE CollectInv'
  OBVIOUS
<1>1. CASE pc' \notin InProcessFile
  BY <1>1 DEF CollectInv, InProcessFile
<1>2. CASE StartFile
  BY <1>2, CollectNothing
<1>3. CASE Ascend
  <2>1. pc = "walk" /\ UNCHANGED <<file, cfg, cfg_filters, filters, local>>
    BY <1>3 DEF Ascend, env, state, parse
  <2>2. CASE keep_looking /\ level <= Len(Path[file])
    <3>1. pc' \in {"walk", "config"}
      BY <1>3, <2>1, <2>2 DEF Ascend
    <3> QED BY <1>3, <2>1, <3>1, ReadAscend, CollectSame
  <2>3. CASE ~(keep_looking /\ level <= Len(Path[file]))
    <3>1. pc' = "apply"
      BY <1>3, <2>3 DEF Ascend
    <3> QED BY <2>1, <2>3, <3>1, CollectOver
  <2> QED BY <2>2, <2>3
<1>4. CASE ConfigLine
  <2> DEFINE l == CfgLines(file, level)[lineno + 1]
  <2>1. CASE l.name = "filter"
    BY <1>4, <2>1, CollectLine
  <2>2. CASE l.name # "filter"
    <3>1. /\ pc = "config" /\ pc' = pc /\ UNCHANGED <<file, cfg, level, filters, local, cfg_filters>>
          /\ lineno < Len(CfgLines(file, level)) /\ lineno' = lineno + 1
      BY <1>4, <2>2 DEF ConfigLine, env, parse, state, CfgLines
    <3>2. Read("filter")' = Read("filter")
      BY <2>2, <3>1, ReadLine
    <3> QED BY <3>1, <3>2, CollectSame
  <2> QED BY <2>1, <2>2
<1>5. CASE ConfigEnd
  <2>1. pc = "config" /\ pc' = "walk" /\ UNCHANGED <<file, cfg, cfg_filters, filters, local>>
    BY <1>5 DEF ConfigEnd, env, state, parse
  <2> QED BY <1>5, <2>1, ReadEnd, CollectSame
<1>6. CASE ApplyFilters
  <2>1. pc' = "apply" \/ pc' = "exited"
    BY <1>6 DEF ApplyFilters, Exit
  <2> QED BY <1>1, <1>6, <2>1, ApplyLast DEF InProcessFile
<1>7. CASE OpenFile
  <2>1. CASE EndFile("unreadable") \/ EndFile("ignored")
    BY <1>1, <2>1 DEF EndFile, InProcessFile
  <2>2. CASE pc' = "lint" /\ UNCHANGED <<filters, outcome, file>>
    <3>1. /\ pc = "apply" /\ cfg_filters = <<>>
          /\ UNCHANGED <<file, cfg, cfg_filters, filters, local>>
      BY <1>7, <2>2 DEF OpenFile, env, parse, walk
    <3> QED BY <2>2, <3>1, CollectSame
  <2> QED BY <1>7, <2>1, <2>2 DEF OpenFile
<1>8. CASE \E c \in Categories, n \in 0..5 : Error(c, n)
  <2>1. pc = "lint" /\ pc' = pc /\ UNCHANGED <<file, cfg, cfg_filters, filters, local>>
    BY <1>8 DEF Error, env, walk, parse
  <2>2. cfg_filters = <<>>
    BY <2>1 DEF CollectInv
  <2> QED BY <2>1, <2>2, CollectSame
<1>9. CASE Exclude \/ FinishFile
  BY <1>1, <1>9 DEF Exclude, FinishFile, EndFile, InProcessFile
<1>10. CASE GetOpt \/ ParseOption \/ FinishParse \/ BadPattern \/ FinishRun
  BY <1>1, <1>10 DEF GetOpt, ParseOption, FinishParse, BadPattern, FinishRun, Exit, SetLocal,
                     Refuse, ProcessHppHeadersOption, InProcessFile
<1>11. CASE UNCHANGED vars
  <2>1. UNCHANGED <<pc, file, cfg, level, lineno, cfg_filters, filters, local>>
    BY <1>11 DEF vars, env, walk, state, parse
  <2>2. CASE pc \in {"walk", "config"}
    BY <2>1, <2>2, ReadSame, CollectSame
  <2>3. CASE pc \in {"apply", "lint"}
    <3>1. pc = "lint" => cfg_filters = <<>>
      BY DEF CollectInv
    <3> QED BY <2>1, <2>3, <3>1, CollectSame
  <2>4. CASE pc \notin InProcessFile
    BY <1>1, <2>1, <2>4
  <2> QED BY <2>2, <2>3, <2>4 DEF InProcessFile
<1> QED
  BY <1>2, <1>3, <1>4, <1>5, <1>6, <1>7, <1>8, <1>9, <1>10, <1>11 DEF Next

-----------------------------------------------------------------------------
(* The program starts with no file in its hands.                           *)
LEMMA InitRunInv == Init => RunInv
<1> SUFFICES ASSUME Init PROVE RunInv
  OBVIOUS
<1>1. pc = "getopt" /\ status = None /\ outcome = <<>> /\ error_count = 0
  BY DEF Init
<1>2. StateInv
  BY InitStateInv
<1>3. QueueInv
  BY <1>1 DEF QueueInv, InProcessFile
<1>4. LookInv
  BY <1>1 DEF LookInv
<1>5. CollectInv
  BY <1>1 DEF CollectInv
<1>6. ExcludeInv
  <2>1. Len(outcome) = 0
    BY <1>1
  <2> QED BY <1>1, <2>1 DEF ExcludeInv, InProcessFile
<1> QED BY <1>2, <1>3, <1>4, <1>5, <1>6 DEF RunInv

(* Every step keeps the invariant.                                       *)
LEMMA NextRunInv == RunInv /\ [Next]_vars => RunInv'
BY NextStateInv, QueueStep, LookStep, CollectStep, ExclusionStep DEF RunInv

(* In every run, whatever the command line and the CPPLINT.cfg files, the  *)
(* inductive invariant holds: the types and the backup ProcessFile takes,  *)
(* the files in the order of the command line, and what                    *)
(* ProcessConfigOverrides has collected and met in its walk.               *)
THEOREM RunInvHolds == Spec => []RunInv
<1> QED
  BY InitRunInv, NextRunInv, PTL DEF Spec

(* What CPPLINT.cfg files add to the filters never reaches another file:   *)
(* ProcessFile restores the filters of the command line on each of its     *)
(* returns, however many files, directories and filters there are.         *)
THEOREM FiltersAlwaysRestored == Spec => []FiltersRestored
<1>1. RunInv => FiltersRestored
  BY DEF RunInv, StateInv
<1> QED
  BY <1>1, RunInvHolds, PTL

(* However many CPPLINT.cfg files with however many filters lie above a    *)
(* file, the innermost that has a filter for a category decides about it   *)
(* (ProcessConfigOverrides applies the lists in reverse order).            *)
THEOREM NestedConfigWins == Spec => []NestedCfgWins
<1>1. RunInv => NestedCfgWins
  <2> SUFFICES ASSUME RunInv, pc = "lint", NEW c \in Categories
               PROVE  IsFiltered(filters, c) <=> IsFiltered(Decision(file, c), c)
    BY DEF NestedCfgWins
  <2>1. Len(cfg_filters) = 0
    BY DEF RunInv, CollectInv
  <2>2. ~NearestFirst(c, Asked(file, "filter"))
    BY <2>1 DEF NearestFirst
  <2> QED BY <2>2 DEF RunInv, CollectInv
<1> QED
  BY <1>1, RunInvHolds, PTL

(* However deep its directory, a file is given up as excluded if and only  *)
(* if a line that the walk reaches has a pattern for it                    *)
(* (ProcessConfigOverrides and the early return of ProcessFile).           *)
THEOREM ExclusionIsHonoured == Spec => []ExclusionHonoured
<1>1. RunInv => ExclusionHonoured
  <2> SUFFICES ASSUME RunInv PROVE ExclusionHonoured
    OBVIOUS
  <2>1. StateInv /\ LookInv /\ ExcludeInv
    BY DEF RunInv
  <2>2. ASSUME pc = "lint" PROVE ~ExcludedByCfg(file)
    BY <2>1, <2>2, AllRead DEF ExcludeInv, ExcludedByCfg, InProcessFile
  <2> QED BY <2>1, <2>2 DEF ExclusionHonoured, ExcludeInv
<1> QED
  BY <1>1, RunInvHolds, PTL

(* Every run, of any length, is a run of the contract: the files in the    *)
(* order of the command line and each once, errors counted of no file but  *)
(* one that is linted, and the exit status of what was counted (main,      *)
(* ProcessFile).                                                           *)
THEOREM RunImplementsContract == Spec => ImplementsContract
<1>1. Init => Contract!Init
  <2> SUFFICES ASSUME Init PROVE Contract!Init
    OBVIOUS
  <2>1. TypeOK /\ outcome = <<>> /\ error_count = 0 /\ status = None
    BY InitStateInv DEF Init, StateInv
  <2>2. Remaining = cmdline.files
    BY <2>1, RemainingFirst
  <2>3. cmdline \in CmdLines
    BY <2>1 DEF TypeOK
  <2> QED BY <2>1, <2>2, <2>3 DEF Contract!Init
<1>2. RunInv /\ [Next]_vars => [Contract!Next]_(Contract!vars)
  BY ContractStep DEF RunInv
<1> QED
  BY <1>1, <1>2, RunInvHolds, PTL DEF Spec, ImplementsContract, Contract!Spec

=============================================================================

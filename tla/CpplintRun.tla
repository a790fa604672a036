------------------------------ MODULE CpplintRun ------------------------------
(***************************************************************************)
(* One run of cpplint.py, from main() to sys.exit(): the command line is   *)
(* parsed, then the files are linted one after the other.  Before each     *)
(* file the CPPLINT.cfg files of its directory and of the directories      *)
(* above are read, and they change module-wide state: the list of message  *)
(* filters, which ProcessFile backs up and restores, and the line length,  *)
(* the root and the header extensions, which nothing restores.             *)
(*                                                                         *)
(* What is found in a file is not modelled here: a report that no NOLINT   *)
(* comment suppresses is any category with any confidence (LintFile models *)
(* the suppressions).  Text is abstract: a filter is a sign and a prefix,  *)
(* and Matches says which categories start with the prefix.                *)
(***************************************************************************)
EXTENDS Integers, Sequences

CONSTANTS
  Files,        \* the file names the command line may give
  Stdin,        \* the file name "-"
  Dirs,         \* the directories that may hold a CPPLINT.cfg
  Path,         \* the steps of the walk from a file up to the root directory:
                \* each has the directory "dir" and the component "base" below it
  Ext,          \* the extension of a file name
  Exts,         \* all file extensions
  Roots,        \* values of --root
  Categories,   \* the error categories
  TopLevel,     \* the part of a category before its first slash
  Prefixes,     \* what may follow the sign of a filter
  Matches,      \* the categories that start with a prefix
  IncludeAlpha, \* the prefix of the only default filter
  CmdLines,     \* the command lines: options and file names
  CfgFiles,     \* what a directory may hold: a CPPLINT.cfg, or none
  Environments, \* the command lines, each with the CPPLINT.cfg files it meets
  Absent,       \* no CPPLINT.cfg in the directory
  Unreadable,   \* a CPPLINT.cfg that open() refuses
  Malformed,    \* text that int() or re.compile() refuses
  None,         \* Python's None, and "no file"
  MaxErrors     \* bound of the model: errors counted in a run

-----------------------------------------------------------------------------

(* The keys of errors_by_category *)
Keys == Categories \cup {TopLevel[c] : c \in Categories}

Filter == [sign : {"-", "+", "unsigned"}, prefix : Prefixes]

(* A value that does not have the form the option asks for stands for all  *)
(* the texts that the code refuses.                                        *)
IsCmdOption(o) ==
  /\ o.opt \in {"--help", "--output", "--verbose", "--filter", "--counting",
                "--root", "--linelength", "--extensions", "--headers", "unknown"}
  /\ o.opt = "--output" => o.text \in {"emacs", "vs7", "eclipse", "other"}
  /\ o.opt = "--verbose" => o.num \in Int \cup {Malformed}
  /\ o.opt = "--filter" => o.filters \in Seq(Filter)
  /\ o.opt = "--counting" => o.text \in {"total", "toplevel", "detailed", "other"}
  /\ o.opt = "--root" => o.root \in Roots
  /\ o.opt = "--linelength" => o.num \in Int \cup {Malformed}
  /\ o.opt = "--extensions" => o.exts \in SUBSET Exts
  /\ o.opt = "--headers" => o.exts \in SUBSET Exts

(* A line of a CPPLINT.cfg; the value of exclude_files is the set of path  *)
(* components its pattern matches, or no regular expression at all.        *)
IsCfgLine(l) ==
  /\ l.name \in {"set noparent", "filter", "exclude_files", "linelength",
                 "root", "headers", "other"}
  /\ l.name = "filter" => l.filters \in Seq(Filter)
  /\ l.name = "linelength" => l.num \in Int \cup {Malformed}
  /\ l.name = "root" => l.root \in Roots
  /\ l.name = "headers" => l.exts \in SUBSET Exts

ASSUME RunAssumption ==
  /\ \A f \in Files : Path[f] \in Seq([dir : Dirs, base : STRING])
  /\ \A f \in Files : Ext[f] \in Exts
  /\ {"cc", "h", "cpp", "cu", "cuh"} \subseteq Exts
  /\ \A p \in Prefixes : Matches[p] \subseteq Categories
  /\ IncludeAlpha \in Prefixes
  /\ \A c \in CmdLines : /\ c.files \in Seq(Files)
                         /\ Len(c.opts) \in Nat
                         /\ \A i \in 1..Len(c.opts) : IsCmdOption(c.opts[i])
  /\ \A c \in CfgFiles \ {Absent, Unreadable} :
       /\ Len(c) \in Nat
       /\ \A i \in 1..Len(c) : IsCfgLine(c[i])
  /\ \A e \in Environments : e.command \in CmdLines /\ e.cfg \in [Dirs -> CfgFiles]
  /\ {Malformed, None} \cap (Int \cup Files \cup Roots) = {}
  /\ Absent # Unreadable
  /\ MaxErrors \in Nat

-----------------------------------------------------------------------------

VARIABLES
  pc,                 \* where the program is
  cmdline,            \* sys.argv, fixed by the environment
  opt,                \* options of the command line already handled
  local,              \* the local variables of ParseArguments
  queue,              \* the file names not yet handed to ProcessFile
  file,               \* the filename ProcessFile works on
  filters,            \* _cpplint_state.filters
  filters_backup,     \* _cpplint_state._filters_backup
  verbose_level,      \* _cpplint_state.verbose_level
  counting,           \* _cpplint_state.counting
  output_format,      \* _cpplint_state.output_format
  error_count,        \* _cpplint_state.error_count
  errors_by_category, \* _cpplint_state.errors_by_category, 0 for a missing key
  line_length,        \* _line_length
  root,               \* _root
  hpp_headers,        \* _hpp_headers
  valid_extensions,   \* _valid_extensions
  cfg,                \* the CPPLINT.cfg files on disk, fixed by the environment
  level,              \* step of the walk of ProcessConfigOverrides
  lineno,             \* lines of the current CPPLINT.cfg already handled
  keep_looking,       \* local variable of ProcessConfigOverrides
  cfg_filters,        \* local variable of ProcessConfigOverrides
  outcome,            \* history: what became of the files handled, and the errors
                      \* counted when they ended, in order
  status              \* the exit status of the process

state == <<filters, filters_backup, verbose_level, counting, output_format,
           error_count, errors_by_category>>
settings == <<line_length, root, hpp_headers, valid_extensions>>
walk == <<level, lineno, keep_looking, cfg_filters>>
parse == <<opt, local>>
env == <<cmdline, cfg>>
vars == <<pc, parse, env, queue, file, state, settings, walk, outcome, status>>

DefaultFilters == <<[sign |-> "-", prefix |-> IncludeAlpha]>>

Init ==
  /\ pc = "getopt"
  /\ \E e \in Environments : cmdline = e.command /\ cfg = e.cfg
  /\ opt = 0
  /\ local = [verbosity |-> 1, output_format |-> "emacs",
              filters |-> <<>>, counting_style |-> "unset"]
  /\ queue = <<>>
  /\ file = None
  /\ filters = DefaultFilters
  /\ filters_backup = DefaultFilters
  /\ verbose_level = 1
  /\ counting = "total"
  /\ output_format = "emacs"
  /\ error_count = 0
  /\ errors_by_category = [k \in Keys |-> 0]
  /\ line_length = 80
  /\ root = None
  /\ hpp_headers = {"h"}
  /\ valid_extensions = {"cc", "h", "cpp", "cu", "cuh"}
  /\ level = 1
  /\ lineno = 0
  /\ keep_looking = TRUE
  /\ cfg_filters = <<>>
  /\ outcome = <<>>
  /\ status = None

(* sys.exit, and the traceback of an exception nothing catches *)
Exit(code) ==
  /\ pc' = "exited"
  /\ status' = code

-----------------------------------------------------------------------------
(* ParseArguments; "unset" is its empty string *)

(* getopt.getopt looks at the whole command line first *)
GetOpt ==
  /\ pc = "getopt"
  /\ IF \E i \in 1..Len(cmdline.opts) : cmdline.opts[i].opt = "unknown"
     THEN Exit(1)
     ELSE pc' = "options" /\ UNCHANGED status
  /\ UNCHANGED <<parse, env, queue, file, state, settings, walk, outcome>>

SetLocal(new) ==
  /\ local' = new
  /\ UNCHANGED <<pc, settings, status>>

(* PrintUsage, or an exception: the process ends *)
Refuse(code) ==
  /\ Exit(code)
  /\ UNCHANGED <<local, settings>>

(* ProcessHppHeadersOption *)
ProcessHppHeadersOption(val) ==
  /\ hpp_headers' = val
  /\ valid_extensions' = valid_extensions \cup val

OutputFormats == {"emacs", "vs7", "eclipse"}

ParseOption ==
  /\ pc = "options"
  /\ opt < Len(cmdline.opts)
  /\ opt' = opt + 1
  /\ LET o == cmdline.opts[opt + 1] IN
     \/ /\ o.opt = "--help"
        /\ Refuse(1)
     \/ /\ o.opt = "--output"
        /\ IF o.text \notin OutputFormats THEN Refuse(1) ELSE SetLocal([local EXCEPT !.output_format = o.text])
     \/ /\ o.opt = "--verbose"
        /\ IF o.num = Malformed THEN Refuse(1) ELSE SetLocal([local EXCEPT !.verbosity = o.num])
     \/ /\ o.opt = "--filter"           \* no filter at all: PrintCategories
        /\ IF o.filters = <<>> THEN Refuse(0) ELSE SetLocal([local EXCEPT !.filters = o.filters])
     \/ /\ o.opt = "--counting"
        /\ IF o.text = "other" THEN Refuse(1) ELSE SetLocal([local EXCEPT !.counting_style = o.text])
     \/ /\ o.opt = "--root"
        /\ root' = o.root
        /\ UNCHANGED <<pc, local, line_length, hpp_headers, valid_extensions, status>>
     \/ /\ o.opt = "--linelength"
        /\ IF o.num = Malformed
           THEN Refuse(1)
           ELSE /\ line_length' = o.num
                /\ UNCHANGED <<pc, local, root, hpp_headers, valid_extensions, status>>
     \/ /\ o.opt = "--extensions"
        /\ valid_extensions' = o.exts
        /\ UNCHANGED <<pc, local, line_length, root, hpp_headers, status>>
     \/ /\ o.opt = "--headers"
        /\ ProcessHppHeadersOption(o.exts)
        /\ UNCHANGED <<pc, local, line_length, root, status>>
  /\ UNCHANGED <<env, queue, file, state, walk, outcome>>

(* AddFilters appends first and looks at the signs after that *)
AllSigned(fs) == \A i \in 1..Len(fs) : fs[i].sign # "unsigned"

(* The end of ParseArguments, and main up to its loop.  SetFilters raises  *)
(* before _SetCountingStyle is reached.                                    *)
FinishParse ==
  /\ pc = "options"
  /\ opt = Len(cmdline.opts)
  /\ IF cmdline.files = <<>>
     THEN /\ Exit(1)
          /\ UNCHANGED <<queue, state>>
     ELSE /\ output_format' = local.output_format
          /\ verbose_level' = local.verbosity
          /\ filters' = DefaultFilters \o local.filters
          /\ IF AllSigned(filters')
             THEN /\ counting' = local.counting_style
                  /\ pc' = "files"
                  /\ queue' = cmdline.files
                  /\ UNCHANGED status
             ELSE /\ Exit(1)
                  /\ UNCHANGED <<counting, queue>>
          /\ UNCHANGED <<filters_backup, error_count, errors_by_category>>
  /\ UNCHANGED <<parse, env, file, settings, walk, outcome>>

-----------------------------------------------------------------------------
(* ProcessFile *)

BackupNothing == UNCHANGED filters_backup              \* mutant: no backup
BackupFilters == filters_backup' = filters

(* _SetVerboseLevel gets the level it already has *)
StartFile ==
  /\ pc = "files"
  /\ queue # <<>>
  /\ file' = Head(queue)
  /\ queue' = Tail(queue)
  /\ BackupFilters
  /\ level' = 1
  /\ lineno' = 0
  /\ keep_looking' = TRUE
  /\ cfg_filters' = <<>>
  /\ pc' = "walk"
  /\ UNCHANGED <<parse, env, filters, verbose_level, counting, output_format,
                 error_count, errors_by_category, settings, outcome, status>>

RestoreUnlessUnreadable(what) ==                       \* mutant: one return forgets it
  filters' = IF what = "unreadable" THEN filters ELSE filters_backup
RestoreFilters(what) == filters' = filters_backup

(* _RestoreFilters and the return of ProcessFile *)
EndFile(what) ==
  /\ RestoreFilters(what)
  /\ outcome' = Append(outcome, [file |-> file, what |-> what, errors |-> error_count])
  /\ file' = None
  /\ pc' = "files"

SameLevel == level                                     \* mutant: "continue" comes first
NextLevel == level + 1

(* ProcessConfigOverrides: the next directory up *)
Ascend ==
  /\ pc = "walk"
  /\ IF keep_looking /\ level <= Len(Path[file])
     THEN LET content == cfg[Path[file][level].dir] IN
          \/ /\ content = Absent
             /\ level' = NextLevel
             /\ UNCHANGED <<pc, lineno, keep_looking>>
          \/ /\ content = Unreadable
             /\ keep_looking' = FALSE
             /\ level' = NextLevel
             /\ UNCHANGED <<pc, lineno>>
          \/ /\ content \notin {Absent, Unreadable}
             /\ lineno' = 0
             /\ pc' = "config"
             /\ UNCHANGED <<level, keep_looking>>
     ELSE /\ pc' = "apply"
          /\ UNCHANGED <<level, lineno, keep_looking>>
  /\ UNCHANGED <<parse, env, queue, file, state, settings, cfg_filters, outcome, status>>

CollectedInFront(fs) == <<fs>> \o cfg_filters          \* mutant: the order is lost
Collected(fs) == Append(cfg_filters, fs)

ExcludesFileName(names) == Path[file][1].base \in names \* mutant: never a directory
Excludes(names) == Path[file][level].base \in names

(* ProcessConfigOverrides: one line of a CPPLINT.cfg that changes nothing  *)
(* but the settings or the locals of the walk                              *)
ConfigLine ==
  /\ pc = "config"
  /\ LET content == cfg[Path[file][level].dir] IN
     /\ lineno < Len(content)
     /\ LET l == content[lineno + 1] IN
        \/ /\ l.name = "set noparent"
           /\ keep_looking' = FALSE
           /\ UNCHANGED <<cfg_filters, settings>>
        \/ /\ l.name = "filter"
           /\ cfg_filters' = Collected(l.filters)
           /\ UNCHANGED <<keep_looking, settings>>
        \/ /\ l.name = "exclude_files"
           /\ l.names # Malformed
           /\ ~Excludes(l.names)
           /\ UNCHANGED <<keep_looking, cfg_filters, settings>>
        \/ /\ l.name = "linelength"
           /\ line_length' = IF l.num = Malformed THEN line_length ELSE l.num
           /\ UNCHANGED <<keep_looking, cfg_filters, root, hpp_headers, valid_extensions>>
        \/ /\ l.name = "root"
           /\ root' = l.root
           /\ UNCHANGED <<keep_looking, cfg_filters, line_length, hpp_headers,
                          valid_extensions>>
        \/ /\ l.name = "headers"
           /\ ProcessHppHeadersOption(l.exts)
           /\ UNCHANGED <<keep_looking, cfg_filters, line_length, root>>
        \/ /\ l.name = "other"
           /\ UNCHANGED <<keep_looking, cfg_filters, settings>>
  /\ lineno' = lineno + 1
  /\ UNCHANGED <<pc, parse, env, queue, file, state, level, outcome, status>>

(* ProcessConfigOverrides returns False and ProcessFile gives up the file *)
Exclude ==
  /\ pc = "config"
  /\ LET content == cfg[Path[file][level].dir] IN
     /\ lineno < Len(content)
     /\ content[lineno + 1].name = "exclude_files"
     /\ content[lineno + 1].names # Malformed
     /\ Excludes(content[lineno + 1].names)
  /\ EndFile("excluded")
  /\ UNCHANGED <<parse, env, queue, filters_backup, verbose_level, counting,
                 output_format, error_count, errors_by_category, settings, walk, status>>

(* re.compile raises what nothing catches *)
BadPattern ==
  /\ pc = "config"
  /\ LET content == cfg[Path[file][level].dir] IN
     /\ lineno < Len(content)
     /\ content[lineno + 1].name = "exclude_files"
     /\ content[lineno + 1].names = Malformed
  /\ Exit(1)
  /\ UNCHANGED <<parse, env, queue, file, state, settings, walk, outcome>>

ConfigEnd ==
  /\ pc = "config"
  /\ lineno = Len(cfg[Path[file][level].dir])
  /\ level' = NextLevel
  /\ pc' = "walk"
  /\ UNCHANGED <<parse, env, queue, file, state, settings, lineno, keep_looking,
                 cfg_filters, outcome, status>>

(* for filter in reversed(cfg_filters): _AddFilters(filter) *)
ApplyFilters ==
  /\ pc = "apply"
  /\ cfg_filters # <<>>
  /\ filters' = filters \o cfg_filters[Len(cfg_filters)]
  /\ cfg_filters' = SubSeq(cfg_filters, 1, Len(cfg_filters) - 1)
  /\ IF AllSigned(filters') THEN UNCHANGED <<pc, status>> ELSE Exit(1)
  /\ UNCHANGED <<parse, env, queue, file, filters_backup, verbose_level, counting,
                 output_format, error_count, errors_by_category, settings, level,
                 lineno, keep_looking, outcome>>

(* The configuration is in place: the file is opened.  An IOError, or an   *)
(* extension that is not valid, ends the file.                             *)
OpenFile ==
  /\ pc = "apply"
  /\ cfg_filters = <<>>
  /\ \/ /\ EndFile("unreadable")
     \/ /\ file # Stdin
        /\ Ext[file] \notin valid_extensions
        /\ EndFile("ignored")
     \/ /\ file = Stdin \/ Ext[file] \in valid_extensions
        /\ pc' = "lint"
        /\ UNCHANGED <<filters, outcome, file>>
  /\ UNCHANGED <<parse, env, queue, filters_backup, verbose_level, counting,
                 output_format, error_count, errors_by_category, settings, walk, status>>

(* The loop of _ShouldPrintError over the filters: the last one that       *)
(* matches decides                                                         *)
IsFiltered(fs, category) ==
  \E i \in 1..Len(fs) :
    /\ fs[i].sign = "-"
    /\ category \in Matches[fs[i].prefix]
    /\ \A j \in i + 1 .. Len(fs) : category \notin Matches[fs[j].prefix]

CountedUnder(category) ==
  CASE counting = "toplevel" -> {TopLevel[category]}
    [] counting = "detailed" -> {category}
    [] OTHER -> {}

(* Error, called by a check of ProcessFileData or by ProcessFile for a     *)
(* mixed line ending.  A call that prints nothing changes nothing.         *)
Error(category, confidence) ==
  /\ pc = "lint"
  /\ confidence >= verbose_level
  /\ ~IsFiltered(filters, category)
  /\ error_count < MaxErrors
  /\ error_count' = error_count + 1
  /\ errors_by_category' =
       [k \in Keys |-> IF k \in CountedUnder(category)
                       THEN errors_by_category[k] + 1
                       ELSE errors_by_category[k]]
  /\ UNCHANGED <<pc, parse, env, queue, file, filters, filters_backup, verbose_level,
                 counting, output_format, settings, walk, outcome, status>>

FinishFile ==
  /\ pc = "lint"
  /\ EndFile("linted")
  /\ UNCHANGED <<parse, env, queue, filters_backup, verbose_level, counting,
                 output_format, error_count, errors_by_category, settings, walk, status>>

ErrorsButOne == IF error_count > 1 THEN 1 ELSE 0       \* mutant: off by one
ExitStatus == IF error_count > 0 THEN 1 ELSE 0

(* main after its loop: PrintErrorCounts and sys.exit(error_count > 0) *)
FinishRun ==
  /\ pc = "files"
  /\ queue = <<>>
  /\ Exit(ExitStatus)
  /\ UNCHANGED <<parse, env, queue, file, state, settings, walk, outcome>>

-----------------------------------------------------------------------------

Next ==
  \/ GetOpt
  \/ ParseOption
  \/ FinishParse
  \/ StartFile
  \/ Ascend
  \/ ConfigLine
  \/ Exclude
  \/ BadPattern
  \/ ConfigEnd
  \/ ApplyFilters
  \/ OpenFile
  \/ \E c \in Categories, n \in 0..5 : Error(c, n)
  \/ FinishFile
  \/ FinishRun

Spec == Init /\ [][Next]_vars

(* A single thread that never waits: a step it can take, it takes.         *)
FairSpec == Spec /\ WF_vars(Next)

-----------------------------------------------------------------------------

Outcome == [file : Files, what : {"excluded", "unreadable", "ignored", "linted"},
            errors : 0..MaxErrors]

(* The type of every variable of the run.                                  *)
TypeOK ==
  /\ pc \in {"getopt", "options", "files", "walk", "config", "apply", "lint", "exited"}
  /\ cmdline \in CmdLines
  /\ cfg \in [Dirs -> CfgFiles]
  /\ opt \in Nat
  /\ local \in [verbosity : Int, output_format : {"emacs", "vs7", "eclipse"},
                filters : Seq(Filter),
                counting_style : {"unset", "total", "toplevel", "detailed"}]
  /\ queue \in Seq(Files)
  /\ file \in Files \cup {None}
  /\ filters \in Seq(Filter)
  /\ filters_backup \in Seq(Filter)
  /\ verbose_level \in Int
  /\ counting \in {"unset", "total", "toplevel", "detailed"}
  /\ output_format \in {"emacs", "vs7", "eclipse"}
  /\ error_count \in 0..MaxErrors
  /\ errors_by_category \in [Keys -> Nat]
  /\ line_length \in Int
  /\ root \in Roots \cup {None}
  /\ hpp_headers \in SUBSET Exts
  /\ valid_extensions \in SUBSET Exts
  /\ level \in Nat \ {0}
  /\ lineno \in Nat
  /\ keep_looking \in BOOLEAN
  /\ cfg_filters \in Seq(Seq(Filter))
  /\ outcome \in Seq(Outcome)
  /\ status \in {None, 0, 1}

(* The filters every file starts from: the default and those of --filter   *)
CmdFilters == DefaultFilters \o local.filters

(* What CPPLINT.cfg files add to the filters is gone when the next file    *)
(* starts and when the run ends, whichever way ProcessFile returned        *)
(* (BackupFilters, RestoreFilters and the four returns of ProcessFile).    *)
FiltersRestored ==
  pc = "files" => filters = CmdFilters

(* Why it holds: ProcessFile owns a file from its backup of the filters to *)
(* its return, and every list of filters it may leave behind was taken     *)
(* from the command line.                                                  *)
InProcessFile == {"walk", "config", "apply", "lint"}

FileInv ==
  /\ pc \in InProcessFile => file \in Files
  /\ pc \in {"getopt", "options", "files"} => file = None

BackupInv ==
  pc \in InProcessFile => filters_backup = CmdFilters

(* Inside a CPPLINT.cfg the level is one of the walk and the file is there *)
ConfigInv ==
  pc = "config" =>
    /\ level \in 1..Len(Path[file])
    /\ cfg[Path[file][level].dir] \notin {Absent, Unreadable}
    /\ lineno \in 0..Len(cfg[Path[file][level].dir])

(* The types, the backup and the place in the walk *)
StateInv ==
  /\ TypeOK
  /\ FileInv
  /\ BackupInv
  /\ ConfigInv
  /\ FiltersRestored

-----------------------------------------------------------------------------
(* What the CPPLINT.cfg files above a file ask for, without the walk *)

HasCfg(f, i) == cfg[Path[f][i].dir] \notin {Absent, Unreadable}

CfgLines(f, i) == cfg[Path[f][i].dir]

(* A level stops the walk with "set noparent" or a file that cannot be read *)
Stops(f, i) ==
  \/ cfg[Path[f][i].dir] = Unreadable
  \/ HasCfg(f, i) /\ \E k \in 1..Len(CfgLines(f, i)) :
                       CfgLines(f, i)[k].name = "set noparent"

ReadLevels(f) ==
  {i \in 1..Len(Path[f]) : HasCfg(f, i) /\ \A j \in 1..i - 1 : ~Stops(f, j)}

(* The lines of one name that the walk reaches, as pairs of a level and a  *)
(* line number                                                             *)
Asked(f, name) ==
  UNION {{<<i, k>> : k \in {n \in 1..Len(CfgLines(f, i)) :
                              CfgLines(f, i)[n].name = name}} : i \in ReadLevels(f)}

At(f, at) == CfgLines(f, at[1])[at[2]]

(* The order in which the walk comes to the lines *)
Before(v, w) == v[1] < w[1] \/ (v[1] = w[1] /\ v[2] <= w[2])

Touches(fs, category) == \E i \in 1..Len(fs) : category \in Matches[fs[i].prefix]

(* Those of some filter lines that have a filter for a category *)
Votes(f, lines, category) == {at \in lines : Touches(At(f, at).filters, category)}

IsNearest(v, votes) == v \in votes /\ \A w \in votes : Before(v, w)

Decision(f, category) ==
  LET votes == Votes(f, Asked(f, "filter"), category)
      nearest == CHOOSE v \in votes : IsNearest(v, votes)
  IN IF votes = {} THEN CmdFilters ELSE At(f, nearest).filters

(* The innermost directory that has a filter for a category decides if its *)
(* messages are printed: the last matching filter of the first line that   *)
(* has one.  Only without one do --filter and the default filter decide    *)
(* (ProcessConfigOverrides accumulates from the file upwards and applies   *)
(* the lists in reverse order).                                            *)
NestedCfgWins ==
  pc = "lint" =>
    \A c \in Categories : (IsFiltered(filters, c) <=> IsFiltered(Decision(file, c), c))

ExcludedByCfg(f) ==
  \E at \in Asked(f, "exclude_files") : Path[f][at[1]].base \in At(f, at).names

(* A file is skipped as excluded exactly when a CPPLINT.cfg that the walk  *)
(* reaches has a pattern matching the path component below its directory,  *)
(* whatever lines and levels come before it (ProcessConfigOverrides and    *)
(* the early return of ProcessFile).                                       *)
ExclusionHonoured ==
  /\ pc = "lint" => ~ExcludedByCfg(file)
  /\ \A i \in 1..Len(outcome) :
       outcome[i].what = "excluded" <=> ExcludedByCfg(outcome[i].file)

(* Every run of the program ends: the walk reaches the root directory or   *)
(* stops before, and every file is left (the loops of main and of          *)
(* ProcessConfigOverrides).                                                *)
Terminates == <>(pc = "exited")

-----------------------------------------------------------------------------
(* The contract *)

Remaining == SubSeq(cmdline.files, Len(outcome) + 1, Len(cmdline.files))

Contract == INSTANCE LintContract WITH
  Requests <- {c.files : c \in CmdLines},
  todo <- Remaining,
  done <- outcome,
  errors <- error_count

(* A run of the program is a run of the contract: the files are handled in *)
(* the order of the command line and each once, an error is counted only   *)
(* of a file that passed the configuration and was opened, and the exit    *)
(* status of a complete run tells if there was one (main, ProcessFile).    *)
ImplementsContract == Contract!Spec

-----------------------------------------------------------------------------
(* Why these hold *)

(* The files of the command line are those left, the one in ProcessFile    *)
(* and those in the queue; only a file whose checks run has errors that    *)
(* the last return of ProcessFile did not count.                           *)
QueueInv ==
  /\ pc # "exited" => status = None
  /\ pc \in {"getopt", "options"} => outcome = <<>> /\ error_count = 0
  /\ pc = "files" => queue = Remaining
  /\ pc \in InProcessFile =>
       Remaining # <<>> /\ file = Head(Remaining) /\ queue = Tail(Remaining)
  /\ pc \in {"files"} \cup InProcessFile => cmdline.files # <<>>
  /\ pc \in {"files", "walk", "config", "apply"} => error_count = Contract!Reported

(* The lines of one name that the walk has come to *)
Read(name) ==
  {at \in Asked(file, name) :
     at[1] < level \/ (at[1] = level /\ pc = "config" /\ at[2] <= lineno)}

(* keep_looking tells if a level below, or a line before, stops the walk   *)
LookInv ==
  /\ pc \in {"walk", "apply", "lint"} =>
       (keep_looking <=> \A j \in 1..level - 1 : ~Stops(file, j))
  /\ pc = "config" =>
       /\ \A j \in 1..level - 1 : ~Stops(file, j)
       /\ keep_looking <=>
            \A k \in 1..lineno : CfgLines(file, level)[k].name # "set noparent"
  /\ pc \in {"apply", "lint"} => ~keep_looking \/ level > Len(Path[file])

(* The first of the lists in cfg_filters with a filter for a category is   *)
(* that of the nearest of some lines                                       *)
NearestFirst(category, lines) ==
  \E i \in 1..Len(cfg_filters), v \in lines :
    /\ Touches(cfg_filters[i], category)
    /\ \A j \in 1..i - 1 : ~Touches(cfg_filters[j], category)
    /\ IsNearest(v, Votes(file, lines, category))
    /\ cfg_filters[i] = At(file, v).filters

NoneTouches(category) ==
  \A i \in 1..Len(cfg_filters) : ~Touches(cfg_filters[i], category)

(* While the lists are collected, and while they are applied from the last *)
(* to the first, so that the nearest comes last                            *)
CollectInv ==
  /\ pc \in {"walk", "config"} =>
       /\ filters = CmdFilters
       /\ \A c \in Categories :
            IF Votes(file, Read("filter"), c) = {}
            THEN NoneTouches(c) ELSE NearestFirst(c, Read("filter"))
  /\ pc \in {"apply", "lint"} =>
       \A c \in Categories :
         \/ NearestFirst(c, Asked(file, "filter"))
         \/ NoneTouches(c) /\ (IsFiltered(filters, c) <=> IsFiltered(Decision(file, c), c))
  /\ pc = "lint" => cfg_filters = <<>>

(* No line so far has excluded the file, and those left know what they met *)
ExcludeInv ==
  /\ pc \in InProcessFile =>
       \A at \in Read("exclude_files") :
         Path[file][at[1]].base \notin At(file, at).names
  /\ \A i \in 1..Len(outcome) :
       outcome[i].what = "excluded" <=> ExcludedByCfg(outcome[i].file)

(* The inductive invariant: the types, the backup, the files in their      *)
(* order, and what the walk has collected (main, ProcessFile,              *)
(* ProcessConfigOverrides).                                                *)
RunInv ==
  /\ StateInv
  /\ QueueInv
  /\ LookInv
  /\ CollectInv
  /\ ExcludeInv

-----------------------------------------------------------------------------
(* What the usage text says and the code does not do *)

Numeric(f, name) == {at \in Asked(f, name) : At(f, at).num # Malformed}

CmdLineLength ==
  LET given == {i \in 1..Len(cmdline.opts) : cmdline.opts[i].opt = "--linelength"}
  IN IF given = {} THEN 80
     ELSE cmdline.opts[CHOOSE i \in given : \A j \in given : j <= i].num

(* "CPPLINT.cfg has an effect on files in the same directory and all       *)
(* sub-directories": a file above which no CPPLINT.cfg sets the line       *)
(* length is linted with that of the command line.                         *)
OutsideUnaffected ==
  pc = "lint" /\ Numeric(file, "linelength") = {} => line_length = CmdLineLength

=============================================================================

---------------------------- MODULE MCCpplintRun ----------------------------
(***************************************************************************)
(* Instances of CpplintRun.  Two files lie in directories "/a" and "/b",   *)
(* one in "/a/sub", and "/" is above them all.                             *)
(***************************************************************************)
EXTENDS CpplintRun

CONSTANT none, malformed, absent, unreadable

MCFiles == {"/a/sub/x.cc", "/b/y.hpp", "-"}
MCStdin == "-"
MCDirs == {"/a/sub", "/a", "/b", "/"}

Step(d, b) == [dir |-> d, base |-> b]

MCPath ==
  [f \in MCFiles |->
     CASE f = "/a/sub/x.cc" -> <<Step("/a/sub", "x.cc"), Step("/a", "sub"), Step("/", "a")>>
       [] f = "/b/y.hpp"    -> <<Step("/b", "y.hpp"), Step("/", "b")>>
       [] f = "-"           -> <<Step("/b", "-"), Step("/", "b")>>]

MCExt ==
  [f \in MCFiles |->
     CASE f = "/a/sub/x.cc" -> "cc" [] f = "/b/y.hpp" -> "hpp" [] f = "-" -> "none"]

MCExts == {"cc", "h", "cpp", "cu", "cuh", "hpp", "none"}
MCRoots == {"chrome"}

MCCategories == {"build/include_alpha", "build/class", "whitespace/tab"}
MCTopLevel ==
  [c \in MCCategories |-> IF c = "whitespace/tab" THEN "whitespace" ELSE "build"]
MCPrefixes == {"", "build", "build/include_alpha", "whitespace"}
MCMatches ==
  [p \in MCPrefixes |->
     CASE p = ""                    -> MCCategories
       [] p = "build"               -> {"build/include_alpha", "build/class"}
       [] p = "build/include_alpha" -> {p}
       [] p = "whitespace"          -> {"whitespace/tab"}]

Command(opts, files) == [opts |-> opts, files |-> files]
Flt(sign, prefix) == [sign |-> sign, prefix |-> prefix]

(* Options of the command line and lines of a CPPLINT.cfg *)
Flag(name) == [opt |-> name]
Text(name, text) == [opt |-> name, text |-> text]
Number(name, num) == [opt |-> name, num |-> num]
Extensions(name, exts) == [opt |-> name, exts |-> exts]
Filters(filts) == [opt |-> "--filter", filters |-> filts]

NoParent == [name |-> "set noparent"]
CfgFilter(filts) == [name |-> "filter", filters |-> filts]
CfgExclude(names) == [name |-> "exclude_files", names |-> names]
CfgLength(num) == [name |-> "linelength", num |-> num]

-----------------------------------------------------------------------------
(* Filters: the chains of CPPLINT.cfg files above two files *)

FiltersCmdLines ==
  {Command(<<>>, <<"/a/sub/x.cc", "/b/y.hpp">>),
   Command(<<Extensions("--extensions", {"cc", "hpp"}),
             Filters(<<Flt("-", ""), Flt("+", "build")>>)>>,
           <<"/b/y.hpp", "/a/sub/x.cc">>)}

FiltersCfgFiles ==
  {absent, unreadable,
   <<CfgFilter(<<Flt("+", "build"), Flt("-", "build/include_alpha")>>)>>,
   <<CfgFilter(<<Flt("-", "whitespace")>>), CfgFilter(<<Flt("+", "")>>)>>,
   <<NoParent, CfgFilter(<<Flt("-", "build")>>)>>,
   <<CfgExclude({"sub", "y.hpp"}), NoParent>>}

(* Options: every option of the command line, with values the code accepts *)
(* and values it refuses, and every line of a CPPLINT.cfg                  *)

OptionsDirs == {"/b", "/"}

OptionsCmdLines ==
  LET some == {Flag("--help"), Text("--output", "vs7"), Text("--output", "other"),
               Number("--verbose", 3), Number("--verbose", malformed),
               Filters(<<>>), Filters(<<Flt("unsigned", "build")>>),
               Filters(<<Flt("-", "build"), Flt("+", "build/include_alpha")>>),
               Text("--counting", "toplevel"), Text("--counting", "detailed"),
               Text("--counting", "other"),
               [opt |-> "--root", root |-> "chrome"],
               Number("--linelength", 100), Number("--linelength", malformed),
               Extensions("--extensions", {"hpp"}), Extensions("--headers", {"hpp"}),
               Flag("unknown")}
  IN {Command(<<o>>, <<"/b/y.hpp", "-">>) : o \in some}
       \cup {Command(<<o, p>>, <<"/b/y.hpp">>) : o, p \in some}
       \cup {Command(<<>>, <<>>)}

OptionsCfgFiles ==
  {absent,
   <<CfgLength(60), CfgLength(malformed),
     [name |-> "root", root |-> "chrome"], [name |-> "other"]>>,
   <<[name |-> "headers", exts |-> {"hpp"}], CfgExclude({"-"})>>,
   <<CfgExclude(malformed)>>,
   <<CfgFilter(<<Flt("unsigned", "build")>>)>>}

(* Settings: CPPLINT.cfg files that set the line length *)

SettingsCmdLines ==
  {Command(<<>>, <<"/a/sub/x.cc">>),
   Command(<<Number("--linelength", 100), Extensions("--extensions", {"cc", "hpp"})>>,
           <<"/b/y.hpp", "/a/sub/x.cc">>)}

SettingsCfgFiles == {absent, <<CfgLength(60)>>, <<CfgLength(120)>>}

-----------------------------------------------------------------------------

Trees(cfgFiles, dirs) ==
  {[d \in MCDirs |-> IF d \in dirs THEN t[d] ELSE absent] : t \in [dirs -> cfgFiles]}

Meet(commands, trees) == {[command |-> c, cfg |-> t] : c \in commands, t \in trees}

(* Filters and options in one run, the line length in another *)
RunCmdLines == FiltersCmdLines \cup OptionsCmdLines
RunCfgFiles == FiltersCfgFiles \cup OptionsCfgFiles
RunEnvironments ==
  Meet(FiltersCmdLines, Trees(FiltersCfgFiles, MCDirs))
    \cup Meet(OptionsCmdLines, Trees(OptionsCfgFiles, OptionsDirs))
SettingsEnvironments == Meet(SettingsCmdLines, Trees(SettingsCfgFiles, MCDirs))

=============================================================================

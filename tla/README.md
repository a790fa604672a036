# Verification of misc_cpp

The repository holds `cpplint.py`, a linter of 6100 lines that keeps a good
deal of state while it goes through the command line, the configuration files
and the lines of each file; `base64.cc`, the one program with an algorithm of
its own; and some thirty-five small C and C++ programs that each show one
library. This directory holds TLA+ models of the parts whose state can go
wrong, the TLC runs that check them and the proofs that TLAPS checks.

## 1. Inventory

### cpplint.py

It is one process with one thread. What makes it hard is that nearly everything
is kept in module globals or in objects that live for a whole file, that the
checks see a file line by line while many of them look ahead or behind, and
that C++ is told apart by regular expressions and not by a parser.

| Component | State | Operations | What makes it correct |
|---|---|---|---|
| Run: `main`, `ParseArguments`, `ProcessFile`, `ProcessConfigOverrides`, `_CppLintState` | filters and their backup, verbosity, counts, output format; the globals `_line_length`, `_root`, `_hpp_headers`, `_valid_extensions`; the place in the walk up to `/` | parse an option, start a file, go up one directory, read a line of a `CPPLINT.cfg`, exclude, apply the filters, open, report, finish | the innermost directory decides on a category; an excluded file is skipped; nothing of one file's configuration reaches the next; the run ends and its status tells if there were errors |
| Pass over a file: `ProcessFileData`, `ProcessLine`, the NOLINT functions | `_error_suppressions`, `_global_error_suppressions`, the list of lines (changed in place) | every call that parses a comment or reports, in the order of the code | only what a comment of this file asks for is hidden, and it is hidden |
| `NestingState` | a stack of blocks, a stack of `#if` checkpoints, the previous top | `Update` of a line, `CheckCompletedBlocks` | the stack is the nesting of the text whatever conditionals are in between |
| `_FunctionState`, `CheckForFunctionLengths` | in a function or not, its name and lines | `Begin`, `Count`, `Check`, `End` | a long function is reported once, where it ends, at a level that is printed |
| `_IncludeState`, `CheckIncludeLine`, `CheckForIncludeWhatYouUse`, `CheckHeaderFileIncluded` | a list of lists of includes, the section, the last header | include, directive, end of file | out of order, twice and missing mean what they say |
| `FileInfo`, `_ClassifyInclude`, `FilesBelongToSameModule` | the walk to the root of the repository | name a file, classify an include, find the header to open, name a header's guard | one root per repository; the header of a source is recognised, and no other is; two headers do not share a guard |
| `CloseExpression`, `ReverseCloseExpression` | a stack of brackets, carried from line to line | one character | a bracket finds its mate in both directions |
| `CheckBraces`, `CheckTrailingSemicolon`, `CheckEmptyBlockBody` | none | one line, with searches over others | what is reported of the text is true of its statements |
| `RemoveMultiLineComments`, `CleansedLines`, `CheckForMultilineCommentsAndStrings` | the lines, the delimiter of an open raw string | one comment or one line | the checks see the code and nothing but the code, or the file is reported |
| Layout of scopes: `CheckForNamespaceIndentation`, `CheckEnd` of classes and namespaces, blank lines of `CheckSpacing` and `CheckSectionSpacing`, `CheckBracesSpacing` with `_IsType` | none; they read the stack, the block that was on top and lines around | one line, or the end of a block | what is reported follows from the scopes of the text, not from how conditionals or heads over several lines disturb the stack |
| Declarations: constructors in `CheckForNonStandardConstructs`, `CheckForNonConstReference`, `CheckRedundantVirtual`, `CheckRedundantOverrideOrFinal` | none; the stack says in which scope | one line, with searches over up to ten others | a declaration is reported for what it declares, however it is broken over lines |
| `CheckCheck`, `_GetTextInside` | none | one statement over lines | a suggested macro tests the same; both searches for a bracket agree |
| The other style and language checks | none | one line | not modelled, see section 7 |

The components call each other as the table goes down: the run starts the pass
for each file; the pass first cleanses the lines, then feeds each to
`NestingState`, the function lengths, the includes, the block checks, which use
`CloseExpression`, and the checks of layout and declarations, which ask the
stack of `NestingState` where they are. What they share are the suppressions, which grow while
the lines are processed, and the list of lines.

### base64.cc

`base64_encode` and `base64_decode` read through a local buffer of three bytes
and of four characters, which a last, incomplete block leaves partly unwritten;
`base64_enc_len` and `base64_dec_len` tell a caller their lengths beforehand,
without the zero that both functions write at the end. Decoding must give the
input back, for every length and every content of the buffers.

### The other programs

`evhttp_op`, `evhtp_op`, `httplib_op`, `websocket_svr` (servers: handlers
without state of their own, called by a library; the last one, an echo server,
from a single thread), `ffmpeg_read_stream` (a retry loop), `ffmpeg_op`,
`sqlite3` (a sequence of statements that commit one by one), `mysql_conn`,
`mongodb_conn`, `redis_rw`, `rabbit_mq`, `fastdfs_op` (one request each),
`crypto_op`, `uuid_gen`, `random_gen`, `xml_parse`, `json_parse`,
`protobuf_op`, `python_wrap`, `regex_op`, `zlib_op`, `opencv_op`, `bgl_op`,
`file_op`, `get_device_inf`, `trick` (calls on constant data). None of them is
modelled; `evhttp_op`, `ffmpeg_read_stream` and `sqlite3` are the ones whose
order of steps would be worth it.

## 2. Modules

Every definition that stands for code is listed in `PROJECT.json` under `map`
with its lines.

| Module | Of | Extends or composes |
|---|---|---|
| `CpplintRun` | the run, one action per option, directory, configuration line and file | |
| `LintContract` | what a caller of the program may rely on | implemented by `CpplintRun` |
| `CpplintRunProofs` | theorems about the run | `CpplintRun` |
| `LintFile`, `LintFileProofs` | the pass over each of several files | |
| `NestingState`, `NestingStateProofs` | `Update` as a function of the tokens of a line; namespace indentation and the ends of classes and namespaces | |
| `TokenLines` | lines as sequences of tokens, and the mate of a bracket | |
| `BlankLines` | blank lines around blocks and labels | `NestingState`, `TokenLines` |
| `BraceSpacing` | braces without a blank, and what is a type | `NestingState`, `TokenLines` |
| `Declarations` | the checks of declarations over lines and stack | `NestingState`, `TokenLines` |
| `DeclarationTexts` | declarations of C++ in every layout and what should be reported, no part of the linter | `Declarations` |
| `NestingTexts` | what a text means, from the text alone, and which texts are followed | `DeclarationTexts` |
| `MCNestingState` | the lines of the instances, and the checks that read the stack against what the text means | `NestingTexts`, `BlankLines`, `BraceSpacing` |
| `FunctionLengths`, `FunctionLengthsProofs` | the length of functions | |
| `IncludeState`, `IncludeStateProofs` | the order of includes, and which are remembered | |
| `FileNames`, `FileNamesProofs` | names of files, own headers and guards | |
| `CloseExpression`, `CloseExpressionProofs` | brackets, forward and back | |
| `TextInside` | the text inside a bracket, without angles | |
| `CheckMacros` | `CheckCheck` | `TokenLines` |
| `CheckTexts` | conditions and what they mean, no part of the linter | `CheckMacros` |
| `StatementParser` | the grammar of the statements of C++, no part of the linter | |
| `BlockChecks` | the three checks of blocks | `StatementParser` |
| `CppLexer` | what C++ says of the atoms of a line, no part of the linter | |
| `CleansedLines` | the cleansing of lines | `CppLexer` |
| `Base64`, `Base64Proofs` | the two functions, one action per byte or character | |

`MC...` modules hold the instances. A module `...Proofs` extends the one it is
about and holds nothing but theorems, their lemmas and what these speak of.

How state and actions correspond to the code:

* **CpplintRun.** `filters`, `filters_backup`, `verbose_level`, `counting`,
  `output_format`, `error_count`, `errors_by_category` are the members of
  `_cpplint_state`; `line_length`, `root`, `hpp_headers`, `valid_extensions`
  the globals; `level`, `lineno`, `keep_looking`, `cfg_filters` the locals of
  `ProcessConfigOverrides`. `pc` names the place. `Ascend` opens the next
  `CPPLINT.cfg` or fails to, `ConfigLine` handles one line of it, `Exclude` and
  `BadPattern` the two early ends, `ApplyFilters` the loop over the reversed
  list, and `EndFile` every return of `ProcessFile` with its `RestoreFilters`.
  A file's content is not modelled: any category of any confidence may be
  reported of it. A filter is a sign and a prefix.
* **LintFile.** `phase` is the call of `ProcessFileData` that is next. A line
  says what the checks find while they work on it and on which line they
  report it; what the checks look for is not modelled.
* **NestingState.** A line is what the regular expressions of `Update` see of
  it. The checkpoints of `#if` and `#else` are deep copies in the code (2453,
  2462, 2465) and values here. `#endif` takes one over without a copy and
  drops it. `CheckForNamespaceIndentation` compares blocks by identity, which a
  copy loses: `Copied` says when the stack is made of copies.
* **BlankLines, BraceSpacing, Declarations.** Operators, one for each check,
  over the lines of a text up to where the check looks ahead and the stack of
  `NestingState` at its line. They report nothing by themselves: the properties
  apply them to the line that was read, or to a declaration that is written
  behind the heads of its scopes (`WriteDeclaration`).
* **FunctionLengths.** Lines that are only counted come in runs ("times"), so
  that the triggers have the values of the code and not toy ones.
* **IncludeState.** What is decided from the name of a header is data of the
  header; `FileNames` decides it.
* **FileNames.** `Call`, `SvnUp` and `Up` are the parts of `RepositoryName`, a
  step for one iteration; the rest are functions of the names.
* **CloseExpression.** One action for each kind of character of the
  loop bodies of `FindEndOfExpressionInLine` and `FindStartOfExpressionInLine`.
  A text is read as it is made up, so that the bound is on its length only.
* **TextInside, CheckMacros.** Operators over the same texts, and over CHECK
  statements that are written instead of one (`WriteStatement`).
* **BlockChecks.** A line is an indentation, tokens and whether a comment ends
  it. `FindEnd` is `CloseExpression` on tokens, where no angle is a bracket.
* **CleansedLines.** A line is a sequence of atoms: letters, quotes, escapes,
  comment marks, parentheses. Each loop of the code over the lines is a phase.
* **Base64.** Characters and bytes are numbers of eight bits; the bit operations
  are written with `\div` and `%`. The buffers hold anything at the start.
  `output` and `decoded` are what is written, with the zero at its end (139,
  185); `encLen` and `decLen` what the functions return, which does not count it.

## 3. Runs

Every passing run checks all reachable states of its instance. States are
distinct states. Deadlock is not checked, because each model stops when its
work is done; that it gets there is a property where the code has a loop that
could fail to (`Terminates`, `Returns`).

| Run | Instance | Shows | States |
|---|---|---|---|
| `run` | two files below three and two directories, each with one of six `CPPLINT.cfg` files (none, unreadable, filters of two kinds, noparent, exclusion), two command lines; and every option with good and bad values, one or two of them, over five kinds of `CPPLINT.cfg` in two directories; up to 3 errors | `NestedCfgWins`, `ExclusionHonoured`, `FiltersRestored`, `RunInv`, `Terminates`, `ImplementsContract` | 256 000 |
| `run_leaked_linelength` | `CPPLINT.cfg` files that set the line length | a violation, section 6 | |
| `lint_order` | two files, the second of three lines of nine kinds | `OnlyMarkedIsHidden`, `MarkedIsHidden` | 78 000 |
| `lint_nolint_ahead` | a report ahead of the line processed | a violation, section 6 | |
| `nesting_texts` | all legal texts over ten alphabets of lines: 26 declarations, heads and blocks up to four; classes in conditionals, assembly, sections and tight braces up to six; indentation, ends of scopes, blank lines and templates up to five; and constructors, functions, methods, initializers, virtual functions and calls in every layout behind up to two heads | `Tracks`, `OneBranchCounts`, `AsmLinesSkipped`, `LayoutReported`, `BlankLinesReported`, `BracesSpaced`, `ExplicitReported`, `ReferencesReported`, `VirtSpecifiersReported` | 263 000 |
| `function_lengths` | files of up to five lines or runs of lines, four levels of `--verbose` | `AlwaysPrinted`, `LongFunctionsReported` | 3.1 million |
| `include_order` | up to five lines of a header of each kind, directives, code | `OrderReported`, `IncludesRemembered` | 297 000 |
| `file_names` | 7 sources by 10 headers, and 3 headers by 7 for their guards with 4 values of `--root`, in a tree of 7 directories, `.svn` in any of 6 of them, `.git` in at most one; and a source and its header below a directory `internal`, named from the root or from there | `NameBelowTheRoot`, `OwnHeaderFound`, `GuardsDiffer`, `Returns` | 353 000 |
| `expressions` | all texts over three sets of characters, up to five to seven characters and the end; CHECK statements of up to three operands on one line or several | `BracketFindsItsMate`, `AngleFindsItsMate`, `BackToTheStart`, `TextsInsideAgree`, `SuggestionsKeepMeaning` | 689 000 |
| `blocks` | files of up to five lines over four sets of 12 to 15 lines | `EmptyBodiesReported`, `RedundantReported`, `NothingLooksControlled`, `OneSideReported`: the reports against the parsed text | 1.7 million |
| `base64` | inputs of up to five bytes out of five, two contents of each cell of a buffer | `SixBitsEach`, `LengthsAgree`, `RoundTrip` | 140 000 |
| `cleansing` | up to six words and line ends over four sets of words | `ElidedIsTheCode`, `ReportedIfItGoesOn` | 4.5 million |

Types are part of the invariants that are proved (section 5); the runs check
what could really be wrong. The inductive invariants of section 5 were checked
on these instances before they were proved, except three, which speak of every
start of a text: of `NestInv` the runs check `OneBranchCounts`, and of
`SourceInv` and `LayoutInv` what they say of the text that was read, `Tracks`,
`AsmLinesSkipped` and `LayoutReported`, and of each line of the instances what
they rest on, the assumptions `LinesMean` and `LinesLook`.

Why the bounds are enough:

* `run`: a walk of three directories has one below, one between and one above
  whatever stops it; two files are what it takes for one to disturb the next;
  two options are what it takes for one to override another. `MaxErrors` bounds
  the count only: two categories and a repetition.
* `lint_order`: a comment reaches its own line and the next, so three lines
  hold one that is reached, one that is not and one behind; the first file
  leaves suppressions of every kind behind for the second.
* `nesting_texts`: six lines are a conditional with a class head in each branch,
  its brace and end behind. Four lines over 26 kinds combine any block, its
  head and its end. Runs of 8 and of 22 lines ("times") reach the 10 lines of a
  namespace and the 25 of a class that the checks ask for, from both sides. A
  declaration has up to two parameters of eleven kinds, one more than what a
  check joins; it is broken over as many lines as its parts allow, which is more
  than the checks look back or ahead. Five lines hold a template in a template,
  or one that is over in front of another class.
* `function_lengths`: the runs of 250, 401 and 7750 lines are below, above and
  far above the triggers of plain and test functions at the four levels.
* `include_order`: a header of each group before and behind a nested conditional.
* `expressions`: the code keeps nothing but a stack and looks at one character
  on each side; seven characters nest three deep and leave one over. Three
  operands with two operators, one of them in parentheses, combine any two
  precedences on both sides of a comparison.
* `blocks`: an if, its else and both bodies with their braces. A text that is
  not a sequence of statements is followed up to two lines only, and braces
  that cannot be closed within five lines are not followed (`Followed`): the
  properties speak of files that are.
* `base64`: one full block and each of the two incomplete ones behind it.
* `cleansing`: a raw string with a delimiter, over two lines, next to a comment.

The references, `StatementParser`, `CppLexer`, `DeclarationTexts`, `CheckTexts`
and the meaning of a text in `NestingTexts`, are written from the grammar of
C++, so that the runs compare two independent answers.

## 4. Fairness

Almost everything checked is safety and is stated of specifications without
fairness. `Terminates` assumes weak fairness of `Next` (`FairSpec` of
`CpplintRun`), and `Returns` that of `FileNames`: a program with one thread that
waits for nobody takes a step if it has one. The walk of `CpplintRun` is bounded
by the path of the file and its errors by `MaxErrors`, so `Terminates` says that
no combination of early returns and exceptions keeps the loops going. The walk
of `RepositoryName` is not bounded by the model: with a `.svn` in the root
directory it goes round there for ever, as the code does, and `Returns` excludes
that layout.

## 5. Proofs

Each theorem is about every value of the constants that its assumptions allow.
Every leaf of every proof is checked by TLAPS; `RunInv`, which a run checks, is
in `CpplintRun`, types (`TypeOK`) are in their modules, and every other
inductive invariant is in the module of its proof, in front of it.

| Theorem | States | For |
|---|---|---|
| `RunInvHolds`, `FiltersAlwaysRestored`, `NestedConfigWins`, `ExclusionIsHonoured`, `RunImplementsContract` (`CpplintRunProofs`) | `RunInv`, `FiltersRestored`, `NestedCfgWins`, `ExclusionHonoured`, `ImplementsContract` | every set of files, directories, options and `CPPLINT.cfg` trees |
| `LintInvHolds`, `NothingElseIsHidden`, `MarkedStaysHidden` (`LintFileProofs`) | `OnlyMarkedIsHidden`, `MarkedIsHidden` | any number of files of any length, with any comments and findings |
| `NestInvHolds`, `OneBranchIsCounted` (`NestingStateProofs`) | `OneBranchCounts` | texts of every length, of any lines, with conditionals nested in any way, complete or not |
| `NestingIsTracked`, `AsmLinesAreSkipped` (`NestingStateProofs`) | `Tracks`, `AsmLinesSkipped` | texts of every length and nesting, with conditionals, of any lines that mean what they show in a text of one block (`LinesMean`) |
| `LayoutIsReported` (`NestingStateProofs`) | `LayoutReported` | the same texts, of lines that also begin and end what they seem to in a text of one block (`LinesLook`) |
| `LengthsInvHolds`, `LongFunctionsAreReported`, `TypesOfLengths`, `LongFunctionsArePrinted` (`FunctionLengthsProofs`) | `LongFunctionsReported`, `AlwaysPrinted` | every file, and levels of `--verbose` from 0 to 5 |
| `OrderInvHolds`, `OrderIsReported`, `RememberInvHolds`, `IncludesAreRemembered` (`IncludeStateProofs`) | `OrderReported`, `IncludesRemembered` | every set of headers, files of any length; the last one with balanced directives |
| `NamesInvHolds`, `NamesAreBelowTheRoot`, `GuardsAreDifferent`, `OwnHeadersAreFound` (`FileNamesProofs`) | `NameBelowTheRoot`, `GuardsDiffer`, `OwnHeaderFound` | trees of any depth and layout, any names, any `--root` |
| `ExpressionTypes`, `BracketsMatch`, `AnglesMatch`, `BackAtTheStart`, `TextsInsideMatch` (`CloseExpressionProofs`) | `BracketFindsItsMate`, `AngleFindsItsMate`, `BackToTheStart`, `TextsInsideAgree` | texts of every length and nesting |
| `Base64Types`, `LengthsOfBuffers`, `DecodingGivesTheInput`, `EncodesSixBitsEach` (`Base64Proofs`) | `LengthsAgree`, `RoundTrip`, `SixBitsEach` | inputs of every length, every content of the buffers |

Along which argument:

* **The run.** None of its properties is inductive. `RunInv` adds the types and
  where the walk is, that the backup of the filters holds those of the command
  line from the start of `ProcessFile` to its return (`StateInv`); that the files
  asked for are those done, the one in work and the queue (`QueueInv`); whether
  a line or level passed stops the walk (`LookInv`); that the first of the
  collected lists with a filter for a category is that of the nearest line read
  that has one, and, while the lists are applied from the last to the first,
  that the filters already decide as they must on a category no list left
  touches (`CollectInv`); and that no line read excludes the file
  (`ExcludeInv`). One lemma per action and part. The contract follows: a return of
  `ProcessFile` maps to `Leave`, an error to `Report`, the end of the run to
  `Finish`, a refused option to `Refuse`, a configuration that cannot be used to
  `Abort`, and every other step to a stutter.
* **Suppressions.** Everything stored comes from a comment of this file
  (`Sound`); the comments of the lines passed, and before the loop the
  directives of the whole file, are stored (`KnownInv`); and each report was
  right when it was made (`AllRight`), which stays true because stored
  suppressions are only taken away between files.
* **Conditionals.** A line counts if no conditional has it in another branch than
  its first, or than its last one so far while the `#endif` is to come
  (`OtherBranches`). Every checkpoint is the stack of a prefix of the text: that
  in front of an `#if`, and that in front of its first `#else`
  (`HasCheckpoints`). A conditional that is over inside a prefix has the same
  lines that count in the prefix and in the text (`SettledText`), and an `#else`
  or `#endif` leaves out exactly the lines behind the prefix it goes back to
  (`ElseLine`, `EndIfLine`). What a line does to the stack is never looked at,
  so that the theorem holds of lines of any kind.
* **Nesting.** The stack is the nesting of a text of any length, because neither
  a line nor what it means looks deeper than the innermost block and what is
  open in it. `LinesMean` says that the two agree on the smallest texts: at most
  one block, of line 1, and a parenthesis or assembly in it (`SmallTexts`). Any
  text that is tracked is such a small text over the blocks around it
  (`SmallText`), and reading a line, and doing what it means, is the same over
  them (`Over`, `OverReading`), with the line of the small text for the line of
  the text (`Like`). So one line of any text keeps the two together. With
  conditionals the line goes on from a prefix of the text: that every prefix is
  tracked is the invariant (`SourceInv`), and `NestInv` says which prefix it is.
* **Layout of scopes.** A line that begins an item in the innermost scope, or
  ends that scope, is seen to do so in the small text (`LinesLook`), and the
  stacks behind it are alike in all the checks compare: one block more, with the
  first line of the block below it that of the old top (`BelowAlike`), and the
  same blocks ended (`EndedAre`). Every block has the indentation of the line
  that starts it, and starts on a line that was read (`KnownStarts`), also one
  that comes back from a checkpoint; so a block that ends is the scope of the
  text or begins and ends on one line, where its indentation and its distance
  are nothing to report. A directive shows nothing and means nothing: it is
  never an item, since the stack in front of it is kept or copied (`NotCopied`).
  What was reported stays true because what follows a line stays behind it
  (`EntriesOf`).
* **Function lengths.** A function that is open is the only one of its file that
  has started and not ended, and the counter is the difference of two sums over
  the lines of the file (`Counting`). The confidence of a report is the
  greatest level for which the base trigger, doubled that often, is not more
  than the lines (`LevelOfSize`).
* **Order of includes.** `_section` tells the latest group since the last
  directive (`SectionInv`), so a report depends on the lines only.
* **Includes that count.** There is a list for every `#if`, also for one that
  has ended, and in it exactly the includes since that `#if` that no `#else`
  before the next has ended (`ListsInv`). This holds with directives in any
  order. `IncludesRemembered` speaks of being outside every conditional and is
  proved of files whose `#else` and `#endif` are inside one (`Balanced`), as in
  every text that a compiler takes; the run has the same condition.
* **Names.** While the directories with a `.svn` are climbed, `root_dir` is the
  last of an unbroken chain of them (`SvnWalk`); while the others are,
  `root_dir` is the outermost one with a mark so far (`UpWalk`). The words of a
  guard are the path below the root; what is in front of it is the same in one
  repository, so that equal guards are equal paths.
* **The header of a source.** Two paths are compared component by component.
  Leaving out `public` and `internal` distributes over the two parts of a
  directory (`StripConcat`), so the path of a header named from its root is the
  end of the path of its source, and the part in front of it is the root, unless
  such a directory is at or above the start of the name. A header in `public`
  beside `internal` has the same root as its source, because neither directory
  has a mark (`MarkedAbove`).
* **Brackets.** The stack of the code also holds every `<` it has met. There is
  an increasing map from the open brackets (a history variable) to places of the
  stack that hits every bracket on it (`Within`), and a bracket stays at its
  bottom; so the search cannot end before the brackets do, and an angle on the
  stack never decides anything. In a text whose angles can all be brackets, the
  stack is what is open (`TidySearch`).
* **The way back.** The text that was read is a history of what was open after
  each character (`History`). What is pending on the way back from a mate are
  the mates of what was open there (`WayBack`), and where nothing was open
  before, the way ends.
* **`_GetTextInside`** after each character waits for the mates of the brackets
  that are open, or has failed at one that does not fit.
* **Base64.** `Written` describes the output of the encoder block by block,
  `Gathered` and `Returned` what the decoder has collected and written of it.
  Three bytes are four values below 64 and back (`Sextets`), the two tables are
  inverse, and an incomplete block gives its bytes from the characters before
  the padding, whatever the rest of the buffer.

What is assumed of the constants:

* `RunAssumption`: command lines and configuration files have their types.
* `LintAssumption`: `LegacyCategories` are no categories and no category that
  is reported is unknown. In the code the reported ones are in
  `_ERROR_CATEGORIES`, the legacy ones, `readability/streams` and
  `readability/function`, are not, and `error` is called with no other.
* `LinesMean`: a line does in the smallest texts to the stack what its meaning
  does to the scopes. It relates a line of C++ to what `Update` sees of it; both
  are data here, and the code has no other place where they could differ. TLC
  evaluates it for each of the lines of the instance in each small text.
* `LinesLook`: in the same texts a line begins and ends the items of a namespace
  it means to, a class ends with a brace in front of its line, a comment that
  names a namespace stands behind one that started on another line, a macro is
  one line and the next, and a directive stands in no macro, opens nothing and
  means nothing. The last four say of which texts the property speaks.
* `AlphabetsAssumption`: texts are made of these lines.
* `IncludeAssumption`: a header is of one of the five types `_ClassifyInclude`
  returns.
* `FilesAssumption`: a file has its full name and a directory, none lies in
  `/`; `RepositoryName` and `FilesBelongToSameModule` get absolute names from
  `FullName` and `CheckForIncludeWhatYouUse`.

Two definitions turned out to be wrong to reason about, or wrong, while they were
proved. A `CASE` whose guards overlap has no value by its definition, though TLC
takes the first: those of `Tops` and `ExplicitError` are chains of `IF`
now. And `OwnHeaderFound` used to except only a name whose first directory is
`public` or `internal`: the proof fails for a root below such a directory, and so
does the code (section 6).

What is only model-checked, and why: `Terminates` and `Returns`, because
liveness is out of the provers' reach; the properties of `nesting_texts` about
blank lines, braces and declarations, which look at several lines at once and
whose references enumerate layouts;
`SuggestionsKeepMeaning`, the four of `blocks` and the two of `cleansing`, whose
references are recursive parsers.

## 6. Where the code differs from what is written about it

Two runs end in a violation:

* `run_leaked_linelength`: `linelength` in the `CPPLINT.cfg` of one directory
  stays in force for the files of another (5895), though the usage text says it
  has an effect on its directory and those below (176-177).
* `lint_nolint_ahead`: an error reported ahead of the line that is processed is
  printed in spite of the comment on its line (3937), though the usage text says
  NOLINT suppresses errors on that line (70-71).

Other differences came up while modelling and are stated by no property:

* A class whose head goes over several lines is taken to end on its first line,
  where no brace is open yet (2190-2197), so its sections are never asked for a
  blank line, though the comment at 3603-3606 means to account for such heads.
* A DISALLOW macro that is followed by nothing but `#endif` is told not to be
  the last thing in the class (2219).
* A block that begins with six blanks behind a line of initializers hides the
  redundant blank line in it (3133-3141).
* The type parameter of a template that is over counts as a type in the
  declarations behind it, and `if (a){` needs no blank if its class ends right
  behind it (3436, 3517).
* `A(int a = 1 << 2)` ends `CheckForNonStandardConstructs` with an IndexError
  (2803), and `A(int a, Foo b = {1, 2})` is not told to be explicit, because the
  comma in the braces counts as one between arguments. The parameters of a
  constructor over several lines are not seen at all. `ExplicitReported` speaks
  of no such parameters (`HasUnclearParams`).
* In the body of a method of `A` a line `A(a);` is told that the constructor
  should be explicit, though the comment at 2768-2770 means to return early if
  the top of the stack is not a class: `InnermostClass` searches the whole stack
  (2650-2660). `ExplicitReported` leaves these calls out.
* More is reported as a non-const reference than declares one, though the
  comments at 4927-4929, 4993, 5011 and 5015-5017 mean to leave it alone: an ampersand at
  the end of initializers whose colon does not start its line, the parameters of
  a function that overrides, if `override` is on a later line than their end,
  and those of a swap or stream operator more than two lines behind its name.
  A const parameter behind a reference whose line ends inside template arguments
  is reported once more. A reference on the line on which initializers start may
  go unreported. `ReferencesReported` leaves these lines open (`Mistaken`,
  `StartOfInitializers`). The parameters of `A<int>::F`, defined out of its
  class, are reported too, while those of `A::F` are not (4849-4907); its texts
  have no such definition.
* `CHECK(a & b == 4)`, `CHECK(4 < a == b)`, `CHECK(b ? a : c == 4)` and
  `CHECK(a = b == 4)` are told to be replaced by macros that test something
  else (4079-4116).
* Along one chain the innermost filters but the outermost `linelength`, `root`
  and `headers` win, because the latter are applied at once (5892-5905).
* The header behind one that is out of order is compared with it in the
  alphabet although it is of another group (4490, the comment at 786-787).
* The parenthesis that closes a call behind a lambda of several lines is counted
  on another block than the one that opens it, and classes behind it are pushed
  as plain blocks (2515, 2563).
* A multi-line comment without an end is reported on the line behind its start
  (1374); `CheckForBadCharacters` sees `/**/` for the lines of such a comment
  although it means to see raw lines (5834-5836).
* `--extensions` and `--headers` depend on their order; a negative `--verbose`
  is taken.
* Of the names: `foo-test.cc` has an own header for `_ClassifyInclude` and none
  for `FilesBelongToSameModule`; a header in `internal` that is named from there
  makes the one above be opened, and so does one named from a root below a
  directory `public` or `internal`, because the prefix is cut from a path without
  that directory (5347-5361): for the source `/internal/t/foo.cc` with the root
  `/internal`, `t/foo.h` is looked for as `/t/foo.h`; `ar.h` makes the `bar.h` beside `bar.cc` count
  as its header, opened as `b` and `ar.h`. `OwnHeaderIsOwn` excludes the first
  three, `OpenedIsOwn` includes the last.
* Two headers are told the same guard if their paths are the same words with
  other punctuation (`p/foo.h` and `p_foo.h`, `foo-inl.h` and `foo_inl.h`), and
  with `--root` if one lies in that directory and the other has the rest of its
  path outside (1785-1786). `GuardsDiffer` says that there are no others.
* `base64_encode` and `base64_decode` write a zero behind what they return the
  length of (139, 185), so a buffer needs one byte more than `base64_enc_len` and
  `base64_dec_len` give. `main` (239-243) allocates just `base64_enc_len` bytes
  and one byte is written behind them. `LengthsAgree` says that it is that one
  byte, always; `main` is not modelled.
* `base64_dec_len` reads in front of a text that has nothing but padding (196);
  nothing in the repository calls it so.

What C++ allows and the cleansing is not made for is "odd" in `CppLexer`: a
quote or `//` in a block comment, code behind a block comment that began an
earlier line, a line of a raw string that begins with `/*`, a string that looks
like the start of a raw string, several characters between apostrophes. The
properties speak of files without it.

## 7. Not modelled

* The style and language checks of `cpplint.py` that are regular expressions on
  one line, without state: casts, operators, commas, parentheses, comments,
  printf formats, alternative tokens, threads. To `LintFile` they are what a
  check finds.
* Of the header guard the patterns of its three lines (1819-1832, 1853-1880):
  which of them a file has is data of the file in
  `LintFile`, where the reports and the NOLINT comments that are parsed for them
  ahead of the loop are.
* In `cleansing`, of the pattern for the texts between quotes (1314) how it goes
  back over an escaped backslash inside a literal: no word of the run has one.
* The sample programs: see section 1; most call a library on constant data.
  Seen while reading and modelled nowhere: `evhttp_op.cc` leaves every request
  but the POST of one path without a reply (74); `ffmpeg_read_stream.cc` comes
  to `av_packet_unref` with no packet when an attempt fails early (130);
  `sqlite3.cc` commits four INSERTs one by one (95).
* Python itself, regular expressions, the file system (a file is there or not
  and can be read or not), output formats, messages, encodings, the build files.

## 8. Plan

Done: the run with its contract, the pass over a file, lengths, includes, names,
expressions and base64, each with the proofs of its properties; nesting, with
those about conditionals, layout of scopes, blank lines, braces and
declarations; CHECK macros; blocks; cleansing.

Next, models:

1. Casts, which look at up to five lines for a macro around them (5046-5237).
2. `sqlite3.cc` with a failure or crash between any two of its statements;
   `ffmpeg_read_stream.cc` as a retry loop over what is allocated; the replies
   of `evhttp_op.cc` and the order in which it ends.

Next, proofs of

`BlankLinesReported` and `BracesSpaced`, from `SourceInv` and what is known of
the blocks of the stack (`Known`).

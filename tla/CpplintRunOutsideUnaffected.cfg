SPECIFICATION Spec
CONSTANTS
  none = none
  malformed = malformed
  absent = absent
  unreadable = unreadable
  None <- none
  Malformed <- malformed
  Absent <- absent
  Unreadable <- unreadable
  Files <- MCFiles
  Stdin <- MCStdin
  Dirs <- MCDirs
  Path <- MCPath
  Ext <- MCExt
  Exts <- MCExts
  Roots <- MCRoots
  Categories <- MCCategories
  TopLevel <- MCTopLevel
  Prefixes <- MCPrefixes
  Matches <- MCMatches
  IncludeAlpha = "build/include_alpha"
  CmdLines <- SettingsCmdLines
  CfgFiles <- SettingsCfgFiles
  Environments <- SettingsEnvironments
  MaxErrors = 1
CHECK_DEADLOCK FALSE
INVARIANTS
  OutsideUnaffected

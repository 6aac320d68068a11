\* Every file of at most five lines.
CONSTANTS
  Lines <- MCLines
  MaxLines = 5
  Paths <- MCPaths
  Word32 = 2000
  Word64 = 4000
  MaxGroups = 3
SPECIFICATION ConfigSpec
\* The file ends.
CHECK_DEADLOCK FALSE
INVARIANTS
  SettingsLastWins
  GroupsLastWins
  LongestPrefixWins

CONSTANTS
  MaxPairs = 2
  Absent = Absent
  Short = Short
  Full = Full
  Lines <- FewLines
  MaxLines = 3
  MaxIncludes = 1
  MAX_INPUTS = 1
SPECIFICATION FairStartupSpec
INVARIANTS TypeOK KeysMatch SettingsAsSaid ConnectsWithClient
PROPERTIES IdentityKept FirstStartRuns

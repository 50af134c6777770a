SPECIFICATION CommandsSpec
CONSTANTS
  Lines <- MCLines
  MaxChanges = 2
INVARIANTS CwdOpens
PROPERTIES CdAsMeant ArgumentsBelowCwd

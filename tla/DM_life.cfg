SPECIFICATION FairSpec
CONSTANTS
  a = a
  Pkgs = {a}
  Users = {a}
  Whites = {{}}
  Blacks = {{}, {a}}
  Editable = {"white"}
  MaxLines = 2
  RotateAt = 2
  LogFaults = {"rename"}
CHECK_DEADLOCK FALSE
INVARIANTS NoLineLost LastLinesKept ExitWritesAll NothingLeftFrozen Restored
PROPERTIES ShutdownExits UninstallEnds LinesWritten

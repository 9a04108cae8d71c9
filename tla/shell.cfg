CONSTANTS
  Modes = {"interactive", "script", "command"}
  Scripts <- SomeScripts
  Lines <- SomeLines
  Commands <- SomeCommands
  Unwritten = {"NUL", "x"}
  Directories <- SomeDirectories
  Regulars <- SomeRegulars
  Programs <- SomePrograms
  InitialPath <- SomePath
  PathSize = 8
  InitialEnv <- SomeEnv
  POINTER = 3
  Pids = {1, 2}
  MaxRead = 4
  MaxLines = 3
SPECIFICATION Spec
INVARIANTS WordsExact EnvSeen ScriptInOrder ForegroundDone SearchOrder
CHECK_DEADLOCK FALSE

SPECIFICATION Spec
CONSTANTS
  Main = Main
  Listener = Listener
  NoThread = NoThread
  Threads = {Main, Listener}
  kbd = kbd
  mouse = mouse
  Codes = {kbd, mouse}
  MaxInstances = 3
  Registered = {"reload"}
  Lines = {"", "exit", "help", "reload"}
  MaxLines = 2
CHECK_DEADLOCK FALSE
INVARIANTS
  ReferencesShared
  OneLateCommand
  AloneAtTheEnd
PROPERTIES
  OnlyReentryBlocks
  ConsoleEnds

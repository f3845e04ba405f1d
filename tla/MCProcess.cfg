SPECIFICATION Spec
CONSTANTS
  ConfigPaths <- MCPaths
  NoFile = NoFile
  MaxTasks = 2
INVARIANTS QuietBeforeClose EventsAreAccepted ClosedLast ConfigStable
PROPERTIES SignalExits

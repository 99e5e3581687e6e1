CONSTANTS
  Workspace <- MCWorkspace
  Home <- MCHome
  Inputs <- MCInputs
  Contents <- MCContents
  Hunks <- MCHunks
  Output <- MCOutput
  Blank = "blank"
  MaxRead = 2
  MaxWrite = 2
  MaxWorkspace = 3
  MaxCalls = 3
  MaxSteps = 2
SPECIFICATION Spec
CHECK_DEADLOCK FALSE
INVARIANTS
  TypeOK
  SizeBounded
  WorkspaceStays
PROPERTIES
  FailedCallChangesNothing
  UnconfirmedKeepsFiles

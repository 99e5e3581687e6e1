CONSTANTS
  Workspace <- MCWorkspace
  Home <- MCHome
  Inputs <- OneFile
  Contents <- MCContents
  Hunks <- MCHunks
  Output <- MCOutput
  Blank = "blank"
  MaxRead = 2
  MaxWrite = 2
  MaxWorkspace = 4
  MaxCalls = 3
  MaxSteps = 2
SPECIFICATION Spec
CHECK_DEADLOCK FALSE
PROPERTIES
  UpdateIsExact

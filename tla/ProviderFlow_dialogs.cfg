CONSTANTS
  f1 = f1
  f2 = f2
  p1 = p1
  p2 = p2
  p3 = p3
  x = x
  z = z
  std = std
  legacy = legacy
  typed = typed
  openai = openai
  ollama = ollama
  speech = speech
  chat = chat
  responses = responses
  Flows = {f1, f2}
  Providers = {p1, p2, p3}
  FirstData <- MCFirstData
  ProfileIds = {1, 2, 3, 4, 5, 6}
  Agents = {"agent"}
  MaxRefs = 1
  Models = {std, legacy, typed}
  Conns = {x, z}
  DriverOf <- MCDriverOf
  UrlOf <- MCUrlOf
  ServerModels <- MCServerModels
  ListedProviders = {openai, ollama, speech}
  DriversOf <- MCDriversOf
  CatalogModels <- MCCatalogModels
  Filters = {"default", "all"}
  Shows <- MCShows
  Threshold = 3
  Versions = {0, 1}
SPECIFICATION Spec
CHECK_DEADLOCK FALSE
INVARIANTS
  ListBelongsToConnection
PROPERTIES
  SaveKeepsUsedProfiles
  SelectionIsHonoured
  TwinsOnlyFromRaces
  WaitsEnd

SPECIFICATION MCSpec
CONSTANTS
  ai = ai
  script = script
  Events = {1, 2, 3}
  ContentOf <- MCContentOf
  VendorIdsOf <- MCVendorIdsOf
  TimeOf <- MCTimeOf
  DeployedOf <- MCDeployedOf
  Catalogue <- MCCatalogue
  Cap = 35
  MaxSignatures = 20
  ScanLimit = 2
  Infinite = 999
  Replies <- MCReplies
  Batch = 2
  AiRuns = {ai}
  MaxFaults = 1
  Pieces <- MCPieces
  MaxPieces = 3
  MaxVolume = 1000
  TacticCatalog <- MCTactics
  CriticalTactics <- MCCritical
  GraphEvents <- MCGraphEvents
  MaxGraph = 4
  MaxDepth = 4
  Vocabulary <- MCTokens
  MaxTokens = 4
  Known = {"psexec.exe"}
  MappedIds = {"T1218.011"}
  Fields <- MCFields
  MaxFields = 4
  ParsingTimes = {{"time1"}}
INVARIANTS VendorStandsAlone RebuiltWhole ChainsReach InventionIsFlagged PairsAreJudged EvidenceArrives
PROPERTIES TagsKeepTheirSource TagsComeBack ScoreGrows
CHECK_DEADLOCK FALSE

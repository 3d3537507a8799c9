SPECIFICATION ServicesSpec
CONSTANTS
  c1 = c1
  c2 = c2
  e1 = e1
  e2 = e2
  Requesters <- MCRequests
  Askers <- MCRequests
  Swappers <- MCRequests
  Saved <- MCSaved
  Presets <- MCSaved
  Bots <- MCSaved
  ModelLists <- MCModelLists
  NoModel = NoModel
  NoRow = NoRow
  Settings <- MCSettings
  WithBase <- MCBased
  Initial = "based"
  MaxRequests = 2
  NoPreset = NoPreset
  Unset = Unset
  Unheld = Unheld
  Tokens <- MCSaved
  PutBodies <- MCPutBodies
  Pool <- MCPool
  MaxBatch = 1
  MaxThreads = 2
  MaxSwaps = 3
  None = None
  Directory <- MCDirectory
  Missing = "m"
  MaxNeeds = 3
  Clients <- MCRequests
  Ids <- MCSaved
  Names = {g, h}
  Written = {}
  MaxLines = 4
  NoName = NoName
  Placeholder = Placeholder
  Nobody = Nobody
  Gone = Gone
SYMMETRY Symmetry
INVARIANTS OneActiveAlone SavedTogether PresetsInOrder NoStrayLoop LoginStands LoadedAsDeclared MovesOnlyTheNamed NoNoteIsLost
CHECK_DEADLOCK FALSE

SPECIFICATION Spec
CONSTANTS
  Default = "0"
  Bases = {"0", "k"}
  Uploads <- UploadsTried
  Near <- NearTried
  MaxDrops = 1
  MaxConcurrent = 1
  MaxFinished = 1
  Faults = {"build", "load", "embed", "delete", "print", "row"}
INVARIANTS NothingHalfStored
PROPERTIES RecordedIsSearchable EveryUploadEnds

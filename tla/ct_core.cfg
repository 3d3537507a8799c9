SPECIFICATION ChatSpec
CONSTANTS
  Cids = {a}
  Conns = {w1, w2}
  Turns = {t1, t2}
  Guests = {g1}
  None = none
  MaxAsks = 1
  Watchers = {w1, w2}
  Streams = {t1, t2}
  Rooms = {a}
  MaxFrames = 2
  Nobody = Nobody
  Actors = {w1, w2}
  Convs = {a}
  Bindable = {}
  Cascades = FALSE
  Enough = 1
  MaxAccepted = 3
  MaxBesideQQ = 2
  Unbound = Unbound
  Nowhere = Nowhere
SYMMETRY Interchangeable
INVARIANTS OneAtATime ToolsNeedConsent BusyMeansAsking RelayKeepsFaith AnswersFollow WipedStaysWiped
PROPERTIES EntriesOutliveOthers ImplementsDialogue
CHECK_DEADLOCK FALSE

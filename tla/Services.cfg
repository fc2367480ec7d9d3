SPECIFICATION MCSpec
CONSTANTS
  MaxRedials = 1
  Size = 2
  Sounds = {incoming, outgoing}
  Chosen = {"available", "busy", "away", "offline", "hidden"}
  MaxRequests = 3
  Rooms = {r1}
  r1 = r1
  MaxChanges = 2
  MaxStarts = 3
  Favorites <- MCFavorites
CHECK_DEADLOCK FALSE
INVARIANTS
  RowTellsTransfer
  CallbackHasEntry
  StateIsRestored
  ChangesAreSaved
PROPERTIES
  ProtocolSpec
  StopEnds
  StopSilences
  IdleGoesAway
  FavoritesAgree
  LastFrameGoes

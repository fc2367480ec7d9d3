SPECIFICATION MCSpec
CONSTANTS
  Texts = {t1, t2}
  Edits = {e1}
  Sents = {s1}
  RoomKinds = {TRUE, FALSE}
  MaxPending = 2
  Logs = Logs
  RoomChannels = {c1, c2, c3}
  NoChannel = NoChannel
  Contacts = {me, f1, f2}
  Self = me
  Tokens = {m1, m2}
  Old = {m1}
  Groups = {TRUE, FALSE}
  Reporting = {TRUE, FALSE}
  MaxReports = 2
  Chats = {"r", "p", "q"}
  Rooms = {"r"}
  Sms = {"q"}
  Ids = {"r", "p"}
  Id <- MCId
  Windows = {w1, w2, w3, w4}
  Drafts = {"", "a"}
  NoText = ""
  Typed = {"r"}
  MaxClosed = 2
  None = None
CHECK_DEADLOCK FALSE
INVARIANTS
  UnreadIsExact
  BarsGoWithTheirChannel
  ChannelFollowsServer
  ChatsAreKept
PROPERTIES
  FocusedGetsRead
  NeededIsAskedFor
  RoomsAreAsked

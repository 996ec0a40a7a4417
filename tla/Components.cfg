CONSTANTS
  Owners = {o1, o2}
  ToolCalls = {k1, k2, k3}
  MaxPending = 2
  MaxRevision = 2
  Clouds = {c1}
  Requests = {1, 2, 3}
  MaxEvents = 2
  MaxPolls = 2
  Relays = {p1, p2}
  Strangers = {x1}
  MaxAttempts = 2
  Chats = {v1}
  HistoryLimit = 2
  MaxOrders = 3
  MaxRuns = 3
  MaxAsks = 1
  MaxLate = 1
  Accounts = {a1, a2}
  Texts = {t1}
  Submissions = {s1}
  MaxParts = 2
  MaxTries = 2
  MaxRetried = 1
  MaxConnections = 2
SPECIFICATION Spec
CHECK_DEADLOCK FALSE
INVARIANT ComponentsTypeOK
INVARIANT CallsAccountedFor
INVARIANT EventsInOrder
INVARIANT KnownCloudsArePolled
INVARIANT OneRelay
INVARIANT NothingLeftBehind
INVARIANT CommandsOnceInOrder
INVARIANT CleanDraftIsSaved
PROPERTY UndeliveredTextIsKept
PROPERTY AttachmentSettles
PROPERTY CommandsEnd

CONSTANTS
  CallIds = {c1, c2}
  CallClients = {q1, q2}
  MaxCallCrashes = 1
  Settlers = {q1, q2}
  NoticeUsers = {"alice", "bob"}
  Tabs = {t1, t2}
  ChannelRoom = 2
  MaxNotices = 3
  AppMasterKeys = {"old", "new"}
  AdminHandlers <- OneHandler
  MaxGen = 5
SPECIFICATION GatewaySpec
INVARIANTS
  GatewayTypeOK
  CallReachable
  SettingsKept
  NoticeOnceToOwner
  TableOpens
  KeyLifetimes
PROPERTIES
  RelayEnds
\* A relay stops, and the requests of a run are bounded.
CHECK_DEADLOCK FALSE

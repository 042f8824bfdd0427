SPECIFICATION FairPageSpec
CONSTANTS
  Client = {c1, c2, c3}
  UID <- MCPages
  MaxPages = 2
  Handle = {h1, h2}
  Content = {d1, d2}
  NoContent = NoContent
  NoClient = NoClient
  NoUID = 0
  NoHandle = NoHandle
  MaxHandles = 1
  RefMod = 4
INVARIANTS UsersShareCopy CountExact
PROPERTIES CacheIsCoherent SubscribersWoken
CHECK_DEADLOCK FALSE

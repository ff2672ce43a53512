SPECIFICATION SocketSpec
CONSTANTS
  c1 = c1
  c2 = c2
  Conns = {c1, c2}
  Elsewhere = {p1}
  AcceptLimit = 1
  MaxGlobal = 1
  MaxPerUser = 1
  LocalMax = 1
  PoolMax = 2
  QueueCap = 2
  MaxVersion = 1
  MaxEvents = 1
CONSTRAINT OneScene
INVARIANTS ToldMeansStored OverrunBounded
PROPERTIES RevokedIsCut RoomReturns
CHECK_DEADLOCK FALSE

SPECIFICATION SocketsSpec
CONSTANTS
  w1 = w1  k1 = k1  k2 = k2  v1 = v1  v2 = v2
  Client = {1, 2, 3}
  NetWorker = {w1}
  Fd = {5, 6}
  Blocks = 1
  NoFd = NoFd
  NearShift = 1
  LevelShift = 1
  Timer = {k1, k2}
  MaxDelay = 15
  MaxDiff = 1
  Sender = {v1, v2}
  MaxId = 2
  Item = {1, 2}
  Paused = {1}
  PipeSize = 2
  NoEvent = NoEvent
CHECK_DEADLOCK FALSE
SYMMETRY Senders
INVARIANTS
  TypeOK
  ConnMeansOpen ClosedOnce
  FiresOnTime SameTickInOrder
  SendingCounts CloseOnce WholeInOrder WriteArmed CloseFlushes ClosingEnds

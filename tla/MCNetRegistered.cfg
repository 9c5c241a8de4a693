SPECIFICATION NetSpec
CONSTANTS
  w1 = w1
  Client = {1, 2}
  NetWorker = {w1}
  Fd = {5}
  Blocks = 1
  NoFd = NoFd
CHECK_DEADLOCK FALSE
INVARIANT Registered

SPECIFICATION SchedulerSpec
CONSTANTS
  w1 = w1  w2 = w2  b1 = b1  b2 = b2  m1 = m1  m2 = m2
  Worker <- TwoWorkers
  Main = Main
  Socket = Socket
  None = None
  Msg = {m1, m2}
  MaxServices = 2
  EachNum <- ShiftedEachNum
  CallBudget <- MainCallsMost
  KillTarget = {}
  Listener = {}
  Runner = {w1}
  Buf = {b1, b2}
  Size <- LargeThenSmall
  SendBuf = 2
  MaxReceive = 1
  PeerMay = {"fin", "reset"}
  Nil = Nil
PROPERTY AwakeWorkerServes

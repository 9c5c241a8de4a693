SPECIFICATION FairSpec
CONSTANTS
  w1 = w1  w2 = w2  m1 = m1  m2 = m2
  Calls = 2
  Worker <- TwoWorkers
  Main = Main
  Socket = Socket
  None = None
  Msg = {m1}
  MaxServices = 2
  EachNum <- ShiftedEachNum
  CallBudget <- MainCallsMore
  KillTarget = {}
  Listener = {1}
PROPERTY QueuedIsServed

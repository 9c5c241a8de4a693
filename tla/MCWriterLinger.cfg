SPECIFICATION WriterFairSpec
CONSTANTS
  w1 = w1  w2 = w2  b1 = b1  b2 = b2
  Runner = {w1}
  Buf = {b1, b2}
  Size <- LargeThenSmall
  SendBuf = 2
  MaxReceive = 0
  PeerMay = {}
  Nil = Nil
PROPERTY LingerCloses

SPECIFICATION FairSpec
CONSTANTS
  ThreadCount = 2
  QueueMax = 1
  c1 = c1  c2 = c2
  Conns = {c1, c2}
  u1 = u1
  Urls = {u1, NoUrl}
  NoUrl = NoUrl
  Home <- HomeDef
  Test = Test
  NoSock = NoSock
PROPERTIES EveryRequestServed

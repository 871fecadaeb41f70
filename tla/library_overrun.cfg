SPECIFICATION Spec
CONSTANTS
  main = main
  worker = worker
  helper = helper
  NoThread = NoThread
  Threads = {main, worker}
  Calls <- Alone
  MaxDevices = 3
  MaxLists = 2
  MaxOpens = 1
  MaxInfos = 2
  CountSize = 256
  UintSize = 512
  ListErrors = {}
INVARIANT NoOverrun

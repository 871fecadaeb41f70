SPECIFICATION Spec
CONSTANTS
  main = main
  worker = worker
  helper = helper
  NoThread = NoThread
  Threads = {main, worker}
  Calls <- Alone
  MaxDevices = 2
  MaxLists = 2
  MaxOpens = 1
  MaxInfos = 1
  CountSize = 256
  UintSize = 512
  ListErrors = {11}
PROPERTY ListCountsDevices

SPECIFICATION Spec
CONSTANTS
  main = main
  worker = worker
  helper = helper
  NoThread = NoThread
  Threads = {main, worker, helper}
  Calls <- Shared
  MaxDevices = 2
  MaxLists = 3
  MaxOpens = 1
  MaxInfos = 2
  CountSize = 3
  UintSize = 5
  ListErrors = {1}
INVARIANT ListUsable 

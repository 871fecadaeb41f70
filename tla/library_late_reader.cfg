SPECIFICATION Spec
CONSTANTS
  main = main
  worker = worker
  helper = helper
  NoThread = NoThread
  Threads = {main, worker}
  Calls <- LateReader
  MaxDevices = 1
  MaxLists = 4
  MaxOpens = 2
  MaxInfos = 1
  CountSize = 256
  UintSize = 512
  ListErrors = {}
PROPERTY InfoOnlyWhileUp

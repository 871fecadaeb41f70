SPECIFICATION Spec
CONSTANTS
  main = main
  worker = worker
  helper = helper
  NoThread = NoThread
  Threads = {main, worker}
  Calls <- LateCloser
  MaxDevices = 1
  MaxLists = 2
  MaxOpens = 1
  MaxInfos = 1
  CountSize = 256
  UintSize = 512
  ListErrors = {}
PROPERTY CloseReleases

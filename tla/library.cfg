SPECIFICATION Spec
CONSTANTS
  main = main
  worker = worker
  helper = helper
  NoThread = NoThread
  Threads = {main, worker, helper}
  Calls <- Workers
  MaxDevices = 3
  MaxLists = 3
  MaxOpens = 2
  MaxInfos = 2
  CountSize = 3
  UintSize = 5
  ListErrors = {1}
INVARIANTS
  TypeOK
  ListUsable
  NoListLeaked
  OneOwner
  InfoListIsRight
PROPERTIES
  SessionSpec

SPECIFICATION FairSpec
CONSTANTS
  Js = js
  Ui = ui
  VideoThreads = {}
  NoThread = none
  Threaded = {draw, commit}
  Sync = {sleep}
  Script = {}
  Unregistered = {}
  RefreshTimer = refresh
  VideoFuncs = {}
  Wtxs = {w1, w2, w3}
  NoWtx = nowtx
  MaxEvents = 2
INVARIANTS
  TypeOK
  QueuesPaired
PROPERTIES
  EveryCallReturns
  ImplementsService

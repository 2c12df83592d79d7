SPECIFICATION Spec
CONSTANTS
  Js = js
  Ui = ui
  VideoThreads = {refreshThread}
  NoThread = none
  Threaded = {draw, refresh}
  Sync = {eval}
  Script = {eval}
  Unregistered = {typo}
  RefreshTimer = refresh
  VideoFuncs = {refresh}
  Wtxs = {w1, w2, w3}
  NoWtx = nowtx
  MaxEvents = 2
SYMMETRY WtxSymmetry
INVARIANTS
  LockDiscipline
  QueueCovered
  CallerKeepsContext
  ContextOwnedOnce
  WokenMeansDone
CHECK_DEADLOCK FALSE

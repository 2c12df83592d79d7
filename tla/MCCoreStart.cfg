SPECIFICATION Spec
CONSTANTS
  Plugins = {"sdlgui", "wallaby", "transaction", "js", "jsOld"}
  Names = {"gui::drawText", "gui::drawBox", "commit", "js::eval", "js::evalFile"}
  Exports <- MCExports
  NoFunction = none
  MayDaemonize = TRUE
INVARIANTS
  TypeOK
  CoreAfterPlugins
  ConditionsComplete
PROPERTY SyncNotReplaced
CHECK_DEADLOCK FALSE

SPECIFICATION FairSpec
CONSTANTS
  Plugins = {"sdlgui", "wallaby", "transaction", "js", "jsOld"}
  Names = {"gui::drawText", "gui::drawBox", "commit", "js::eval", "js::evalFile"}
  Exports <- MCExports
  NoFunction = none
  MayDaemonize = FALSE
PROPERTY CoreStarts
CHECK_DEADLOCK FALSE

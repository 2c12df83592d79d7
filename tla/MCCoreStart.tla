---------------------------- MODULE MCCoreStart ----------------------------
(***************************************************************************)
(* Instances of CoreStart for TLC: plugins/sdlgui.c, which exports two of  *)
(* its functions here, plugins/wallaby.c, which exports gui::drawBox as    *)
(* well, plugins/transaction.c, plugins/js.c and a second build of it.     *)
(***************************************************************************)
EXTENDS CoreStart

Thrd(n) == [name |-> n, threaded |-> TRUE]
Sync(n) == [name |-> n, threaded |-> FALSE]

MCExports ==
  [p \in {"sdlgui", "wallaby", "transaction", "js", "jsOld"} |->
     CASE p = "sdlgui" -> <<Thrd("gui::drawText"), Thrd("gui::drawBox")>>
       [] p = "wallaby" -> <<Thrd("gui::drawBox")>>
       [] p = "transaction" -> <<Thrd("commit")>>
       [] p = "js" -> <<Sync("js::evalFile"), Sync("js::eval")>>
       [] p = "jsOld" -> <<Sync("js::eval")>>]
=============================================================================

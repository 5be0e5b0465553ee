--------------------------- MODULE MCDispatchLoop ---------------------------
EXTENDS DispatchLoop
CONSTANTS a, b
MCTwo == {a, b}
MCLists == {"mActiveActors", "mWaitingActors", "mPassiveActors", "actors"}
MCNone == {}
MCTimeoutSend == {"timeoutSend"}
MCSecondTimeout == {"secondTimeout"}
MCOutsideTimeout == {"outsideTimeout"}
MCOutsideDelete == {"outsideDelete"}
=============================================================================

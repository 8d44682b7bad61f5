---------------------------- MODULE MCWebSocket ----------------------------
(* Model-checking instances of WebSocket; the bounds are in the cfg files. *)
EXTENDS WebSocketProps

\* A code the application picks, and one websocket_close replaces by the default.
NoCodes == {}
OneCode == {4001}
SomeCloseCodes == {4001, 0}

SomePeerCodes == {3000}
=============================================================================

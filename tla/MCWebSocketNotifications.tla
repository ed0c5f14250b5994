---------------------- MODULE MCWebSocketNotifications ----------------------
(* The instances of WebSocketNotifications that TLC checks. *)
EXTENDS WebSocketNotifications
=============================================================================

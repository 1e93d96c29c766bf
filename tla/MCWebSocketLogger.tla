------------------------- MODULE MCWebSocketLogger -------------------------
(***************************************************************************)
(* A ring of two lines, a client queue of three texts.                     *)
(***************************************************************************)
EXTENDS WebSocketLogger
=============================================================================

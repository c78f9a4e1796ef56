--------------------------- MODULE MCReconnecting ---------------------------
(***************************************************************************)
(* ReconnectingSecureWebSocketClient for TLC.  Calls and generations are   *)
(* numbered, so nothing is symmetric.                                      *)
(***************************************************************************)
EXTENDS ReconnectingSecureWebSocketClient
=============================================================================

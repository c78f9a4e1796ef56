---------------------- MODULE MCSecureWebSocketClient ----------------------
(***************************************************************************)
(* SecureWebSocketClient for TLC.  The bounds are given by the .cfg files; *)
(* calls, writes and attempts are numbered, so nothing is symmetric.       *)
(***************************************************************************)
EXTENDS SecureWebSocketClient
=============================================================================

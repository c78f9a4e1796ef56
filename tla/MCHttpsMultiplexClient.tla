----------------------- MODULE MCHttpsMultiplexClient -----------------------
(***************************************************************************)
(* HttpsMultiplexClient for TLC.  Requests, sockets and descriptors are    *)
(* numbered, so nothing is symmetric.                                      *)
(***************************************************************************)
EXTENDS HttpsMultiplexClient
=============================================================================

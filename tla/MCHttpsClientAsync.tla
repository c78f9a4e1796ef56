------------------------- MODULE MCHttpsClientAsync -------------------------
(***************************************************************************)
(* HttpsClientAsync for TLC.  Requests and generations are numbered, so    *)
(* nothing is symmetric.                                                   *)
(***************************************************************************)
EXTENDS HttpsClientAsync
=============================================================================

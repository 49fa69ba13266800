----------------------------- MODULE MCWebServer -----------------------------
(* Model checking of WebServer.                                            *)
EXTENDS WebServer, TLC

Symmetry == Permutations(Client)
=============================================================================

---------------------------- MODULE HttpServerMC ----------------------------
(***************************************************************************)
(* An instance of HttpServer for TLC.                                       *)
(***************************************************************************)
EXTENDS HttpServer

CONSTANTS w1, w2, w3,     \* workers
          c1, c2, c3, c4  \* clients

=============================================================================

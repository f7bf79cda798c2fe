---------------------------- MODULE MCHttpServer ----------------------------
(* Instances of HttpServer for TLC.  The clients that do send something    *)
(* are interchangeable, and so are the workers.                            *)
EXTENDS HttpServer, TLC

Symmetric == Permutations(Conns \ Silent) \cup Permutations(Workers)
=============================================================================

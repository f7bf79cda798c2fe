---------------------------- MODULE MCThreadPool ----------------------------
(* The instance of ThreadPool for TLC.  Liveness and refinement are checked *)
(* in the same run as safety, so no symmetry is used.                       *)
EXTENDS ThreadPool

CONSTANTS w1, w2,      (* two workers                                       *)
          p1, p2,      (* two callers that only enqueue                     *)
          main,        (* the owner, which enqueues and destroys            *)
          t1, t2, t3   (* two more than the queue holds                      *)
=============================================================================

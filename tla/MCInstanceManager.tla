------------------------- MODULE MCInstanceManager -------------------------
(* Instances of InstanceManager for TLC: directories differ in name only.  *)
EXTENDS InstanceManager, TLC

CONSTANTS h1, h2, h3, n1, n2, n3

Alike == Permutations({h1, h2, h3}) \cup Permutations({n1, n2, n3})
=============================================================================

-------------------------- MODULE MCServerInstance --------------------------
(* Instances of ServerInstance for TLC: one pool thread acts, one polls.   *)
EXTENDS ServerInstance, TLC

CONSTANTS h1, h2

(* Polls of every kind but that of the status, whose calls general makes.  *)
OneActs == h1 :> {"start", "stop", "reboot"} @@ h2 :> {"general", "players"}
(* The panel asks for the status; the other thread acts, or polls as well. *)
StartsAndStops == h1 :> {"start", "stop", "general"} @@ h2 :> {"status"}
Reboots == h1 :> {"reboot"} @@ h2 :> {"status"}
=============================================================================

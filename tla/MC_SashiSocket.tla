--------------------------- MODULE MC_SashiSocket ---------------------------
(***************************************************************************)
(* Two sashi CLI processes, each running any command on one container,    *)
(* against a daemon that already runs that container and may crash once. *)
(***************************************************************************)
EXTENDS SashiSocket, TLC

CONSTANTS n1, cl1, cl2

MCInitPorts == [peer |-> 22861, user |-> 26201, tcp |-> 36525, udp |-> 39064]

\* The instances table holds n1, running.
MCRows == n1 :> [ports |-> MCInitPorts, status |-> "running"]
=============================================================================

--------------------------- MODULE MC_SashiDaemon ---------------------------
(***************************************************************************)
(* Model values and small bounds for checking SashiDaemon with TLC.        *)
(***************************************************************************)
EXTENDS SashiDaemon

CONSTANTS n1, n2, n3

\* The initial ports of the default sa.cfg (spec scenario S1).
MCInitPorts == [peer |-> 22861, user |-> 26201, tcp |-> 36525, udp |-> 39064]

MCNames == {n1, n2, n3}

\* A fresh host: the instances table is empty.
MCEmptyRows == <<>>

\* A host upgraded from a version that stored no gp ports: both rows were
\* made before the upgrade and hold gp ports 0.
MCLegacyRows ==
  (n1 :> [ports |-> [peer |-> 22861, user |-> 26201, tcp |-> 0, udp |-> 0],
          status |-> "running"])
  @@ (n2 :> [ports |-> [peer |-> 22862, user |-> 26202, tcp |-> 0, udp |-> 0],
             status |-> "running"])

MCSymmetry == Permutations(MCNames)
=============================================================================

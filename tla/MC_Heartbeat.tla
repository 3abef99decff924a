---------------------------- MODULE MC_Heartbeat ----------------------------
EXTENDS Heartbeat

\* Registration states at start: never, in the previous moment, early and
\* late in the start moment.
MCLastHeartbeats == {0, 2 * 3600 + 1000, 3 * 3600 + 10, 3 * 3600 + 1700}
=============================================================================

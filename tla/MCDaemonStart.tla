---------------------------- MODULE MCDaemonStart ----------------------------
\* Instances of DaemonStart for TLC: c1 is of the build Old is of, c2 of another.
EXTENDS DaemonStart, TLC

CONSTANTS c1, c2, old, new

Builds == c1 :> old @@ Old :> old @@ c2 :> new
=============================================================================

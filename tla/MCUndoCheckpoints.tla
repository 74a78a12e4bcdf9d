-------------------------- MODULE MCUndoCheckpoints --------------------------
\* Instances of UndoCheckpoints for TLC.
EXTENDS UndoCheckpoints, TLC
=============================================================================

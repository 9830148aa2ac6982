--------------------------- MODULE MCTrapContext ---------------------------
(* Two generations of register values: enough to tell a stale value from a *)
(* current one.                                                            *)
EXTENDS TrapContext

MCVersions == {0, 1}

=============================================================================

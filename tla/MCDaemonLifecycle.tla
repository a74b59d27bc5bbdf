------------------------- MODULE MCDaemonLifecycle -------------------------
(* Small instances of DaemonLifecycle for TLC. *)
EXTENDS DaemonLifecycle

CONSTANTS d1, d2, d3, a1, a2, c1

MCTwoDaemons == {d1, d2}
MCDaemons == {d1, d2, d3}
MCAttachers == {a1, a2}
MCControls == {c1}
MCNone == {}
=============================================================================

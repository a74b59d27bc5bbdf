------------------------ MODULE MCProcessSupervisor ------------------------
(* Small instances of ProcessSupervisor for TLC.                           *)
EXTENDS ProcessSupervisor

CONSTANT p1

MCIds == {p1}
=============================================================================

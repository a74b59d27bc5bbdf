------------------------------ MODULE MCCollab ------------------------------
(* Two frontends, for TLC.                                                 *)
EXTENDS Collab

CONSTANTS f1, f2

MCFrontends == {f1, f2}
=============================================================================

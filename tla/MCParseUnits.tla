---------------------------- MODULE MCParseUnits ----------------------------
(* Small instances of ParseUnits for TLC.                                  *)
EXTENDS ParseUnits

MCSerials == 1..3
=============================================================================

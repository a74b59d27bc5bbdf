----------------------------- MODULE MCAutosave -----------------------------
(* Model-checking instance of Autosave: two buffers that may visit the same *)
(* path, two paths.  Paths are interchangeable.                             *)
EXTENDS Autosave, TLC

CONSTANTS p1, p2

MCBuffers == {1, 2}
MCPaths == {p1, p2}
MCOnePath == {p1}

(* What may fail, and what the user does. *)
Mix(faults, ops) == [faults |-> faults, ops |-> ops]

(* Sessions that are edited, renamed, saved, quit and disabled; sessions   *)
(* on crash data; installs that fail and an installer that panics while    *)
(* quits stage; staging writes that fail after orphans are retired.        *)
MCSessions ==
  {Mix({}, {"undo", "rename", "save", "kill", "quit", "crash"}),
   Mix({}, {"enable", "save", "kill", "quit"}),
   Mix({}, {"rename", "kill", "recover", "discard", "crash"}),
   Mix({}, {"rename", "save", "recover", "sweep"}),
   Mix({"install"}, {"quit"}),
   Mix({"panic"}, {"quit"}),
   Mix({"write"}, {"rename", "kill"})}

(* Staging writes that fail until the disk heals. *)
MCLive == {Mix({"write"}, {"kill", "quit", "heal"})}

(* The instances that TLC refutes. *)
MCOrphan == {Mix({"write"}, {"rename"})}
MCLeak == {Mix({"install"}, {"kill", "heal"})}

PathSymmetry == Permutations(MCPaths)
=============================================================================

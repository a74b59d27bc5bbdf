--------------------------- MODULE MCAsyncRuntime ---------------------------
(* Small instances of AsyncRuntime for TLC. *)
EXTENDS AsyncRuntime

CONSTANTS k1, t1, t2

MCKeys == {k1}
MCTasks == {t1, t2}

(* The key's jobs and a parse, which has none. *)
MCLoads == [kind : Kinds \ {"parse"}, key : {k1}] \cup [kind : {"parse"}, key : {NoKey}]
=============================================================================

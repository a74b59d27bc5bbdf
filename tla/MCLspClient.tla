---------------------------- MODULE MCLspClient ----------------------------
(* Small instances of LspClient for TLC. *)
EXTENDS LspClient

CONSTANTS uri1, uri2

MCSids == 1..2
MCScenarios == {{"edit", "ask"}, {"ask", "rename", "publish"}, {"ask", "crash"},
                {"ask", "crash", "never"}, {"edit", "save", "stop"},
                {"ask", "cancel"}, {"rename", "delete", "crash"},
                {"edit", "save", "crash"}}
MCRestart == {{"edit", "crash"}}
=============================================================================

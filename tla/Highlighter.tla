---------------------------- MODULE Highlighter ----------------------------
(***************************************************************************)
(* What syntax highlighting promises a reader of a buffer, with no jobs,   *)
(* worker processes or back-offs: texts are numbered as edits make them,   *)
(* and what is painted comes from a parse of one of them.  A newer parse   *)
(* may replace it, it may be dropped and the buffer painted plain, but an  *)
(* older parse never comes back over a newer one, and nothing is ever      *)
(* painted from a text the buffer did not have.                            *)
(***************************************************************************)
EXTENDS Naturals

CONSTANT MaxText

VARIABLES
    text,      \* the buffer's text, 0 once it is killed
    painted,   \* the text the spans on display were parsed from, 0 for none
    newest     \* the newest text ever painted from

Init == text = 1 /\ painted = 0 /\ newest = 0

Edit == text \in 1..(MaxText - 1) /\ text' = text + 1 /\ UNCHANGED <<painted, newest>>

Paint == \E t \in newest..text :
    t > 0 /\ painted' = t /\ newest' = t /\ UNCHANGED text

PaintPlain == painted' = 0 /\ UNCHANGED <<text, newest>>

Close == text' = 0 /\ painted' = 0 /\ UNCHANGED newest

Next == Edit \/ Paint \/ PaintPlain \/ Close

Spec == Init /\ [][Next]_<<text, painted, newest>>
=============================================================================

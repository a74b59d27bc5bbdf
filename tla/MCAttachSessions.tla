------------------------- MODULE MCAttachSessions -------------------------
(* Instances of AttachSessions for TLC. *)
EXTENDS AttachSessions

CONSTANTS w1
MCGui == {w1}
MCMixes == {[gui |-> 3, plain |-> 0, losses |-> 1],
            [gui |-> 2, plain |-> 0, losses |-> 2],
            [gui |-> 1, plain |-> 1, losses |-> 0],
            [gui |-> 0, plain |-> 2, losses |-> 0]}
=============================================================================

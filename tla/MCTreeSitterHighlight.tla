----------------------- MODULE MCTreeSitterHighlight -----------------------
(* An interpretation for which at most two highlight tasks are started.    *)
EXTENDS TreeSitterHighlight

CONSTANTS t1, t2

TwoTasks == {t1, t2}
=============================================================================

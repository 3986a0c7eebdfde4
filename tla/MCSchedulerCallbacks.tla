------------------------ MODULE MCSchedulerCallbacks ------------------------
(* The main thread, alone or with one other, posts and cancels callbacks.  *)
EXTENDS SchedulerCallbacks

CONSTANTS main, other, c1, c2, c3

TwoThreads == {main, other}
ThreeCallbacks == {c1, c2, c3}
=============================================================================

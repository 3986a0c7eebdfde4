------------------------ MODULE MCAsyncTaskScheduler ------------------------
(* A pool of two workers that the main thread and another one share.       *)
EXTENDS AsyncTaskScheduler

CONSTANTS main, other, w1, w2, t1, t2

TwoClients == {main, other}
TwoWorkers == {w1, w2}
TwoTasks == {t1, t2}
=============================================================================

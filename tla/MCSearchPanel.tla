--------------------------- MODULE MCSearchPanel ---------------------------
(* A search panel that starts at most three searches.  The panel is an     *)
(* instance, so that the proofs of the editors have it beside the buffer.  *)
EXTENDS Naturals, Sequences, FiniteSets

CONSTANTS Tasks, NoTask, NumWorkers, MaxVersion, t1, t2, t3

ThreeTasks == {t1, t2, t3}

VARIABLES phase, pending, fate, waiting, running, at, cancelled, input, version, locked,
          shown, current, resultToken, panel, mpc

Panel == INSTANCE SearchPanel

ASSUME PanelAssumption == Panel!SearchAssumption

PanelSpec == Panel!FairSpec

(* No task and no callback finds its panel deleted, and the token of the   *)
(* callback, which is not synchronized, is not used by two threads.        *)
PanelLifetimeInv == Panel!PanelLifetimeInv

(* The matches that are shown are those of the present pattern and text.   *)
ResultsAreCurrent == Panel!ResultsAreCurrent

(* When the user rests, the matches in an open panel are shown.            *)
SearchCatchesUp == Panel!SearchCatchesUp
=============================================================================

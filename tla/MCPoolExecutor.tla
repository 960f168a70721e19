--------------------------- MODULE MCPoolExecutor ---------------------------
(* Instances of PoolExecutor for TLC.                                      *)
EXTENDS PoolExecutor

\* The word is there before the thread first looks.
NoGarbage == {Word(FALSE, TRUE)}

AnyGarbage == Words
=============================================================================

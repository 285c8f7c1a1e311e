--------------------------- MODULE MCExplanations ---------------------------
(* Two workloads for TLC, the second run Volcano's.                           *)
EXTENDS Explanations

\* Names of which one contains the other; the longer one is a gang's.
Prefix == {"train", "train-large"}
LargeGang == {"train-large"}
Nested == {<<w, w>> : w \in Prefix} \cup {<<"train-large", "train">>}

NoRun == {}
OnlySecond == {2}
EveryRun == 1..MaxRuns
=============================================================================

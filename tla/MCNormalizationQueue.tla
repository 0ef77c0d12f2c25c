------------------------ MODULE MCNormalizationQueue ------------------------
(* Small instances of NormalizationQueue for TLC. *)
EXTENDS NormalizationQueue, TLC

CONSTANTS r1, r2, w1, w2, eod

\* Every run of the instance belongs to one dataset, so all of them contend.
OneDataset == [r \in Runs |-> eod]

Symmetry == Permutations(Runs) \cup Permutations(Workers)
=============================================================================

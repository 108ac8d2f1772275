------------------------- MODULE MCDatasetVersions -------------------------
(* Small instances of DatasetVersions for TLC. *)
EXTENDS DatasetVersions, TLC

CONSTANTS c1, c2, x1, x2, hello, world, yes, no, bad

OneClient == {c1}
TwoClients == {c1, c2}
TwoIds == {x1, x2}
OneInput == {hello}
TwoInputs == {hello, world}
OneOutput == {yes}
TwoOutputs == {yes, no}

Symmetric == Permutations({c1, c2}) \cup Permutations({x1, x2})
=============================================================================

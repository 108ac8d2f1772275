-------------------------- MODULE MCPromptVersions --------------------------
(* Small instances of PromptVersions for TLC. *)
EXTENDS PromptVersions, TLC

CONSTANTS c1, c2, hello, world, none

TwoClients == {c1, c2}
TwoContents == {hello, world}

Symmetric == Permutations({c1, c2}) \cup Permutations({hello, world})
=============================================================================

---- MODULE MCGitStatus ----
EXTENDS GitStatus, TLC
Symmetry == Permutations(Workers) \union Permutations(Paths) \union Permutations(Contents)
====

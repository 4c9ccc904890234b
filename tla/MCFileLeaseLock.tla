-------------------------- MODULE MCFileLeaseLock --------------------------
\* Small instances of FileLeaseLock for TLC, and the mutants of its actions.
EXTENDS FileLeaseLock, TLC

Symmetric == Permutations(Procs)
=============================================================================

----------------------- MODULE MCUpdateCoordinator -----------------------
\* Small instances of UpdateCoordinator for TLC.
EXTENDS UpdateCoordinator

Symmetric ==
    Permutations(Txs) \cup Permutations(Plugins) \cup Permutations(Runs)
    \cup Permutations(Versions)

\* Symmetries by hand, where liveness rules SYMMETRY out: transaction ids and
\* calls are taken in one order, and every plugin starts at one version (nothing
\* compares the versions of two plugins).  No step of a call or a transaction
\* under way is cut, so what fairness promises about it still holds.
FirstTx == CHOOSE t \in Txs : TRUE
FirstRun == CHOOSE r \in Runs : TRUE
FirstVersion == CHOOSE v \in Versions : TRUE
FromFirst == pc[FirstTx] = "idle" => \A p \in Plugins : disk[p] = FirstVersion
InOrder ==
    /\ pc[FirstTx] = "idle" => \A t \in Txs \ {FirstTx} : pc'[t] = "idle"
    /\ at[FirstRun] = "idle" => \A r \in Runs \ {FirstRun} : at'[r] = "idle"
=============================================================================

------------------------ MODULE MCPluginTransaction ------------------------
\* Small instances of PluginTransaction for TLC.
EXTENDS PluginTransaction, TLC

Symmetric == Permutations(Txs) \cup Permutations(Plugins)

\* Symmetries by hand, where liveness rules SYMMETRY out: transaction ids are
\* taken in one order, and the plugins start at one version.
FirstTx == CHOOSE t \in Txs : TRUE
FirstVersion == CHOOSE v \in Versions : TRUE
InOrder == pc[FirstTx] = "idle" => \A t \in Txs \ {FirstTx} : pc'[t] = "idle"
FromFirst == pc[FirstTx] = "idle" => \A p \in Plugins : disk[p] = FirstVersion
=============================================================================

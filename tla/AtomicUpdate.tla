---------------------------- MODULE AtomicUpdate ----------------------------
(***************************************************************************)
(* What an update transaction promises, with none of its machinery: one    *)
(* transaction at a time, and each changes the installed version in one    *)
(* step, to the new version or back, or admits that it failed.             *)
(***************************************************************************)
CONSTANTS Plugins, Versions, Txs, Contents

VARIABLES
    version,  \* per plugin: the content of its directory between transactions
    job,      \* per tx: its plan item, which names the update that it undoes
    before,   \* per tx: the version of its plugin when it was opened
    outcome   \* per tx: "none", "open" or how it ended

vars == <<version, job, before, outcome>>

Init ==
    /\ version \in [Plugins -> Versions]
    /\ \A t \in Txs : outcome[t] = "none"

NoneOpen == \A t \in Txs : outcome[t] # "open"

\* The transaction ends as o, leaving content c in its plugin's directory.
End(t, o, c) ==
    /\ outcome[t] = "open"
    /\ outcome' = [outcome EXCEPT ![t] = o]
    /\ version' = [version EXCEPT ![job[t].plugin] = c]
    /\ UNCHANGED <<job, before>>

\* A transaction opens, or is refused before it does anything.
Open(t) ==
    /\ NoneOpen
    /\ outcome[t] = "none"
    /\ \E o \in {"open", "lost"} : outcome' = [outcome EXCEPT ![t] = o]
    /\ \A u \in Txs \ {t} : job'[u] = job[u]
    /\ before' = [before EXCEPT ![t] = version[job'[t].plugin]]
    /\ UNCHANGED version

Commit(t) == End(t, "COMMITTED", job[t].to)
Revert(t) == End(t, "ROLLED_BACK", before[job[t].orig])
Refuse(t) == End(t, "FAILED", version[job[t].plugin])

\* An explicit failure, or a death that leaves no one to tell.
Damage(t) == \E c \in Contents, o \in {"ROLLBACK_FAILED", "lost"} : End(t, o, c)

Next == \E t \in Txs : Open(t) \/ Commit(t) \/ Revert(t) \/ Refuse(t) \/ Damage(t)

Spec == Init /\ [][Next]_vars
=============================================================================

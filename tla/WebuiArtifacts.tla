--------------------------- MODULE WebuiArtifacts ---------------------------
(***************************************************************************)
(* ArtifactStore of core/webui_artifacts.py: files that browsers upload    *)
(* for the actions of panels and that actions return, kept in memory.  An  *)
(* artifact is its size; the store is in the order of creation.            *)
(***************************************************************************)
EXTENDS Naturals, Sequences, SequencesExt

CONSTANTS
    FileSizes,   \* sizes of the files that are offered, 0 for an empty one
    MaxArtifact, \* MAX_ARTIFACT_BYTES, 10 MB in the code
    MaxTotal     \* MAX_TOTAL_BYTES, 50 MB in the code

ASSUME ArtifactsAssumption ==
    FileSizes \subseteq Nat /\ MaxArtifact \in Nat /\ MaxTotal \in Nat

VARIABLE artifacts

ArtifactsTypeOK == artifacts \in Seq(FileSizes)
ArtifactsInit == artifacts = <<>>

Total(s) == FoldSeq(+, 0, s)

\* _cleanup by size: as many of the oldest go as it takes to be within the
\* total.
From(s, n) == SubSeq(s, n, Len(s))
PruneOne(s) == IF Total(s) > MaxTotal THEN Tail(s) ELSE s
Prune(s) == From(s, Min({n \in 1..(Len(s) + 1) : Total(From(s, n)) <= MaxTotal}))

\* put(): the checks of the size, then _cleanup of those past their lifetime and
\* by size, then the new one.  Until a put, get() serves expired ones as well.
Accepted(size) == size > 0 /\ size <= MaxArtifact
Put ==
    \E size \in FileSizes, n \in 1..(Len(artifacts) + 1) :
        Accepted(size) /\ artifacts' = Append(Prune(From(artifacts, n)), size)

---------------------------------------------------------------------------
\* The store holds at most one artifact more than MAX_TOTAL_BYTES allows, the
\* one that came last, although room is made before the new one is counted.
MemoryBounded ==
    /\ Total(artifacts) <= MaxTotal + MaxArtifact
    /\ artifacts # <<>> => Total(Front(artifacts)) <= MaxTotal
=============================================================================

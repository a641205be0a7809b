---------------------------- MODULE MCCachedRun ----------------------------
(* A complete history and one cut at a commit, every snapshot in one slot. *)
EXTENDS CachedRun, TLC

CONSTANTS slot, gixFacts, shellFacts, b1, b2, m1, m2

MCNameOf == [k \in FactsKey \cup SnapshotKey |->
                IF k \in SnapshotKey THEN slot
                ELSE IF k.backend = "gix" THEN gixFacts ELSE shellFacts]

\* Where two commands run, alterations are replacement refs alone.
Ungrafted == ~world.graph.grafts

Exchangeable == Permutations(Procs)
Symmetry ==
    Exchangeable \cup Permutations({b1, b2}) \cup Permutations({m1, m2})
=============================================================================

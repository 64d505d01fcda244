------------------------- MODULE MCTokenSingleflight -------------------------
(* Small instances of TokenSingleflight for TLC. *)
EXTENDS TokenSingleflight, TLC

CONSTANTS c1, c2, c3, g1, g2, g3, r1

MCCallers2 == {c1, c2}
MCCallers3 == {c1, c2, c3}
MCGens3 == {g1, g2, g3}
MCRepos == {r1}
MCEnvelopes == {{r1}}
MCOne == {1}
MCLifetimes == {1, 3}

\* Callers and lock identities are interchangeable.
MCSymmetry == Permutations(Callers) \cup Permutations(Gens)
=============================================================================

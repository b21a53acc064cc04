------------------------- MODULE MCAttachedModules -------------------------
(* Small instances of AttachedModules for TLC.                               *)
EXTENDS AttachedModules, TLC

CONSTANTS far, near, k1, k2

TwoManifests == {far, near}

\* One may use remote models, the other local ones: each asks for something the
\* other does not have. The second declares one command less.
TwoFacts == (far :> {"events", Remote}) @@ (near :> {"events", "models"})
DeclaredBy == (far :> {k1, k2}) @@ (near :> {k1})

ConnSymmetry == Permutations(Conns)

=============================================================================

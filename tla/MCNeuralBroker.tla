--------------------------- MODULE MCNeuralBroker ---------------------------
(* Instances of NeuralBroker for TLC. *)
EXTENDS NeuralBroker, TLC

CONSTANTS w1, w2, p1, p2, a, b, c

\* Two sources feeding one fan-in stage, as in the fusion templates.
FunnelPreds3 == (a :> {}) @@ (b :> {}) @@ (c :> {a, b})

SinglePreds == (a :> {})

\* A fan-in whose second input depends on the first: a, b with a, c with both.
NestedPreds3 == (a :> {}) @@ (b :> {a}) @@ (c :> {a, b})

\* A chain of two stages.
ChainPreds2 == (a :> {}) @@ (b :> {a})

Symmetry == Permutations({w1, w2})
SymmetryP == Permutations({w1, w2}) \cup Permutations({p1, p2})

-----------------------------------------------------------------------------
\* OutcomeIsFinal and DispatchedOnce in one: whatever a step of the engine does,
\* it neither changes a recorded outcome nor starts a second dispatch of a stage.
StepsRepeatNothing == [][KeepsOutcomes /\ DispatchesAtMostOnce]_vars
=============================================================================

----------------------------- MODULE MCBrokerLoad -----------------------------
(* Instances of BrokerLoad for TLC. *)
EXTENDS BrokerLoad, TLC

CONSTANTS w1, w2, p1, a, b

SinglePreds == (a :> {})

\* Two stages that run in parallel.
ParallelPreds2 == (a :> {}) @@ (b :> {})
=============================================================================

--------------------------- MODULE MCPropagation ---------------------------
(* Instances of Propagation for TLC. *)
EXTENDS Propagation, TLC

CONSTANTS d1, d2

\* Each of two brokers pushes to the other.
MutualPeers == (d1 :> {d2}) @@ (d2 :> {d1})

\* d1 pushes to d2, which has no peers of its own.
OneWayPeers == (d1 :> {d2}) @@ (d2 :> {})
=============================================================================

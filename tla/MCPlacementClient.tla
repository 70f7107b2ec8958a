------------------------ MODULE MCPlacementClient ------------------------
(* Small instances of PlacementClient for TLC. *)
EXTENDS PlacementClient, TLC

CONSTANTS t1, t2, t3, a1, a2

Retried(svc, addrs) == [svc |-> svc, addrs |-> addrs, retry |-> TRUE]
Network(a) == [svc |-> "openraft", addrs |-> <<a>>, retry |-> FALSE]

\* A call of the openraft network beside two that retry and try a second
\* address first; a retried key-value call beside two of the network.
MCCalls ==
    { t1 :> Network(a1) @@ t2 :> Retried("openraft", <<a1, a2>>)
                        @@ t3 :> Retried("openraft", <<a1, a2>>),
      t1 :> Network(a1) @@ t2 :> Network(a1) @@ t3 :> Retried("kv", <<a1>>) }

=============================================================================

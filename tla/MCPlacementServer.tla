------------------------- MODULE MCPlacementServer -------------------------
(* Small instances of PlacementServer for TLC. *)
EXTENDS PlacementServer, TLC

\* Node 3 is the whole cluster.
MCSingle == [n \in Nodes |-> {3}]

\* Node 2 has a table that lacks node 3; the smallest id is the same.
MCTables == 2 :> (Nodes \ {3}) @@ [n \in Nodes |-> Nodes]

MCConfs == {MCTables, MCSingle}

=============================================================================

------------------------ MODULE MCRaftMachineApply ------------------------
(* Small instances of RaftMachineApply for TLC. *)
EXTENDS RaftMachineApply

CONSTANTS n1, n2, r1, r2, r3

=============================================================================

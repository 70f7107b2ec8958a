----------------------------- MODULE MCKvEngine -----------------------------
(* Small instances of KvEngine for TLC. *)
EXTENDS KvEngine

CONSTANTS v1, v2

\* All keys, those of read_all, and two prefixes.
MCPrefixes == {Keys, {1}, {2, 3}}

=============================================================================

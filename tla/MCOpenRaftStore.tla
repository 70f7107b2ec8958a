-------------------------- MODULE MCOpenRaftStore --------------------------
(* Small instances of OpenRaftStore for TLC. *)
EXTENDS OpenRaftStore, TLC

CONSTANTS k1, k2, v1, v2

Set(k, v) == [op |-> "set", key |-> k, value |-> v]
Delete(k) == [op |-> "delete", key |-> k]
Membership == [op |-> "membership"]

\* Two keys one of which is set and deleted; a membership change.
MCCommands == {Set(k1, v1), Delete(k1), Membership}
MCTwoKeys == {Set(k1, v1), Set(k2, v1)}
MCOneKey == {Set(k1, v1), Set(k1, v2)}
MCTwoKeysDelete == MCTwoKeys \cup {Delete(k1)}
MCBlankOnly == {[op |-> "blank"]}
=============================================================================

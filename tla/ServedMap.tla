------------------------------ MODULE ServedMap ------------------------------
(***************************************************************************)
(* What one node promises to those who read its map (GET /get and whatever *)
(* else reads kvs): while it is up, the map is the cluster's state after   *)
(* some entry and only moves forward; what is served is durable first,     *)
(* but for a snapshot that is just being installed; and a node that comes  *)
(* back serves again from exactly the durable point on.                    *)
(*                                                                         *)
(* Snapshots, the log, its purges, the flushes and the re-application at   *)
(* a start are not visible here: OpenRaftStore implements this module.     *)
(***************************************************************************)
EXTENDS Naturals

CONSTANTS
    MaxLog,           \* bound: highest log index
    Maps, FirstMap    \* the maps there may be, and the one before any entry

VARIABLES
    len, history,     \* how far the cluster is, and its map after each index
    durable,          \* the index that no crash takes back
    status,           \* "down", "serving", or "installing" a snapshot
    point, map        \* what readers see: a map, and its index in the history

cluster == <<len, history>>
view == <<status, point, map>>
vars == <<cluster, durable, view>>

Init ==
    /\ len = 0 /\ history = [i \in 0 .. MaxLog |-> FirstMap]
    /\ durable = 0
    /\ status = "down" /\ point = 0 /\ map = FirstMap

\* The cluster chooses an entry.
Grow ==
    /\ len < MaxLog /\ len' = len + 1
    /\ \E m \in Maps : history' = [history EXCEPT ![len + 1] = m]
    /\ UNCHANGED <<durable, view>>

\* More of what the cluster chose becomes durable here.
Harden(i) ==
    /\ status = "serving" /\ i > durable /\ i <= len
    /\ durable' = i
    /\ UNCHANGED <<cluster, view>>

Shows(i) == point' = i /\ map' = history[i]

\* Readers see a later durable map.
Advance(i) ==
    /\ status = "serving" /\ i > point /\ i <= durable
    /\ Shows(i)
    /\ UNCHANGED <<cluster, durable, status>>

\* A snapshot is served before it is durable,
Install(i) ==
    /\ status = "serving" /\ i > durable /\ i <= len
    /\ Shows(i) /\ status' = "installing"
    /\ UNCHANGED <<cluster, durable>>

\* and then is.
Installed ==
    /\ status = "installing" /\ status' = "serving"
    /\ durable' = point
    /\ UNCHANGED <<cluster, point, map>>

Stop ==
    /\ status # "down"
    /\ status' = "down" /\ point' = 0 /\ map' = FirstMap
    /\ UNCHANGED <<cluster, durable>>

Resume ==
    /\ status = "down"
    /\ status' = "serving" /\ Shows(durable)
    /\ UNCHANGED <<cluster, durable>>

Next ==
    \/ Grow
    \/ \E i \in 1 .. MaxLog : Harden(i) \/ Advance(i) \/ Install(i)
    \/ Installed \/ Stop \/ Resume

Spec == Init /\ [][Next]_vars

=============================================================================

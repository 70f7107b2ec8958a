------------------------------ MODULE KvEngine ------------------------------
(***************************************************************************)
(* RocksDBEngine: the database under data_path/_storage_rocksdb, from      *)
(* RocksDBEngine::new, which finds on the disk whatever an earlier start   *)
(* left there, to the calls of the tasks that share the engine: single     *)
(* keys are set and deleted, lists are read key by key through an          *)
(* iterator, and a snapshot of another node is written key by key.         *)
(*                                                                         *)
(* The process may crash between any two steps; what RocksDB was given     *)
(* stays (a machine that loses power is not modelled).  An iterator sees   *)
(* the database of the moment it was made at.  A read of a single key      *)
(* changes nothing and is left out; so is what exist may say of a key that *)
(* is not there.                                                           *)
(***************************************************************************)
EXTENDS Naturals

CONSTANTS
    Keys,            \* key names, in RocksDB's order
    Prefixes,        \* the keys that begin with a prefix, for each prefix
    Values, Absent,
    MaxWrites,       \* bound on sets and deletes
    MaxCrashes       \* bound on crashes

Between(S, a, b) == {k \in S : a <= k /\ k <= b}

\* Keys with a common prefix follow one another.
ASSUME ConstantsAssumption ==
    /\ Keys \subseteq Nat /\ Absent \notin Values
    /\ \A p \in Prefixes : p # {} /\ p \subseteq Keys
    /\ \A p \in Prefixes : \A a, b \in p : Between(Keys, a, b) \subseteq p
    /\ MaxWrites \in Nat /\ MaxCrashes \in Nat

VARIABLES
    path,       \* what is under db_path: nothing, files without a CURRENT
                \* file ("cut"), a database without or with the family
    mode,       \* where RocksDBEngine::new is; "up": it has returned
    listed,     \* whether cf_list has the family "cluster"
    db,         \* the family's keys
    scan,       \* the list that is being read: its prefix, its iterator, ...
    moments,    \* ghost: the databases there were since the scan began
    import,     \* the snapshot being written, and the keys that are left
    writes, crashes

engine == <<path, mode, listed>>
vars == <<engine, db, scan, moments, import, writes, crashes>>

Map == [Keys -> Values \cup {Absent}]
EmptyMap == [k \in Keys |-> Absent]
Present(m) == {k \in Keys : m[k] # Absent}
Least(S) == CHOOSE k \in S : \A j \in S : k <= j

Restarts == {"down", "panicked"}
Starting == {"creating", "listing", "opened"}

TypeOK ==
    /\ path \in {"none", "cut", "bare", "ready"}
    /\ mode \in Restarts \cup Starting \cup {"up"}
    /\ listed \in BOOLEAN
    /\ db \in Map
    /\ scan \in [at : {"none", "reading", "end"}, prefix : SUBSET Keys, seen : Map,
                 left : SUBSET Keys, got : Map]
    /\ moments \subseteq Map
    /\ import \in [map : Map, left : SUBSET Keys]
    /\ writes \in 0 .. MaxWrites /\ crashes \in 0 .. MaxCrashes

NoScan == [at |-> "none", prefix |-> {}, seen |-> EmptyMap, left |-> {}, got |-> EmptyMap]
NoImport == [map |-> EmptyMap, left |-> {}]

Init ==
    /\ path = "none" /\ mode = "down" /\ listed = FALSE
    /\ db = EmptyMap /\ scan = NoScan /\ moments = {} /\ import = NoImport
    /\ writes = 0 /\ crashes = 0

calls == <<db, scan, moments, import, writes>>

-----------------------------------------------------------------------------
(* RocksDBEngine::new *)

\* Path::new(&db_path).exists()
New ==
    /\ mode = "down"
    /\ mode' = IF path = "none" THEN "creating" ELSE "listing"
    /\ UNCHANGED <<path, listed, calls, crashes>>

\* DB::open makes the directory and its first files,
OpenBegins ==
    /\ mode = "creating" /\ path = "none" /\ path' = "cut"
    /\ UNCHANGED <<mode, listed, calls, crashes>>

\* and at last the file CURRENT.
OpenEnds ==
    /\ mode = "creating" /\ path = "cut"
    /\ path' = "bare" /\ mode' = "listing"
    /\ UNCHANGED <<listed, calls, crashes>>

BadFound == TRUE
\* cf_list.iter().find(|cf| cf == &family)
Found == path = "ready"

\* list_cf(..).unwrap(), and open_cf of what it found.
ListFamilies ==
    /\ mode = "listing"
    /\ IF path = "cut" THEN mode' = "panicked" /\ UNCHANGED listed
                       ELSE mode' = "opened" /\ listed' = Found
    /\ UNCHANGED <<path, calls, crashes>>

\* create_cf, when cf_list lacks the family.
CreateFamily ==
    /\ mode = "opened" /\ mode' = "up"
    /\ path' = IF listed THEN path ELSE "ready"
    /\ UNCHANGED <<listed, calls, crashes>>

-----------------------------------------------------------------------------
(* Calls *)

\* cf_cluster().unwrap(): every call takes the family's handle.
Ready == mode = "up" /\ path = "ready"

Becomes(m) == db' = m /\ moments' = IF scan.at = "reading" THEN moments \cup {m} ELSE moments

\* engine_save, engine_delete: one put or one delete.  The run loop does them,
\* and nothing else while it imports.
Write(k, v) ==
    /\ Ready /\ import.left = {} /\ writes < MaxWrites
    /\ Becomes([db EXCEPT ![k] = v]) /\ writes' = writes + 1
    /\ UNCHANGED <<engine, scan, import, crashes>>

Set(k, v) == Write(k, v)
BadDelete(k) == Write(k, {})
Delete(k) == Write(k, Absent)

\* An iterator is made, and sought to the first key of the prefix.
BeginScan(p) ==
    /\ Ready /\ scan.at # "reading"
    /\ scan' = [at |-> "reading", prefix |-> p, seen |-> db,
                left |-> {k \in Present(db) : k >= Least(p)}, got |-> EmptyMap]
    /\ moments' = {db}
    /\ UNCHANGED <<engine, db, import, writes, crashes>>

BadValueAt(k) == db[k]
ValueAt(k) == scan.seen[k]

\* One turn of the loop: iter.key() and iter.value() while iter.valid().
ScanKey ==
    /\ Ready /\ scan.at = "reading" /\ scan.left # {}
    /\ LET k == Least(scan.left) IN
           /\ k \in scan.prefix
           /\ scan' = [scan EXCEPT !.got[k] = ValueAt(k), !.left = @ \ {k}]
    /\ UNCHANGED <<engine, db, moments, import, writes, crashes>>

\* No key is left, or one that does not start with the prefix.
ScanEnd ==
    /\ Ready /\ scan.at = "reading"
    /\ scan.left # {} => Least(scan.left) \notin scan.prefix
    /\ scan' = [scan EXCEPT !.at = "end"]
    /\ UNCHANGED <<engine, db, moments, import, writes, crashes>>

\* RaftMachineStorage::write_all with the read_all of another node,
BeginImport(m) ==
    /\ Ready /\ import.left = {} /\ writes < MaxWrites
    /\ import' = [map |-> m, left |-> Present(m)] /\ writes' = writes + 1
    /\ UNCHANGED <<engine, db, scan, moments, crashes>>

\* one write_str after the other.
ImportKey ==
    /\ Ready /\ import.left # {}
    /\ LET k == Least(import.left) IN
           /\ Becomes([db EXCEPT ![k] = import.map[k]])
           /\ import' = [import EXCEPT !.left = @ \ {k}]
    /\ UNCHANGED <<engine, scan, writes, crashes>>

-----------------------------------------------------------------------------
\* The process ends, and what it was doing with it.
Ends ==
    /\ mode' = "down" /\ scan' = NoScan /\ moments' = {} /\ import' = NoImport
    /\ UNCHANGED <<path, listed, db, writes>>

Crash ==
    /\ mode # "down" /\ crashes < MaxCrashes
    /\ Ends /\ crashes' = crashes + 1

\* ctrl-c, or start_server's panic; somebody starts the process again.
Exit == mode \in {"up", "panicked"} /\ Ends /\ UNCHANGED crashes

Start == New \/ OpenBegins \/ OpenEnds \/ ListFamilies \/ CreateFamily

Next ==
    \/ Start \/ ScanKey \/ ScanEnd \/ ImportKey \/ Crash \/ Exit
    \/ \E k \in Keys : Delete(k) \/ \E v \in Values : Set(k, v)
    \/ \E p \in Prefixes : BeginScan(p)
    \/ \E m \in Map : BeginImport(m)

Spec == Init /\ [][Next]_vars

\* RocksDBEngine::new is run to its end, and nothing in it waits.
FairSpec == Spec /\ WF_vars(Start)

-----------------------------------------------------------------------------
(* Properties. *)

\* Wherever earlier starts were cut off, once the very first DB::open has made
\* its CURRENT file every start that is not cut off itself comes up, and with
\* the family that every call unwraps (RocksDBEngine::new, cf_cluster).
StartComesUp ==
    (path \in {"bare", "ready"} /\ mode = "listing") ~> (Ready \/ mode = "down")

\* A list is the keys and values under its prefix, all and only those, of one
\* moment while it was read, whatever was written meanwhile (read_prefix,
\* read_all_by_cf).
ScanIsOneMoment == scan.at = "end" =>
    \E m \in moments : \A k \in Keys :
        scan.got[k] = IF k \in scan.prefix THEN m[k] ELSE Absent

=============================================================================

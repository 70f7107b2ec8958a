--------------------------- MODULE OpenRaftStore ---------------------------
(***************************************************************************)
(* One placement-center node's openraft storage: LogStore, the log half,   *)
(* and StateMachineStore, the state-machine half, over one RocksDB with    *)
(* one write-ahead log (openraft/store/).                                  *)
(*                                                                         *)
(* Four actors interleave.  RaftCore calls LogStore (votes, appends,       *)
(* truncations, purges, the committed index) one call at a time; the       *)
(* state-machine worker applies committed entries and installs snapshots;  *)
(* a snapshot builder, spawned by the worker, runs beside both on a clone  *)
(* of the store that copies last_applied_log_id but SHARES kvs; and the    *)
(* process crashes, or the machine loses power, between any two steps.     *)
(* RaftCore, the worker and the rest of the cluster are the openraft       *)
(* crate: external, modelled from how it calls the code in src/.           *)
(*                                                                         *)
(* A put and the flush_wal(true) that directly follows it in one function  *)
(* are one step: no other actor can tell them apart, and what a crash      *)
(* between them leaves on disk is what one before or after them leaves.    *)
(***************************************************************************)
EXTENDS Naturals, FiniteSets

CONSTANTS
    Keys, Values, Absent,  \* a key that is not in the BTreeMap maps to Absent
    Commands,              \* the entries clients and leaders may propose
    Hole,                  \* no entry is stored under this index
    MaxLog,                \* bound: highest log index
    MaxVote,               \* bound: highest vote
    MaxCrashes,            \* bound: crashes in one behaviour
    MaxFuzz,               \* how far a received snapshot's data may run ahead of its meta
    PowerLoss,             \* whether a crash may lose writes not yet flushed
    InstallWhileBuilding   \* whether a snapshot may be installed beside a running builder

(* AppRequestData and the other payloads of an openraft entry. *)
Command ==
    [op : {"set"}, key : Keys, value : Values]
        \cup [op : {"delete"}, key : Keys]
        \cup [op : {"blank", "membership"}]

ASSUME ConstantsAssumption ==
    /\ MaxLog \in Nat /\ MaxVote \in Nat /\ MaxCrashes \in Nat /\ MaxFuzz \in Nat
    /\ Commands \subseteq Command
    /\ Hole \notin Commands
    /\ Absent \notin Values
    /\ PowerLoss \in BOOLEAN /\ InstallWhileBuilding \in BOOLEAN

VARIABLES
    len, chosen, history,  \* ghost: the cluster's committed log and the state after each index
    db,                    \* RocksDB as the process reads it
    unsynced,              \* every content the disk may come back with after a crash
    mode,                  \* "down", "recovering", "up" or "failed" (Raft::new panicked)
    pc, target,            \* what RaftCore is in the middle of, and the index it purges to
    committed, snapLast,   \* RaftCore's memory: committed index, last index of the snapshot
    sm,                    \* StateMachineData, in memory
    builder,               \* the spawned build_snapshot task
    install,               \* the received snapshot the worker was asked to install
    promised, acked,       \* ghost: vote answered for, index acknowledged as stored
    crashes

ghost == <<len, chosen, history>>
disk == <<db, unsynced>>
core == <<mode, pc, target, committed, snapLast>>
vars == <<ghost, disk, core, sm, builder, install, promised, acked, crashes>>

Index == 1 .. MaxLog
Index0 == 0 .. MaxLog
Map == [Keys -> Values \cup {Absent}]

(* The state machine, a stored snapshot, or one being built or installed:  *)
(* last_applied_log_id, the index of last_membership's entry, and the map. *)
(* upto is ghost: the furthest entry whose effect kv may already hold.     *)
State == [last : Index0, mem : Index0, kv : Map, upto : Index0]

Disk == [vote : 0 .. MaxVote, committed : Index0, purged : Index0,
         snap : State, log : [Index -> Commands \cup {Hole}]]

Larger(a, b) == IF a >= b THEN a ELSE b
Smaller(a, b) == IF a <= b THEN a ELSE b

EmptyMap == [k \in Keys |-> Absent]
EmptyState == [last |-> 0, mem |-> 0, kv |-> EmptyMap, upto |-> 0]
EmptyDisk == [vote |-> 0, committed |-> 0, purged |-> 0, snap |-> EmptyState,
              log |-> [i \in Index |-> Hole]]

-----------------------------------------------------------------------------
(* What an entry means, independently of how apply computes it. *)
Touches(e, k) == e.op \in {"set", "delete"} /\ e.key = k

Effect(s, e, i) ==
    [kv |-> [k \in Keys |-> IF ~Touches(e, k) THEN s.kv[k]
                            ELSE IF e.op = "set" THEN e.value ELSE Absent],
     mem |-> IF e.op = "membership" THEN i ELSE s.mem]

-----------------------------------------------------------------------------
(* LogStore's reads and writes. *)

Present(d) == {i \in Index : d.log[i] # Hole}

\* get_log_state: the last stored entry, or the purge mark when there is none.
BadLastIndex(d) ==
    IF Present(d) = {} THEN 0 ELSE CHOOSE i \in Present(d) : \A j \in Present(d) : j <= i
LastIndex(d) ==
    IF Present(d) = {} THEN d.purged
    ELSE CHOOSE i \in Present(d) : \A j \in Present(d) : j <= i

\* put_cf or delete_range_cf with no flush after it: a power loss may undo it,
\* alone or with the unflushed writes before it.
Write(d) == db' = d /\ unsynced' = IF PowerLoss THEN unsynced \cup {d} ELSE {d}

\* put_cf followed by flush_wal(true), which syncs every earlier write with it.
WriteSync(d) == db' = d /\ unsynced' = {d}

WithoutFrom(d, i) == [d EXCEPT !.log = [j \in Index |-> IF j >= i THEN Hole ELSE d.log[j]]]
WithoutUpTo(d, i) == [d EXCEPT !.log = [j \in Index |-> IF j <= i THEN Hole ELSE d.log[j]]]

-----------------------------------------------------------------------------
TypeOK ==
    /\ len \in Index0
    /\ chosen \in [Index -> Commands \cup {Hole}]
    /\ history \in [Index0 -> [kv : Map, mem : Index0]]
    /\ db \in Disk
    /\ unsynced \subseteq Disk /\ db \in unsynced
    /\ mode \in {"down", "recovering", "up", "failed"}
    /\ pc \in {"idle", "append", "install", "installSave", "purge", "purgeDelete"}
    /\ target \in Index0 /\ committed \in Index0 /\ snapLast \in Index0
    /\ sm \in State /\ install \in State
    /\ builder \in [st : {"none", "begun", "read"}, state : State]
    /\ promised \in 0 .. MaxVote
    /\ acked \in Index0
    /\ crashes \in 0 .. MaxCrashes

NoBuilder == [st |-> "none", state |-> EmptyState]

Init ==
    /\ len = 0
    /\ chosen = [i \in Index |-> Hole]
    /\ history = [i \in Index0 |-> [kv |-> EmptyMap, mem |-> 0]]
    /\ db = EmptyDisk /\ unsynced = {EmptyDisk}
    /\ mode = "down" /\ pc = "idle" /\ target = 0 /\ committed = 0 /\ snapLast = 0
    /\ sm = EmptyState /\ builder = NoBuilder /\ install = EmptyState
    /\ promised = 0 /\ acked = 0 /\ crashes = 0

-----------------------------------------------------------------------------
(* The cluster chooses its next entry; this node may not know of it yet. *)
Choose(e) ==
    /\ len < MaxLog
    /\ len' = len + 1
    /\ chosen' = [chosen EXCEPT ![len + 1] = e]
    /\ history' = [history EXCEPT ![len + 1] = Effect(history[len], e, len + 1)]
    /\ UNCHANGED <<disk, core, sm, builder, install, promised, acked, crashes>>

-----------------------------------------------------------------------------
(* RaftCore's calls into LogStore. *)

Idle == mode = "up" /\ pc = "idle"

\* save_vote, then the vote is answered.
BadVoteDisk(v) == Write([db EXCEPT !.vote = v])
VoteDisk(v) == WriteSync([db EXCEPT !.vote = v])
SaveVote(v) ==
    /\ Idle
    /\ v > db.vote
    /\ VoteDisk(v)
    /\ promised' = v
    /\ UNCHANGED <<ghost, core, sm, builder, install, acked, crashes>>

\* One turn of append's loop: one put per entry, no flush.
AppendPut(e) ==
    /\ mode = "up" /\ pc \in {"idle", "append"}
    /\ LastIndex(db) < MaxLog
    /\ Write([db EXCEPT !.log[LastIndex(db) + 1] = e])
    /\ pc' = "append"
    /\ UNCHANGED <<ghost, mode, target, committed, snapLast, sm, builder, install,
                   promised, acked, crashes>>

\* callback.io_completed(Ok(())): everything appended counts as stored.
BadStored == LastIndex(db) + 1
Stored == LastIndex(db)
AppendDone ==
    /\ mode = "up" /\ pc = "append"
    /\ acked' = Stored
    /\ pc' = "idle"
    /\ UNCHANGED <<ghost, disk, mode, target, committed, snapLast, sm, builder, install,
                   promised, crashes>>

\* Entries up to i are known to be chosen: save_committed, then they may be applied.
BadCommitDiskNever(i) == UNCHANGED disk
BadCommitDiskUnsynced(i) == Write([db EXCEPT !.committed = i])
CommitDisk(i) == WriteSync([db EXCEPT !.committed = i])
Commit(i) ==
    /\ Idle
    /\ i > committed /\ i <= LastIndex(db) /\ i <= len
    /\ \A j \in committed + 1 .. i : db.log[j] = chosen[j]
    /\ CommitDisk(i)
    /\ committed' = i
    /\ UNCHANGED <<ghost, mode, pc, target, snapLast, sm, builder, install, promised, acked,
                   crashes>>

\* truncate: a new leader's log conflicts from i on; one delete_range, no flush.
Truncate(i) ==
    /\ Idle
    /\ i > committed /\ i <= LastIndex(db)
    /\ Write(WithoutFrom(db, i))
    /\ acked' = Smaller(acked, i - 1)
    /\ UNCHANGED <<ghost, core, sm, builder, install, promised, crashes>>

\* openraft asks for a purge, never beyond the snapshot it knows of.
PurgeRequest(i) ==
    /\ Idle
    /\ i > db.purged /\ i <= snapLast
    /\ pc' = "purge" /\ target' = i
    /\ UNCHANGED <<ghost, disk, mode, committed, snapLast, sm, builder, install, promised,
                   acked, crashes>>

\* purge, first half: set_last_purged_ and its flush.
PurgeMark ==
    /\ mode = "up" /\ pc = "purge"
    /\ WriteSync([db EXCEPT !.purged = target])
    /\ pc' = "purgeDelete"
    /\ UNCHANGED <<ghost, mode, target, committed, snapLast, sm, builder, install, promised,
                   acked, crashes>>

\* purge, second half: delete_range_cf [0, index + 1), no flush.
BadPurgeRange(i) == Write(WithoutUpTo(db, i + 1))
PurgeRange(i) == Write(WithoutUpTo(db, i))
PurgeDelete ==
    /\ mode = "up" /\ pc = "purgeDelete"
    /\ PurgeRange(target)
    /\ pc' = "idle" /\ target' = 0
    /\ UNCHANGED <<ghost, mode, committed, snapLast, sm, builder, install, promised,
                   acked, crashes>>

-----------------------------------------------------------------------------
(* The state-machine worker. *)

\* One turn of apply's loop: last_applied_log_id, then kvs or last_membership.
Insert(kv, e) == [kv EXCEPT ![e.key] = e.value]
BadRemove(kv, e) == kv
Remove(kv, e) == [kv EXCEPT ![e.key] = Absent]
Updated(kv, e) ==
    IF e.op = "set" THEN Insert(kv, e) ELSE IF e.op = "delete" THEN Remove(kv, e) ELSE kv
Applied(s, e) ==
    [s EXCEPT !.last = s.last + 1,
              !.kv = Updated(s.kv, e),
              !.mem = IF e.op = "membership" THEN s.last + 1 ELSE s.mem]

\* Entries up to the committed index are applied in order, also when Raft::new
\* re-applies what was committed before a restart.
BadPending == mode \in {"recovering", "up"} /\ pc # "installSave" /\ sm.last + 1 < committed
Pending == mode \in {"recovering", "up"} /\ pc # "installSave" /\ sm.last < committed
Apply ==
    /\ Pending
    /\ db.log[sm.last + 1] # Hole
    /\ sm' = Applied(sm, db.log[sm.last + 1])
    /\ UNCHANGED <<ghost, disk, core, builder, install, promised, acked, crashes>>

\* An entry to apply is missing: openraft's storage error ends the node.
ApplyMissing ==
    /\ Pending
    /\ db.log[sm.last + 1] = Hole
    /\ mode' = "failed" /\ pc' = "idle"
    /\ UNCHANGED <<ghost, disk, target, committed, snapLast, sm, builder, install, promised,
                   acked, crashes>>

\* A snapshot of index s from another node, whose data was taken from maps
\* between s and u (see BuildRead).
Received(s, u, at) ==
    [last |-> s, mem |-> history[s].mem,
     kv |-> [k \in Keys |-> history[at[k]].kv[k]],
     upto |-> u]

Conflicts(s) ==
    /\ LastIndex(db) >= s
    /\ \E j \in committed + 1 .. s : db.log[j] # chosen[j]

\* openraft takes a snapshot newer than its committed index; a conflicting log
\* is truncated first, then the worker is asked to install.
AcceptInstall(s, u, at) ==
    /\ Idle
    /\ s > committed /\ u >= s /\ u <= len /\ u <= s + MaxFuzz
    /\ \A k \in Keys : at[k] \in s .. u
    /\ InstallWhileBuilding \/ builder.st = "none"
    /\ IF Conflicts(s)
       THEN /\ Write(WithoutFrom(db, committed + 1))
            /\ acked' = Smaller(acked, committed)
       ELSE UNCHANGED <<disk, acked>>
    /\ install' = Received(s, u, at)
    /\ pc' = "install"
    /\ UNCHANGED <<ghost, mode, target, committed, snapLast, sm, builder, promised, crashes>>

\* install_snapshot, first half: update_state_machine_ replaces all of memory.
InstallUpdate ==
    /\ mode = "up" /\ pc = "install"
    /\ sm.last = committed
    /\ sm' = install
    /\ pc' = "installSave"
    /\ UNCHANGED <<ghost, disk, mode, target, committed, snapLast, builder, install, promised,
                   acked, crashes>>

\* install_snapshot, second half: set_current_snapshot_; then openraft purges
\* the log that the snapshot covers.
InstallSave ==
    /\ mode = "up" /\ pc = "installSave"
    /\ WriteSync([db EXCEPT !.snap = install])
    /\ committed' = install.last
    /\ snapLast' = Larger(snapLast, install.last)
    /\ pc' = "purge" /\ target' = install.last
    /\ install' = EmptyState
    /\ UNCHANGED <<ghost, mode, sm, builder, promised, acked, crashes>>

-----------------------------------------------------------------------------
(* The snapshot builder. *)

\* get_snapshot_builder clones the store: last_applied_log_id and
\* last_membership are copied, kvs is the same Arc.
BuildBegin ==
    /\ mode = "up" /\ pc # "installSave"
    /\ InstallWhileBuilding \/ pc # "install"
    /\ builder.st = "none"
    /\ sm.last > snapLast
    /\ builder' = [st |-> "begun", state |-> [EmptyState EXCEPT !.last = sm.last, !.mem = sm.mem]]
    /\ UNCHANGED <<ghost, disk, core, sm, install, promised, acked, crashes>>

\* build_snapshot reads the shared kvs, wherever apply has taken it by now.
BuildRead ==
    /\ mode = "up" /\ builder.st = "begun"
    /\ builder' = [st |-> "read",
                   state |-> [builder.state EXCEPT !.kv = sm.kv,
                                                   !.upto = Larger(sm.upto, sm.last)]]
    /\ UNCHANGED <<ghost, disk, core, sm, install, promised, acked, crashes>>

\* set_current_snapshot_; openraft hears of it and ignores one older than its own.
SnapDisk(s) == WriteSync([db EXCEPT !.snap = s])
BuildSave ==
    /\ mode = "up" /\ builder.st = "read"
    /\ SnapDisk(builder.state)
    /\ snapLast' = Larger(snapLast, builder.state.last)
    /\ builder' = NoBuilder
    /\ UNCHANGED <<ghost, mode, pc, target, committed, sm, install, promised, acked, crashes>>

-----------------------------------------------------------------------------
(* Crashes and restarts. *)

LoseMemory ==
    /\ mode \in {"recovering", "up"}
    /\ crashes < MaxCrashes
    /\ crashes' = crashes + 1
    /\ mode' = "down" /\ pc' = "idle" /\ target' = 0 /\ committed' = 0 /\ snapLast' = 0
    /\ sm' = EmptyState /\ builder' = NoBuilder /\ install' = EmptyState
    /\ UNCHANGED <<ghost, promised, acked>>

\* The process dies: what it wrote is in the operating system's hands.
ProcessCrash == LoseMemory /\ UNCHANGED disk

\* The machine dies: RocksDB's log is cut somewhere after the last flush.
MachineCrash ==
    /\ PowerLoss
    /\ LoseMemory
    /\ \E d \in unsynced : db' = d /\ unsynced' = {d}

\* new_storage and StateMachineStore::new, then Raft::new reads the committed index.
BadRestored == EmptyState
Restored == db.snap
Start ==
    /\ mode = "down"
    /\ sm' = Restored
    /\ committed' = Larger(db.committed, db.snap.last)
    /\ snapLast' = db.snap.last
    /\ mode' = "recovering"
    /\ UNCHANGED <<ghost, disk, pc, target, builder, install, promised, acked, crashes>>

\* Raft::new has re-applied all it should; a log that ends before the state
\* machine is purged up to it.
BadReady == sm.last = committed /\ LastIndex(db) >= sm.last
BadReadyAtOnce == sm.last <= committed
Ready == sm.last = committed
Recovered ==
    /\ mode = "recovering"
    /\ Ready
    /\ mode' = "up"
    /\ IF LastIndex(db) < sm.last
       THEN pc' = "purge" /\ target' = sm.last
       ELSE UNCHANGED <<pc, target>>
    /\ UNCHANGED <<ghost, disk, committed, snapLast, sm, builder, install, promised, acked,
                   crashes>>

-----------------------------------------------------------------------------
RaftCore ==
    \/ \E v \in 1 .. MaxVote : SaveVote(v)
    \/ \E e \in Commands : AppendPut(e)
    \/ AppendDone
    \/ \E i \in Index : Commit(i) \/ Truncate(i) \/ PurgeRequest(i)
    \/ PurgeMark
    \/ PurgeDelete
    \/ \E s, u \in Index : \E at \in [Keys -> s .. u] : AcceptInstall(s, u, at)

Worker == Apply \/ ApplyMissing \/ InstallUpdate \/ InstallSave \/ BuildBegin

Builder == BuildRead \/ BuildSave

Next ==
    \/ \E e \in Commands : Choose(e)
    \/ RaftCore
    \/ Worker
    \/ Builder
    \/ ProcessCrash
    \/ MachineCrash
    \/ Start
    \/ Recovered

Spec == Init /\ [][Next]_vars

(* The runtime keeps running the tasks it has: a call that was made returns,  *)
(* a task that was spawned ends, a node that was stopped is started again.    *)
Fairness ==
    /\ WF_vars(Start) /\ WF_vars(Recovered)
    /\ WF_vars(Apply) /\ WF_vars(ApplyMissing)
    /\ WF_vars(InstallUpdate) /\ WF_vars(InstallSave)
    /\ WF_vars(PurgeMark) /\ WF_vars(PurgeDelete) /\ WF_vars(AppendDone)
    /\ WF_vars(BuildRead) /\ WF_vars(BuildSave)

FairSpec == Spec /\ Fairness

-----------------------------------------------------------------------------
(* Properties. *)

ExactAt(s) == s.last >= s.upto => s.kv = history[s.last].kv /\ s.mem = history[s.last].mem

\* Whatever apply, a builder's late read, an installed snapshot or a restart
\* did to it, a map that has caught up with everything it may contain is the
\* state of the chosen log at last_applied_log_id, and so is last_membership
\* (apply, build_snapshot, update_state_machine_).
CaughtUpStateIsExact ==
    /\ mode \in {"recovering", "up"} => ExactAt(sm)
    /\ \A d \in unsynced : ExactAt(d.snap)

\* A running node's map holds exactly the commands up to last_applied_log_id,
\* so a restart from a snapshot whose data ran ahead of its meta has undone the
\* difference before the node serves again (StateMachineStore::new, re-apply).
ServesCommittedState ==
    mode = "up" => sm.kv = history[sm.last].kv /\ sm.mem = history[sm.last].mem

Rebuildable(d) ==
    /\ d.purged <= d.snap.last
    /\ \A j \in Index : j > d.snap.last /\ j <= d.committed => d.log[j] = chosen[j]

\* From every content the disk may come back with, the stored snapshot and the
\* stored log rebuild the state machine up to the stored committed index
\* (set_current_snapshot_, save_committed, truncate, purge and their flushes).
EverySurvivorRebuilds == \A d \in unsynced : Rebuildable(d)

\* No entry that has to be applied is ever missing, neither while the node runs
\* nor when Raft::new re-applies the log (create_raft_node's unwrap).
NeverFails == mode # "failed"

\* A vote that was answered is in every content the disk may come back with:
\* the node cannot vote again in a term it voted in (save_vote).
VoteIsNeverForgotten == \A d \in unsynced : d.vote >= promised

\* An entry reported as stored is still in the log of a running node, unless
\* a leader truncated it (append, io_completed, get_log_state).
AcknowledgedEntriesSurvive ==
    mode = "up" /\ pc \in {"idle", "append"} => LastIndex(db) >= acked

RecoveryPoint(d) == Larger(d.committed, d.snap.last)

\* What a running node has applied, and so answered clients for, every content
\* the disk may come back with recovers; only inside install_snapshot is memory
\* ahead of the disk (save_committed before apply, set_current_snapshot_).
AppliedIsRecoverable ==
    mode = "up" /\ pc # "installSave" =>
        \A d \in unsynced : RecoveryPoint(d) >= sm.last

Served == INSTANCE ServedMap WITH
    Maps <- Map,
    FirstMap <- EmptyMap,
    history <- [i \in Index0 |-> history[i].kv],
    durable <- RecoveryPoint(db),
    status <- IF mode # "up" THEN "down" ELSE IF pc = "installSave" THEN "installing" ELSE "serving",
    point <- IF mode = "up" THEN sm.last ELSE 0,
    map <- IF mode = "up" THEN sm.kv ELSE EmptyMap

\* The store, whatever it logs, snapshots, purges, installs and re-applies and
\* wherever it is stopped, serves its map the way ServedMap promises.
ImplementsServedMap == Served!Spec

Ended == mode \in {"down", "failed"}

\* A node that went down comes back and re-applies everything it had committed,
\* unless it is stopped again or an entry is missing (new_storage, Raft::new).
RestartCompletes == \A i \in Index :
    (mode = "recovering" /\ committed = i) ~> (mode = "up" /\ sm.last >= i) \/ Ended

\* A running node's committed entries reach its map, whatever snapshots it
\* builds or installs meanwhile (apply, install_snapshot).
CommittedIsApplied == \A i \in Index :
    (mode = "up" /\ committed >= i) ~> (sm.last >= i \/ Ended)

=============================================================================

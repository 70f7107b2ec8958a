# placement-center: a TLA+ model

A verification project for `placement-center`, the metadata server of
RobustMQ Geek. It holds TLA+ modules translated from `src/src/`, TLC
configurations that check them on small instances, and TLAPS proofs of the most
important properties for every value of the constants.

Paths below are relative to `src/src/placement-center/src/` unless they start
with `clients/`, `common/` or `codebase-wiki/`.

## 1. The system

A placement-center node keeps a small replicated key-value store. The
repository contains **two** Raft implementations side by side:

* the **openraft path**: the `openraft` crate over a storage layer of the
  repository (`openraft/store/`), its own RPC service and network; it is the one
  the shipped binary runs;
* the **self-built path**: the `raft` (raft-rs) crate driven by
  `RaftMachine::run` over `RaftMachineStorage`; the gRPC services send into it,
  but `start_server` has the line that spawns the run loop commented out.

### Components, their state and operations

| component | state | operations | talks to |
|---|---|---|---|
| `LogStore` (`openraft/store/log_store.rs`) | RocksDB `_raft_logs` (entries by big-endian index), `_raft_store` (`vote`, `committed`, `last_purged_log_id`) | `save_vote`, `save_committed`, `append`, `truncate`, `purge`, `get_log_state`, `try_get_log_entries` | called by openraft's RaftCore, one call at a time |
| `StateMachineStore` (`state_machine_store.rs`) | `StateMachineData` in memory (`last_applied_log_id`, `last_membership`, shared map `kvs`), `snapshot` on disk | `apply`, `get_snapshot_builder`, `build_snapshot`, `install_snapshot`, `get_current_snapshot`, `new` | called by openraft's state-machine worker; the builder runs in a task of its own; HTTP reads `kvs` |
| `raft_node.rs` | none | `create_raft_node`, `start_openraft_node` | opens the store, initializes the cluster from the smallest node id |
| openraft RPC (`services_openraft.rs`, `openraft/network/`) | none | vote, append, snapshot | `ClientPool`, the peers, no retries |
| `RaftMachineStorage` (`storage/raft.rs`) and its adapter (`raft/storage.rs`) | RocksDB `/raft/*` keys: hard state, entries, `first_index`, `last_index`, ...; `snapshot_metadata` in memory | `append`, `commmit_index`, `set_hard_state`, `create_snapshot`, `apply_snapshot`, `entries`, `term`, ... | called by raft-rs and by `on_ready` |
| `RaftMachine` (`raft/machine.rs`) | `seqnum`, `resp_channel`, `entry_num`, the RawNode | `run`: take a message, tick, publish the role, `on_ready` | channel from the services, `DataRoute`, peers |
| `RaftMachineApply` (`raft/apply.rs`) | a bounded channel (1000), one oneshot per call | `apply_propose_message`, `apply_raft_message`, `apply_conf_raft_message`, `transfer_leader` | called by the gRPC services |
| `DataRoute` (`raft/route.rs`) | none | `route`: a committed command to `KvStorage` | `RocksDBEngine` |
| `RaftGroupMetadata` (`raft/metadata.rs`) | role, peers, leader (never set) | `set_role`, `is_leader`, `add_peer`, ... | written by the run loop, read by the services |
| gRPC KV (`services_kv.rs`) | none | set, delete (propose or forward), get, exists (local) | `RaftMachineApply`, `ClientPool`, `KvStorage` |
| gRPC KV over openraft (`services_kv_new.rs`) | none | not mounted | - |
| gRPC Raft (`services_raft.rs`) | none | `send_raft_message`, `send_raft_conf_change` | `RaftMachineApply` |
| `PeersManager` (`raft/peer.rs`) | a channel | sends peer messages; never started | the peers |
| `RocksDBEngine`, `KvStorage` (`storage/`) | RocksDB, one column family | `new`; single puts, gets, deletes, `exist`, lists read through an iterator | everything of the self-built path |
| `ClientPool` (`clients/src/poll.rs`) | two sharded maps from address to connection pool | get a connection, creating its pool | retries, openraft network |
| `retry_call` (`clients/src/placement/mod.rs`) | attempt counter | call, sleep, rotate addresses | `ClientPool` |
| HTTP (`server/http/`) | none | fixed demonstration requests, `GET /get` reads `kvs` | openraft node |
| `start_server` (`lib.rs`), the two servers | which tasks run, a stop broadcast | start, bind, serve, ctrl-c | all |
| configuration, logging, errors, protocol | read once; generated | - | - |

The two storages share no data: the openraft store opens its own RocksDB under
`data_path/_engine_storage`, the self-built path under
`data_path/_storage_rocksdb` (`codebase-wiki` describes one shared instance).

### What is hard in it, and what makes it correct

* **Crashes between writes.** Nothing in either storage uses a write batch. The
  openraft store flushes its write-ahead log after some writes and not after
  others; the self-built one never does. Correct: whatever is left on disk
  rebuilds what the node had acknowledged.
* **A builder beside the worker.** A snapshot is built by a task that shares the
  map with `apply` but holds its own copy of the applied index.
* **The order inside `on_ready`.** Entries, hard state, messages, committed
  entries: each order matters to a crash, and to what was already promised.
* **Answers.** A call's answer depends on a channel, a sequence number shared by
  nobody but looked up by everybody, a oneshot and a timer.
* **Bounds.** A full channel, a full connection pool, a fixed number of retries.
* **Blocking inside async code.** A map shard locked across an await can take every
  worker thread of the runtime with it.
* **Starting.** Which node founds the cluster, when requests, crashes, lost disks and
  taken ports come between the steps of a start.

`PROJECT.json` lists every hazard at its line with the properties that would
catch it; for the ones without a property its note says why.

## 2. Modules

### `OpenRaftStore` - the openraft storage of one node

State: `db` is RocksDB as the process reads it (vote, committed index, purge
mark, snapshot, log), `unsynced` the set of contents the disk may come back with
after a crash (the last synced one and every later one, as all column families
share one write-ahead log), `sm` the `StateMachineData`, `builder` the spawned
`build_snapshot`, `install` the snapshot being installed, `pc`/`target` what
RaftCore is in the middle of. Ghosts: the log the cluster chooses
(`len`, `chosen`) and the state after each of its indexes (`history`), the vote
and the index the node answered for (`promised`, `acked`), and `upto`, the
furthest entry whose effect a map may already hold.

| code | action |
|---|---|
| `save_vote`, `append` (each put; then `io_completed`), `save_committed`, `truncate` | `SaveVote`, `AppendPut`, `AppendDone`, `Commit`, `Truncate` |
| `purge`: mark and flush, then the range delete | `PurgeRequest`, `PurgeMark`, `PurgeDelete` |
| `apply`, one entry; a missing entry | `Apply`, `ApplyMissing` |
| `install_snapshot`: memory, then disk | `AcceptInstall`, `InstallUpdate`, `InstallSave` |
| `get_snapshot_builder`, `build_snapshot`'s read, its save | `BuildBegin`, `BuildRead`, `BuildSave` |
| `StateMachineStore::new`, `Raft::new(..).unwrap()` | `Start`, `Recovered` |
| a process crash, a power loss | `ProcessCrash`, `MachineCrash` |

A put and the `flush_wal(true)` right after it in the same function are one
step. openraft is external (the crate is a git dependency and not in the
repository). What is assumed of it: the committed index is saved before entries
are applied; a snapshot is installed only if it is newer than the committed
index, a conflicting log is truncated first, and the log is purged up to it
afterwards before another log command; a purge never passes the snapshot RaftCore
knows of; at start the entries after `last_applied` up to the larger of committed
and snapshot are re-applied, and a missing one is an error; a log that ends
before `last_applied` is purged up to it.

### `RaftStorage` - the self-built path's `on_ready` and storage

State: `disk` holds the `/raft/` keys, `meta` is `snapshot_metadata`, `core` the
RawNode (role, hard state, log, the last entry handed out, persisted), `rd` the Ready
at hand and `todo` the rest of `on_ready` as a sequence of phases. One key is written
per step, and `Crash` may come between any two. The rest of the cluster is a
history chosen in `Init`: `lead[t]` is the log the leader of term `t` ends with,
`cmt[t]` how much of it that leader commits, constrained by Raft's log matching
and leader completeness. The node may lead the terms in `mine`. An entry is its
term.

| code | definition |
|---|---|
| the Storage trait: `term`, `entries` (`low..=high`) | `TermOf`, `AtHigh`; used by `Agreed`, `MsgSnapshot`, `Persisted`, `Extra` |
| one turn of `run` | `Vote`, `MsgAppend`, `MsgSnapshot`, `BecomeLeader`, `Propose`, `Quorum`; a panic inside RawNode's step is `Abort` |
| `apply_snapshot`, `write_all` (the entries in any order) | `ApplySnapshot`, `ImportEntry`, `ImportFirst`, `ImportHard`, `ImportLast`, `AdoptSnapshot` |
| `append`'s loop: entry, then `last_index` | `AppendEntry`, `AppendLast` |
| `handle_committed_entries`, `commmit_index`, `create_snapshot` | `HandleEntry`, `CreateSnapshot` |
| `set_hard_state`, persisted messages, `advance`, `set_hard_state_comit`, `advance_apply` | `SetHardState`, `Send`, `Advance`, `SetHardStateCommit`, `AdvanceApply` |
| `Storage::snapshot` on a leader | `SnapshotForPeer` |
| assertions and unwraps | `Panic` |
| `RaftMachineStorage::new`, `new_node` | `Start` |

The storage's answers are fed back. Between two turns RawNode keeps no entry of its
own: where a message's entries begin to differ from its log (`Agreed`), whether a
snapshot says anything new (`MsgSnapshot`) and whether what it gave out was stored
(`Persisted`) it decides by `term()`; which entries it hands out it reads through
`entries()`, whose loop includes `high`, so that the entry after the committed ones
comes along when its key exists (`Extra`). That entry is routed, acknowledged and
stored as committed like the others, and `advance_apply` refuses it.

Two things go wrong in this code that no invariant can be stated against for ever
after, so the ghost `breaches` records when they happen: a contract of the Storage
trait has been broken to effect (`past`: the entry beyond `high` was handled; `match`:
a wrong term made RawNode take another log for a leader's; `again`: it restored a
snapshot it already had; `ahead`: a snapshot brought entries after its index), or a
crash left a half-done write (`append`, `import`). `Sound` says that none has happened
but `again` and `ahead`, and the properties that these six ruin say under which of them
they hold. `breaches` restricts no step.

Assumed of raft-rs 0.7: a Ready carries committed entries only as far as they
are persisted, the LightReady the rest; the hard state is emitted when it
changed; `RawNode::new` panics unless `first_index - 1 <= commit <= last_index`;
its applied index is the one the configuration gives; entries that were persisted are
read back from the storage; RawNode checks an index against the log's range before it
asks for its term; handing out entries past `min(committed, persisted)` is a panic in
the next `advance` or `advance_apply`. A leader's outgoing messages also read through
`entries()`; what another node would do with the one entry too many is outside, as are
all other nodes. `create_snapshot` runs every 1000 entries; here it may run after any.
Only the process crashes: with no flush anywhere on this path a power loss may lose
anything. `uncommit_index` is never consulted, and `conf_state` is overwritten from the
configuration at every start (membership changes do not survive one); both are left out.

### `RaftMachineApply` - how a call on the self-built path is answered

State: `call` (a handler's progress), `slot` (the fate of its oneshot sender),
`chan`, `seqnum` and `resp` (channel, next sequence number and `resp_channel` of
each node), `machine` (not spawned, running, ended by a panic, process down),
`view` (the leader a RawNode knows; the published role is `view[n] = n`). A call is of
kind `set` (also delete), `conf` or `learner` (a membership change; the second adds a
learner) or `step`. The log
is one committed sequence plus each node's uncommitted `tail`.

| code | action |
|---|---|
| `set`/`delete`, `send_raft_conf_change`, `send_raft_message` | `Call` |
| `send(message).await` | `Send` |
| the oneshot wait and its timeout | `Return`, `Timeout` |
| `run`: Propose, ConfChange | `TakeProposal` (accepted, forwarded, refused) |
| `run`: Raft, TransferLeader | `TakeStep` |
| `handle_committed_entries`, its acknowledgement and its panics: `route` of a KV command, `unimplemented!()` for `AddLearnerNode` | `Apply` |
| `RaftMachine::new` after a restart | `Restart` |

Assumed of raft-rs: a follower forwards a proposal to the leader it knows, with
its context; without one the proposal is refused; a leader that transfers its leadership
or has applied its own removal refuses as well (`MayRefuse`, only once a transfer was
asked for or a change proposed); a membership change proposed
while one is pending becomes an empty entry. A newly elected leader keeps some
prefix of an earlier leader's uncommitted entries unless a committed entry
contradicts them.

### `ServedMap` - what a node promises to its readers

An abstract specification, and the one `OpenRaftStore` implements
(`ImplementsServedMap == Served!Spec`). It knows no log, purge, flush or snapshot:
the cluster's map after each index (`history`), the index no crash takes back
(`durable`), and what readers see (`point`, `map`). While a node is up the map only
moves forward through the history and what it shows is durable first, but for a
snapshot that is being installed (`Install`, `Installed`: `install_snapshot` replaces
the shared map before it saves); a node that comes back serves again from exactly
`durable`. The mapping takes `durable` to `RecoveryPoint(db)` (the larger of stored
committed index and snapshot), `point` and `map` to the `StateMachineData` once
`Raft::new` has returned, and hides the re-application at a start.

### `PlacementClient` - calls over pooled connections, with retries

State: every task's place in its call (`at`), its attempt (`times`) and the pool it
took (`pool`); how many pools were built for each key of the two maps (`built`: the last
one is in the map, and a replaced one lives on while its connections are in use); the
shard each key falls into. Ghosts: the addresses a call has tried, what the called
servers executed (`executed`), and the abandoned requests they may still execute
(`flight`). A task between two awaits occupies one of `Workers` threads.

| code | action |
|---|---|
| a retried call; `Network::new_client`, then vote, append or snapshot | `Start`, `StartNetwork` |
| `contains_key`, `insert`, `get(&key)`, `poll.get().await` | `Check`, `Insert`, `Get`, `Connect` |
| the request refused, answered, its answer lost; executed late | `Refused`, `Answer`, `AnswerLost`, `Abandoned`, `Serve`, `ServeLate` |
| `poll.get()` fails or times out; the sleep, the next attempt or the end | `ConnectFails`, `Failed`, `Wake` |

`Insert` waits, with its thread, while another task holds the shard's read guard
across `poll.get().await`; mobc (the pool) and the called servers are external.

### `PlacementServer` - starting, founding the cluster, stopping

State: for every node where `start_server` is (`main`), its tasks (`task`), which of
them have the stop message (`told`), and the part of its openraft log that matters
here: the first membership entry (`members`) and whether it voted. Entries founded by
different nodes have the same log id, so openraft cannot tell them apart; the model
compares them: the ids they list, and whether they stand at the addresses of the nodes
table or at the fixed one (`127.0.0.0:7654`) that `POST /init` writes.

| code | action |
|---|---|
| `start_server`, `awaiting_stop`, `main` returns | `StartServer`, `CtrlC`, `Return` |
| `start_grpc_server`, `start_http_server`: bind and serve, fail, hear the stop | `Serve`, `BindFails`, `Hear` |
| `start_openraft_node`: `is_initialized`, `initialize`, its panic | `CheckInitialized`, `Initialize`, `InitializeRefused` |
| `POST /init` | `HttpInitialize` |
| `GrpcOpenRaftServices::vote`, `append`, `snapshot` | `Vote`, `Replicate` |
| the process dies; it comes back without its disk | `Crash`, `LoseDisk` |

`Return` is `main`'s return, after which the runtime waits for its worker threads; as a
thread may be blocked (`PlacementClient`), nothing says that it ever happens.

### `KvEngine` - the self-built path's database

`RocksDBEngine::new` step by step (`New`, `OpenBegins`, `OpenEnds`, `ListFamilies`,
`CreateFamily`), with a crash between any two and a later start on what is left
(`path`); then calls on the shared engine: `Set`, `Delete`, a list read one key at a
time (`BeginScan`, `ScanKey`, `ScanEnd`) and `write_all`'s import of a snapshot
(`BeginImport`, `ImportKey`). Keys are numbers in RocksDB's order and a prefix is the
interval of keys that begin with it. Assumed of RocksDB: an iterator sees the
database of the moment it was made at; a directory without the file `CURRENT` is not
a database.

`MC...` modules only name model values and small sets for TLC.

## 3. Runs

`CHECK_DEADLOCK FALSE` everywhere but in `KV_engine.cfg`: the bounds end behaviours, and
a node that failed for good has no step left. The engine of `KvEngine` can always be
called or started again, so its run checks that too.

| run | bounds | what it shows |
|---|---|---|
| `ors_store` | 1 key, log 2, 1 vote, 1 crash, power loss | every content a power loss may leave rebuilds the committed state and keeps what was applied and the vote answered; a running node serves the state at `last_applied`, and implements `ServedMap` |
| `ors_live` | 2 keys, log 3, 1 process crash, installs beside running builders, received snapshots ahead of their meta | recovery ends (or the start fails, as `ors_late_builder` shows it may), committed entries are applied, acknowledged entries stay, a map that caught up is exact |
| `rs_node` | 2 terms, log 2, 1 crash between any two writes; a follower, or the leader of term 1; snapshots, KV commands in term 2 | the storage holds RawNode's log between turns; `append`'s assertions hold; what was reported stays stored until a leader replaces it; a panic has one of the recorded causes; until one of them, only what the cluster committed is stored as committed or handled, and every stored log is a leader's; committed entries are handled unless the process ends |
| `ra_calls` | 2 nodes that run the loop, 2 calls, channel of 1, 2 elections, 1 crash, panics | no caller of an applied entry waits, one node's numbers never mix calls up |
| `pc_calls` | 3 calls of which one or two without retries, 1 or 2 addresses, 2 attempts, 2 threads, pools of 1 connection, 1 shard | a retry is executed at most once per attempt and reaches every address; raced pools stay within threads times `max_open`; every call ends unless the runtime wedges |
| `srv_boot` | 3 nodes, 1 of them with a table of its own, or a one-node cluster; `POST /init` on node 3 at any time; 1 crash or taken port, 1 lost disk, 1 stop | one membership is founded, but for the one of `POST /init`, which no other node takes over; every member joins once all stay up |
| `kv_engine` | 3 keys, 3 prefixes, 2 values, 2 writes or imports, 2 crashes | a list is the database of one moment; every start comes up once the first `DB::open` has ended |

**Why the bounds are enough to be interesting.** In the openraft store a log of three
entries holds a purged, a snapshotted and a live one, of two entries two of them. On the
self-built path two terms give one conflicting suffix, and a log of two the entry after
the committed ones that `entries()` adds; one crash gives every torn write; a channel of
one is full with the first message; two nodes give every collision of sequence numbers. Three calls on two threads are the
fewest that wedge the runtime; pools of one connection and one shard make every
collision happen. Three nodes are the fewest of which a majority can outvote a node
that lost its disk. `srv_boot` loses one disk only: when a majority loses its disks,
the node that has the membership cannot be elected and the cluster does not come
back, whatever the code does. Larger instances were checked once and found nothing
else: `ors_store`'s invariants without power loss with two keys, a log of three and
two crashes; `rs_node`'s invariants for a follower with two crashes, and without
snapshots and KV commands with a log of three.

### Divergences

The runs whose `expect` is `violation` show where the code does not do what a
document or comment of the repository says; `PROJECT.json` quotes the line.

| run | what TLC finds |
|---|---|
| `ors_late_builder` | a snapshot builder that ends after an install overwrites the newer snapshot; the next start panics |
| `rs_high` | `entries()` includes `high`: an entry nobody agreed on is handled, acknowledged and stored as committed |
| `ra_shipped` | as `start_server` is shipped, a call that finds the channel full waits for ever |
| `ra_seq` | another node's entry answers a call |
| `pc_wedge` | one task awaits a connection under a shard's guard, the others block every worker thread in `insert`: the runtime stands still |

Others met while modelling are visible in the definitions and have no run of their own.

* openraft store: `append` reports entries as stored before any flush, so a power loss
  takes acknowledged entries (`AppendDone`; `AcknowledgedEntriesSurvive` is therefore
  checked with process crashes only). `build_snapshot`'s data may be later than its meta
  (`BuildRead`), which re-applying repairs. Readers may see an installed snapshot that a
  crash takes back (`ServedMap`, "installing").
* Self-built storage, what `entries()`'s extra entry does (`Extra`, run `rs_high`): a
  node that has `[1, 1]` and commits 1 is handed both entries in the LightReady and
  panics in `advance_apply`, after it has stored 2 as committed. An old entry that is
  still stored beyond `last_index` is handed out as well; then the stored committed index
  is past `last_index` and `RawNode::new` refuses every later start. If
  the entry that replaces it is stored in the same turn, the old one is handled and
  nothing panics.
* Self-built storage, what `term()` does (`TermOf`): for `snapshot_metadata.index` it
  answers that index, so after a restart the term of the committed entry is wrong. A
  follower then refuses appends that match, takes another log's beginning for its own,
  or restores a snapshot it already has.
* Self-built storage, the rest: `commmit_index` stores the committed entry's term over
  the term a vote was cast in until the next hard state (`HandleEntry`), although
  `raft/machine.rs:223-224` sends persisted messages only after the hard state.
  Committed entries that were not handled before a crash are skipped after it (`Start`:
  applied is the stored committed index). A crash inside `write_all` can leave a hard
  state `RawNode::new` refuses (`Restartable`). A crash between an entry of `append` and
  its `last_index` can leave, under an old `last_index`, a new leader's entry with an old
  one behind it, a log no leader ever had; two of them in a row can make the node commit
  an entry nobody agreed on. `first_index` is not one past the snapshot (`Created`), and
  the entries that a snapshot's data brings after the snapshot's own index make RawNode
  panic on the next entry it is to append (`Accept`, `BecomeLeader`). `create_snapshot` stores the snapshot under a key that the next
  snapshot's `read_all` includes, so snapshots nest and grow.
* Calls: refused, dropped and abandoned proposals are answered Ok (`Return`), as is
  every write after the run task panicked (`Send`). With the run loop not spawned
  (`ra_shipped`) the 30 s of `wait_recv_chan_resp` begin only after `send(message).await`,
  which waits for a place in the channel (`Send`);
  `codebase-wiki/atoms/raft-ready-loop.md:62-63` says that every call times out.
* Clients: four attempts are made where `codebase-wiki/analysis/05-tradeoffs.md:58-59`
  says three, with 18 s of sleep where it says 12; the rotation starts at the second
  address (`Index`), so five addresses are not all tried, and an empty list divides by
  zero. A write on a node that does not take itself for the leader is forwarded to one
  empty address (`services_kv.rs:82`), to which no attempt connects. `max_open` bounds one pool, not one address, as two callers may each create one.
* Starting: `POST /init` on node 3, before a request of the others has reached it,
  founds a second cluster beside the one the smallest id founds
  (`codebase-wiki/atoms/openraft-cluster-init.md:15-16` says that the others never call
  `initialize`). It writes a membership of its own, node 3 alone at a fixed address, so
  `OneCluster` says two things: all memberships but that one agree, and that one stays on
  node 3. A request between `is_initialized` and
  `initialize` makes the init task panic, which is harmless. `main` returns right after
  the stop broadcast, so the servers do not finish what they were doing
  (`codebase-wiki` describes a graceful stop); SIGTERM is not handled.
* Engine: a crash inside the very first `DB::open` leaves a directory that every later
  start takes for a database, and panics on (`ListFamilies`). `exist` answers
  `key_may_exist_cf`, which may be true for a deleted key, where
  `tests/kv_server.rs:58-60` asserts that it is not.

### Fairness

`OpenRaftStore`: weak fairness of each step that continues a call or a task
already begun (`Apply`, both halves of install and purge, `AppendDone`, the
builder) and of `Start` and `Recovered`: tokio keeps polling ready tasks and a
supervisor restarts the process. None of openraft's decisions (a vote, a commit, a
purge, a snapshot) is fair. `RaftStorage`: `on_ready` runs to its end once begun
(`ReadyLoop`) and a stopped node is started. `RaftMachineApply` (only `ra_shipped`
uses it): timers fire, a handler whose oneshot was resolved continues, a stopped process
is started again; strong fairness of `Send`, because tokio's channel semaphore serves
waiting senders in order; nothing of the run loop, which may not have been spawned.
`PlacementClient`: strong fairness of each task's next step, since threads, locks and a pool's
connections are given out in the order of the waiters; sleeps and mobc's own timeout end,
and every request is answered or its connection breaks. Whether a server executes it is
not fair. `PlacementServer`: the init task is polled; openraft repeats votes and
replication while they are possible; nobody has to start a process, call it, or press
ctrl-c, and `main` need not return. `KvEngine`: `RocksDBEngine::new`
runs to its end.

## 4. Proofs

`OpenRaftStore_proofs` proves, for every set of keys, values and commands, every
log length, any number of votes and crashes, with or without power loss:

| theorem | states | assumes |
|---|---|---|
| `TypeCorrect` | `Spec => []TypeOK` | `ConstantsAssumption` |
| `DurableInvHolds` | `Spec => []DurableInv` | and `~InstallWhileBuilding` |
| `CrashLeavesRebuildableDisk` | `[]EverySurvivorRebuilds`: whatever a crash leaves rebuilds the committed state | the same |
| `NodeNeverFails` | `[]NeverFails`: no committed entry is missing when it is applied or re-applied | the same |
| `AppliedIsNeverLost` | `[]AppliedIsRecoverable`: an entry whose effect was served can be rebuilt after any crash | the same |

`~InstallWhileBuilding` says that no snapshot is installed while a builder task is
alive. The code does not enforce it, and without it the last four are false: run
`ors_late_builder` is the counterexample. So in the model this is
the only way the store loses applied data.

`EverySurvivorRebuilds` is not inductive. A snapshot, the committed log above it and
the purge mark may each be fine in a disk that a later purge or truncation ruins.
`DurableInv` adds what the code relies on without saying it:

* `DiskInv`, for *every* content in `unsynced`: the log has no gap between stored
  entries nor between the purge mark and the first of them (`Contiguous`); the
  content rebuilds (`Rebuildable`); and all contents that may survive share vote,
  committed index, purge mark and snapshot (`SameMarks`), because the store flushes
  after writing each of these. Only log entries are ever unsynced.
* `MemoryInv`: what the process believes is covered by the disk. `snapLast` is
  the stored snapshot's index, so a purge up to it is safe; the state in memory is
  between the snapshot and the committed index; a builder's copy is not behind the
  stored snapshot (this needs the assumption); a half-done install or purge has done
  exactly its first half.

The induction has a step per action. The reasoning about the log is in lemmas:
`AppendExtends`, `TruncateKeepsPrefix`, `PurgeKeepsEnd` (each write keeps contiguity
and the ends), `RebuildableIfKept` (a write that keeps snapshot and committed entries
keeps a disk rebuildable), `WriteKeepsDiskInv` and `SyncKeepsDiskInv` (a put adds a
survivor, a flush leaves one). `LastIndexIsLargest` is about `get_log_state`; it rests
on `LargestExists`, a maximum of a non-empty set of indexes obtained from the
well-foundedness of strict inclusion on finite sets rather than by induction.

`OpenRaftStore_exact` proves what the data is, under the same generality:

| theorem | states | assumes |
|---|---|---|
| `VoteIsKept` | `[]VoteIsNeverForgotten`: a vote that was answered survives every crash | `ConstantsAssumption` |
| `FuzzyInvHolds` | `[]FuzzyInv` | and `~InstallWhileBuilding` |
| `CaughtUpIsExact` | `[]CaughtUpStateIsExact`: a map that caught up with all it may contain is the state of the chosen log | the same |
| `RunningNodeIsExact` | `[]ServesCommittedState`: a running node serves the state at `last_applied` | and `MaxFuzz = 0`: received snapshots are exact |

`VoteInv` says that all contents that may survive hold one vote, because `save_vote`
flushes. `FuzzyInv` is about every map there is, in memory, in a snapshot, in a
builder's hands or being installed: each key holds the value it had after *some*
entry between `last` and `upto`, not the same one for every key, since a builder
reads the map key by key while entries are applied. Applying an entry keeps that
(`ApplyKeepsFuzzy`: a set or delete overwrites its key whatever was there), and when
`last` has reached `upto` only one entry is left to choose (`FuzzyIsExact`).
`AheadInv` adds that no map is ahead of the stored committed index, up to which a
start re-applies before the node serves.

The same module proves `AcknowledgedSurvive`, `Spec => []AcknowledgedEntriesSurvive`,
from `ConstantsAssumption` and `~PowerLoss`, installs beside running builders included.
A process crash leaves the database as it was written, but not what RaftCore was in the
middle of, so `AckInv` follows the log at every step: it has no hole above the purge
mark, it ends (at its last entry, or the mark) no earlier than what was reported, and
wherever an install or a purge has yet to write its mark, both will still be so once the
mark has moved (`MayPurgeTo`). Power losses are
excluded because `append` answers before anything is flushed: with them it is false.

`RaftMachineApply_proofs` proves, for every set of nodes and calls, every channel
capacity and any number of elections and crashes, from `ConstantsAssumption` alone:

| theorem | states |
|---|---|
| `CallTypeCorrect` | `[]TypeOK`; with it that no channel holds more than its capacity |
| `AppliedCallIsAnswered` | `[]AppliedIsAnswered`: an entry applied on the node that proposed it leaves no caller waiting |

`AppliedIsAnswered` needs to know where an unanswered caller's sender is. `AnswerInv`
adds `OwnedInv` (whatever entry is committed but not applied at its node, or still in
a tail or on its way: if its call waits, its sender is parked at its node under that
entry's number, so applying the entry finds it) and `QueueInv` (a call has no entry
while its message is on the channel or before, and is on one channel once). The second
makes the first inductive: an entry comes into being when its message is taken off,
in the step that parks the sender. Both hold although a restart numbers from 1 again:
parking over an older sender drops that one, which answers its caller too.

`AnswerIsOwnAtOneNode` proves `[]AnswerAtOneNodeIsForOwnEntry`. Its invariant
`SequenceInv` is about the time before the first crash: every entry, wherever it is,
carries a number that its own node has given out (`NumberInv`; the empty entries raft-rs
makes carry 0, under which nobody is parked), two calls of one node never have the same
number, and a sender that is still parked is the one of the call that was given that
number. When all calls go to one node, the entry applied there under a number is
therefore the parked caller's own. With two nodes numbering independently it is not:
that is the run `ra_seq`.

`OpenRaftStore_refines` proves `StoreImplementsServedMap`: `Spec => ImplementsServedMap`,
under `~InstallWhileBuilding` and `MaxFuzz = 0`. Each step is matched with its step of
`ServedMap` or a stutter, from the invariants above: `Commit` and an install that was
saved move `durable`, `Apply` is `Advance`, `InstallUpdate` is `Install`, `Recovered` is
`Resume`, and purges, truncations, appends and builders change nothing a reader sees.
`Resume` is where exactness is needed: the map that re-application rebuilt is
`history[durable]`.

`PlacementClient_proofs`, from `ConstantsAssumption`, for any tasks, addresses, shards,
pool sizes, threads and retry counts:

| theorem | states |
|---|---|
| `ClientTypes`, `PoolInvHolds` | `[]TypeOK`, `[]PoolInv` |
| `ConnectionsAreBounded` | `[]ConnectionsBounded`: in use per address, at most threads times `max_open` |
| `ExecutedAtMostOncePerAttempt` | `[]AtMostOncePerAttempt` |
| `RetriesReachEveryAddress` | `[]GivesUpAfterEveryAddress` |

`PoolInv` counts: a pool is only ever replaced by a task that found none, and such a
task occupies a thread from its check to its insert, so the pools built for one key and
the tasks about to build one are at most as many as the threads. The rotation's theorem is about remainders:
consecutive attempts take distinct addresses until all have had their turn.

`PlacementServer_proofs`: `ServerTypes` and `OneClusterIsFounded` (`[]OneCluster`, for any
number of nodes, any nodes tables that agree on the smallest id, any crashes and lost
disks, and `POST /init` at any time), from `ConstantsAssumption` alone. Its invariant
(`ClusterInv`) is that only the smallest id's process ever passes `calc_init_node`, and
that every membership is that node's table or the one `POST /init` writes, which stays
on its node because it names no other to replicate to.

`KvEngine_proofs`: `EngineTypes`; `UpIsReady` (an engine that is up has its column family;
a start panics only on a first `DB::open` that was cut off); `ListsAreOneMoment`
(`[]ScanIsOneMoment`). `ScanInv` says that the keys still ahead of the iterator are all
that separates the list from the iterator's moment; that the loop may stop at the first
key outside the prefix rests on prefixes being intervals (`ScanEndInv`).

`RaftStorage_proofs`, for any election history Raft allows, any number of terms, log
length and crashes, any terms led by this node, snapshots or none, and wherever a crash
falls or a contract of the storage is broken, from `ConstantsAssumption` alone:

| theorem | states |
|---|---|
| `NodeInvariant`, `TypeCorrect` | `[](TypeOK /\ NodeInv)`, `[]TypeOK` |
| `StoredLogIsKept` | `[]StoredLogIsTheCores`: between two turns the storage holds RawNode's log |
| `AppendIsContinuous` | `[]AppendFollowsStored`: `append`'s two assertions hold whenever it is reached |
| `NothingFails` | `[]NeverFails`: until a contract of the storage is broken, only a KV command makes the node fail |

`NodeInv` says what core, Ready and disk have to do with each other at each point of
`on_ready`. Only which phases are left matters, because they always follow each other by
rank (`Ordered`). Between writes the disk has the core's persisted entries (`StoredInv`)
and not yet the new ones (`UnsavedInv`); inside `append` the two differ in one entry and
`last_index` (`AppendInv`); inside `apply_snapshot` every key that `write_all` has reached
is the snapshot's and every later one still the old (`ImportInv`). `DiskInv` is what
remains when a crash stops any of that. `CleanInv` adds what holds as long as `breaches` is
empty: everything handed out is committed and persisted, RawNode counts all it has as
persisted between two turns (or it would panic on the next entry), and what is on disk is
something `RawNode::new` accepts (`RestartOK`), except in the middle of an import, where a
crash is itself a breach.

Out of the prover's reach: liveness under fairness and `ENABLED`; anything by
induction over data, such as what a fold over a log computes for every log.

## 5. What is only model-checked, and what is not modelled

Liveness under fairness stays with TLC: `RestartCompletes`, `CommittedIsApplied`,
`CommittedIsHandled`, `EveryCallEnds`, `EveryNodeJoins`, `StartComesUp`. So do these safety
properties of `rs_node`: `AckedIsStored`, `StoredLogIsALeaders`,
`StoredCommitIsCommitted`, `HandledIsCommittedIfSound`. Every other safety property of a
passing run is also stated by a theorem. Where a theorem has an assumption on the
configuration, a run that goes beyond it shows its property at the run's bounds only:
`CaughtUpStateIsExact` in `ors_live` (installs beside running builders).

Not modelled:

* configuration, logging, error texts and generated protocol code: no state;
* `services_kv_new.rs`: not mounted; `PeersManager`: never created;
* the forwarding of writes to the leader and `metadata.leader`: the leader is never set,
  so a forwarded call goes to one empty address and never gets a connection;
* the encodings of messages, except where decoding fails (`DataRoute`), and the log
  entries inside openraft's RPCs: openraft itself is external;
* `add_learner`, `change_membership` and the self-built path's membership bookkeeping:
  membership after the first entry is openraft's, and on the self-built path is
  overwritten from the configuration at every start;
* `exist`, and disk errors returned by RocksDB.

## 6. What may come next

Theorems for the properties of `rs_node` that are only model-checked, under the conditions
on `breaches` that they state. A composition of several
`OpenRaftStore` nodes with a model of openraft's replication, which would turn the
assumptions on `chosen` into theorems.

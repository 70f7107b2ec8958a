--------------------------- MODULE PlacementServer ---------------------------
(***************************************************************************)
(* The life of the placement-center processes: start_server spawns the     *)
(* gRPC server, the HTTP server and the task that may initialize the       *)
(* openraft cluster, then waits for ctrl-c.                                *)
(*                                                                         *)
(* A node is part of the cluster once its log holds the first membership   *)
(* entry, which is the entry of index 0 and term 0 whoever writes it.      *)
(* openraft (initialize, is_initialized, elections, replication), tokio    *)
(* and the machine (ports, crashes, disks) are external.                   *)
(***************************************************************************)
EXTENDS Naturals, FiniteSets

CONSTANTS
    Nodes,        \* node ids
    Confs,        \* the nodes tables in the nodes' configuration files
    HttpNode,     \* the node id POST /init is written for (3)
    MaxFaults,    \* bound on crashes and ports that are taken
    MaxLosses,    \* bound on lost disks
    MaxStops      \* bound on ctrl-c

Least(S) == CHOOSE i \in S : \A j \in S : i <= j

\* The tables may differ, but not in their smallest id.
ASSUME ConstantsAssumption ==
    /\ Nodes \subseteq Nat
    /\ Confs \subseteq [Nodes -> SUBSET Nodes]
    /\ \A c \in Confs, m, n \in Nodes : c[n] # {} /\ Least(c[m]) = Least(c[n])
    /\ MaxFaults \in Nat /\ MaxLosses \in Nat /\ MaxStops \in Nat

VARIABLES
    conf,      \* the nodes table of every node's file
    main,      \* where start_server is
    task,      \* the tasks it spawned
    told,      \* the tasks whose receiver holds the stop message
    members,   \* the first membership entry of a node's log
    voted,     \* whether it has a vote on disk
    faults, losses, stops

process == <<main, task, told>>
disk == <<members, voted>>
bounds == <<faults, losses, stops>>
vars == <<conf, process, disk, bounds>>

Servers == {"grpc", "http"}
TaskNames == Servers \cup {"init"}
MainState == {"off", "waiting", "returning"}
TaskState == {"none", "spawned", "serving", "checked", "done", "stopped", "panicked"}

\* A membership entry lists ids, at the addresses of the nodes table or at
\* the one that is written into POST /init.
Memberships == [ids : SUBSET Nodes, at : {"table", "fixed"}]

\* A log without a membership entry.
NoMembers == [ids |-> {}, at |-> "table"]

TypeOK ==
    /\ conf \in Confs
    /\ main \in [Nodes -> MainState]
    /\ task \in [Nodes -> [TaskNames -> TaskState]]
    /\ told \in [Nodes -> SUBSET Servers]
    /\ members \in [Nodes -> Memberships]
    /\ voted \in [Nodes -> BOOLEAN]
    /\ faults \in 0 .. MaxFaults /\ losses \in 0 .. MaxLosses /\ stops \in 0 .. MaxStops

AllTasks(s) == [k \in TaskNames |-> s]

Init ==
    /\ conf \in Confs
    /\ main = [n \in Nodes |-> "off"]
    /\ task = [n \in Nodes |-> AllTasks("none")]
    /\ told = [n \in Nodes |-> {}]
    /\ members = [n \in Nodes |-> NoMembers] /\ voted = [n \in Nodes |-> FALSE]
    /\ faults = 0 /\ losses = 0 /\ stops = 0

-----------------------------------------------------------------------------
Alive(n) == main[n] \in {"waiting", "returning"}
Is(n, k, s) == Alive(n) /\ task[n][k] = s
Becomes(n, k, s) == task' = [task EXCEPT ![n][k] = s]

\* is_initialized looks at the log and at the vote.
Initialized(n) == members[n] # NoMembers \/ voted[n]

BadInitNode(n) == CHOOSE i \in conf[n] : \A j \in conf[n] : i >= j
\* calc_init_node: the smallest id of the node's own table.
InitNode(n) == Least(conf[n])

\* initialize(nodes) with the node's own table
FromTable(n) == [ids |-> conf[n], at |-> "table"]

\* The membership of POST /init: node 3 alone, under a Node that says 2.
Posted == [ids |-> {HttpNode}, at |-> "fixed"]

-----------------------------------------------------------------------------
(* start_server and awaiting_stop *)

\* Only the node with the smallest id goes on in start_openraft_node.
StartServer(n) ==
    /\ main[n] = "off"
    /\ main' = [main EXCEPT ![n] = "waiting"]
    /\ task' = [task EXCEPT ![n] = [k \in TaskNames |->
                   IF k = "init" /\ InitNode(n) # n THEN "done" ELSE "spawned"]]
    /\ UNCHANGED <<conf, told, disk, bounds>>

BadCtrlC(n) ==
    /\ main[n] = "waiting" /\ stops < MaxStops
    /\ main' = [main EXCEPT ![n] = "returning"]
    /\ told' = [told EXCEPT ![n] = {k \in TaskNames : task[n][k] \in {"spawned", "serving"}}]
    /\ stops' = stops + 1
    /\ UNCHANGED <<conf, task, disk, faults, losses>>

\* stop_send.send(true): it reaches who has subscribed, which besides the
\* servers is the RaftMachine that start_server builds and does not run, so
\* send always finds a receiver.
CtrlC(n) ==
    /\ main[n] = "waiting" /\ stops < MaxStops
    /\ main' = [main EXCEPT ![n] = "returning"]
    /\ told' = [told EXCEPT ![n] = {k \in Servers : task[n][k] = "serving"}]
    /\ stops' = stops + 1
    /\ UNCHANGED <<conf, task, disk, faults, losses>>

\* What goes away with a process.
Ends(n) ==
    /\ main' = [main EXCEPT ![n] = "off"]
    /\ task' = [task EXCEPT ![n] = AllTasks("none")]
    /\ told' = [told EXCEPT ![n] = {}]

\* main returns, and the runtime drops the tasks that are left: once its
\* worker threads are free, which nothing promises.
Return(n) ==
    /\ main[n] = "returning" /\ Ends(n)
    /\ UNCHANGED <<conf, disk, bounds>>

-----------------------------------------------------------------------------
(* start_grpc_server and start_http_server *)

\* subscribe, bind and serve
Serve(n, k) ==
    /\ Is(n, k, "spawned") /\ Becomes(n, k, "serving")
    /\ UNCHANGED <<conf, main, told, disk, bounds>>

\* The port is taken, and the task panics; nobody starts it again.
BindFails(n, k) ==
    /\ Is(n, k, "spawned") /\ faults < MaxFaults
    /\ Becomes(n, k, "panicked") /\ faults' = faults + 1
    /\ UNCHANGED <<conf, main, told, disk, losses, stops>>

\* stop_rx.recv() in the select
Hear(n, k) ==
    /\ Is(n, k, "serving") /\ k \in told[n]
    /\ Becomes(n, k, "stopped") /\ told' = [told EXCEPT ![n] = @ \ {k}]
    /\ UNCHANGED <<conf, main, disk, bounds>>

-----------------------------------------------------------------------------
(* start_openraft_node *)

\* is_initialized().await
CheckInitialized(n) ==
    /\ Is(n, "init", "spawned")
    /\ Becomes(n, "init", IF Initialized(n) THEN "done" ELSE "checked")
    /\ UNCHANGED <<conf, main, told, disk, bounds>>

\* Raft::initialize appends the membership entry and votes for itself.
Write(n, c) ==
    /\ members' = [members EXCEPT ![n] = c]
    /\ voted' = [voted EXCEPT ![n] = TRUE]

BadInitialize(n) ==
    /\ Is(n, "init", "checked") /\ ~Initialized(n)
    /\ Write(n, [ids |-> {n}, at |-> "table"]) /\ Becomes(n, "init", "done")
    /\ UNCHANGED <<conf, main, told, bounds>>

Initialize(n) ==
    /\ Is(n, "init", "checked") /\ ~Initialized(n)
    /\ Write(n, FromTable(n)) /\ Becomes(n, "init", "done")
    /\ UNCHANGED <<conf, main, told, bounds>>

\* Another node's request came between the two, and the task panics.
InitializeRefused(n) ==
    /\ Is(n, "init", "checked") /\ Initialized(n) /\ Becomes(n, "init", "panicked")
    /\ UNCHANGED <<conf, main, told, disk, bounds>>

\* POST /init: initialize refuses a node that is not the one member, and one
\* that is initialized.
HttpInitialize(n) ==
    /\ Is(n, "http", "serving") /\ n \in Posted.ids /\ ~Initialized(n)
    /\ Write(n, Posted)
    /\ UNCHANGED <<conf, process, bounds>>

-----------------------------------------------------------------------------
(* openraft between the nodes *)

\* A member's request gets through to another one's gRPC server.
Reaches(m, n) == Alive(m) /\ members[m] # NoMembers /\ n \in members[m].ids \ {m}
                     /\ Is(n, "grpc", "serving")

\* GrpcOpenRaftServices::vote
Vote(m, n) ==
    /\ Reaches(m, n) /\ ~voted[n]
    /\ voted' = [voted EXCEPT ![n] = TRUE]
    /\ UNCHANGED <<conf, process, members, bounds>>

\* A majority of the members it knows has elected m.
Elected(m) ==
    Cardinality({n \in members[m].ids : n = m \/ (Reaches(m, n) /\ voted[n])}) * 2
        > Cardinality(members[m].ids)

\* GrpcOpenRaftServices::append, or snapshot: an entry with the id of the
\* leader's first one is taken for that one.
Replicate(m, n) ==
    /\ Reaches(m, n) /\ Elected(m) /\ members[n] = NoMembers
    /\ Write(n, members[m])
    /\ UNCHANGED <<conf, process, bounds>>

-----------------------------------------------------------------------------
(* The machine *)

Crash(n) ==
    /\ Alive(n) /\ faults < MaxFaults
    /\ Ends(n) /\ faults' = faults + 1
    /\ UNCHANGED <<conf, disk, losses, stops>>

\* The node comes back with an empty data_path.
LoseDisk(n) ==
    /\ Alive(n) /\ losses < MaxLosses
    /\ Ends(n) /\ losses' = losses + 1
    /\ members' = [members EXCEPT ![n] = NoMembers]
    /\ voted' = [voted EXCEPT ![n] = FALSE]
    /\ UNCHANGED <<conf, faults, stops>>

-----------------------------------------------------------------------------
\* What a process does by itself.
Run(n) ==
    \/ StartServer(n) \/ Return(n)
    \/ \E k \in Servers : Serve(n, k) \/ Hear(n, k)
    \/ CheckInitialized(n) \/ Initialize(n) \/ InitializeRefused(n)

Next == \E n \in Nodes :
    \/ Run(n) \/ CtrlC(n) \/ HttpInitialize(n) \/ Crash(n) \/ LoseDisk(n)
    \/ \E k \in Servers : BindFails(n, k)
    \/ \E m \in Nodes : Vote(m, n) \/ Replicate(m, n)

Spec == Init /\ [][Next]_vars

(* The runtime polls what is ready, and openraft repeats its elections and   *)
(* its replication.                                                          *)
Fairness == \A n \in Nodes :
    /\ WF_vars(CheckInitialized(n) \/ Initialize(n))
    /\ WF_vars(\E m \in Nodes : Vote(m, n))
    /\ WF_vars(\E m \in Nodes : Replicate(m, n))

FairSpec == Spec /\ Fairness

-----------------------------------------------------------------------------
(* Properties. *)

\* However starts, crashes, lost disks and requests interleave, no two nodes
\* hold different first membership entries, except that node 3 may hold the
\* one of POST /init: the log ids are the same, so openraft would never
\* notice (start_openraft_node, http::openraft::init; the nodes tables may
\* differ as long as their smallest id is the same).
OneCluster ==
    /\ \A m, n \in Nodes :
           {members[m], members[n]} \cap {NoMembers, Posted} = {} => members[m] = members[n]
    /\ \A n \in Nodes : members[n] = Posted => n = HttpNode

\* If all nodes stay up with their gRPC servers, the cluster forms and all
\* members have joined, whatever crashed and whichever init task panicked.
Settled == \A n \in Nodes : Is(n, "grpc", "serving") /\ main[n] = "waiting"
EveryNodeJoins ==
    <>[]Settled => <>[](\A n \in conf[InitNode(CHOOSE i \in Nodes : TRUE)] : members[n] # NoMembers)

=============================================================================

----------------------- MODULE PlacementServer_proofs -----------------------
(***************************************************************************)
(* For every set of nodes, every choice of nodes tables that agree on the  *)
(* smallest id, and any number of crashes, lost disks, stops and calls of  *)
(* POST /init: the types, and that start_openraft_node founds one cluster. *)
(***************************************************************************)
EXTENDS PlacementServer, TLAPS

USE DEF vars, process, disk, bounds

Founder == Least(conf[CHOOSE i \in Nodes : TRUE])

\* A node's first membership entry is the founder's table or is missing;
\* node 3 may have the one of POST /init.
FoundedOnce == \A n \in Nodes :
    \/ members[n] \in {NoMembers, FromTable(Founder)}
    \/ n = HttpNode /\ members[n] = Posted

\* Only the founder's process gets as far as is_initialized.
OnlyTheFounderChecks == \A n \in Nodes :
    task[n]["init"] \in {"spawned", "checked"} => InitNode(n) = n

ClusterInv == FoundedOnce /\ OnlyTheFounderChecks

-----------------------------------------------------------------------------
(* The tables agree on the founder. *)

LEMMA FounderIsInitNode ==
    ASSUME TypeOK, NEW n \in Nodes
    PROVE  InitNode(n) = Founder
<1>1. (CHOOSE i \in Nodes : TRUE) \in Nodes
  OBVIOUS
<1>2. conf \in Confs
  BY DEF TypeOK
<1> QED
  BY <1>1, <1>2, ConstantsAssumption DEF ConstantsAssumption, InitNode, Founder

LEMMA TablesAreNodes ==
    ASSUME TypeOK, NEW n \in Nodes
    PROVE  FromTable(n) \in Memberships /\ FromTable(n) # Posted
  BY ConstantsAssumption DEF ConstantsAssumption, TypeOK, FromTable, Memberships, Posted

LEMMA TaskTypes ==
    ASSUME TypeOK, NEW n \in Nodes, NEW k \in TaskNames, NEW s \in TaskState
    PROVE  [task EXCEPT ![n][k] = s] \in [Nodes -> [TaskNames -> TaskState]]
  BY DEF TypeOK

LEMMA EndsTypes ==
    ASSUME TypeOK, NEW n \in Nodes, Ends(n)
    PROVE  /\ main' \in [Nodes -> MainState]
           /\ task' \in [Nodes -> [TaskNames -> TaskState]]
           /\ told' \in [Nodes -> SUBSET Servers]
  BY DEF TypeOK, Ends, AllTasks, MainState, TaskState

LEMMA WriteTypes ==
    ASSUME TypeOK, NEW n \in Nodes, NEW c \in Memberships, Write(n, c)
    PROVE  members' \in [Nodes -> Memberships] /\ voted' \in [Nodes -> BOOLEAN]
  BY DEF TypeOK, Write

LEMMA InitIsTyped == Init => TypeOK
<1> SUFFICES ASSUME Init PROVE TypeOK
  OBVIOUS
<1>1. 0 \in 0 .. MaxFaults /\ 0 \in 0 .. MaxLosses /\ 0 \in 0 .. MaxStops
  BY ConstantsAssumption DEF ConstantsAssumption
<1> QED
  BY <1>1 DEF Init, TypeOK, AllTasks, NoMembers, Memberships, MainState, TaskState

LEMMA StepIsTyped ==
    ASSUME TypeOK, [Next]_vars
    PROVE  TypeOK'
<1> USE DEF Servers, TaskNames
<1>0. CASE UNCHANGED vars
  BY <1>0 DEF TypeOK
<1>1. ASSUME NEW n \in Nodes, StartServer(n) PROVE TypeOK'
  BY <1>1 DEF StartServer, TypeOK, MainState, TaskState
<1>2. ASSUME NEW n \in Nodes, CtrlC(n) PROVE TypeOK'
  <2>1. stops' \in 0 .. MaxStops
    BY <1>2, ConstantsAssumption DEF CtrlC, TypeOK, ConstantsAssumption
  <2> QED
    BY <1>2, <2>1 DEF CtrlC, TypeOK, MainState
<1>3. ASSUME NEW n \in Nodes, Return(n) PROVE TypeOK'
  BY <1>3, EndsTypes DEF Return, TypeOK
<1>4. ASSUME NEW n \in Nodes, NEW k \in Servers, Serve(n, k) PROVE TypeOK'
  BY <1>4, TaskTypes DEF Serve, Becomes, TypeOK, TaskState
<1>5. ASSUME NEW n \in Nodes, NEW k \in Servers, BindFails(n, k) PROVE TypeOK'
  <2>1. faults' \in 0 .. MaxFaults
    BY <1>5, ConstantsAssumption DEF BindFails, TypeOK, ConstantsAssumption
  <2> QED
    BY <1>5, <2>1, TaskTypes DEF BindFails, Becomes, TypeOK, TaskState
<1>6. ASSUME NEW n \in Nodes, NEW k \in Servers, Hear(n, k) PROVE TypeOK'
  <2>1. task' \in [Nodes -> [TaskNames -> TaskState]]
    BY <1>6, TaskTypes DEF Hear, Becomes, TaskState
  <2>2. told' \in [Nodes -> SUBSET Servers]
    BY <1>6 DEF Hear, TypeOK
  <2> QED
    BY <1>6, <2>1, <2>2 DEF Hear, TypeOK
<1>7. ASSUME NEW n \in Nodes, CheckInitialized(n) PROVE TypeOK'
  BY <1>7, TaskTypes DEF CheckInitialized, Becomes, TypeOK, TaskState
<1>8. ASSUME NEW n \in Nodes, Initialize(n) PROVE TypeOK'
  <2>1. members' \in [Nodes -> Memberships] /\ voted' \in [Nodes -> BOOLEAN]
    BY <1>8, WriteTypes, TablesAreNodes DEF Initialize
  <2> QED
    BY <1>8, <2>1, TaskTypes DEF Initialize, Becomes, TypeOK, TaskState
<1>9. ASSUME NEW n \in Nodes, InitializeRefused(n) PROVE TypeOK'
  BY <1>9, TaskTypes DEF InitializeRefused, Becomes, TypeOK, TaskState
<1>10. ASSUME NEW n \in Nodes, HttpInitialize(n) PROVE TypeOK'
  <2>1. Posted \in Memberships
    BY <1>10 DEF HttpInitialize, Posted, Memberships
  <2> QED
    BY <1>10, <2>1, WriteTypes DEF HttpInitialize, TypeOK
<1>11. ASSUME NEW m \in Nodes, NEW n \in Nodes, Vote(m, n) PROVE TypeOK'
  BY <1>11 DEF Vote, TypeOK
<1>12. ASSUME NEW m \in Nodes, NEW n \in Nodes, Replicate(m, n) PROVE TypeOK'
  <2>1. members[m] \in Memberships
    BY DEF TypeOK
  <2> QED
    BY <1>12, <2>1, WriteTypes DEF Replicate, TypeOK
<1>13. ASSUME NEW n \in Nodes, Crash(n) PROVE TypeOK'
  <2>1. faults' \in 0 .. MaxFaults
    BY <1>13, ConstantsAssumption DEF Crash, TypeOK, ConstantsAssumption
  <2> QED
    BY <1>13, <2>1, EndsTypes DEF Crash, TypeOK
<1>14. ASSUME NEW n \in Nodes, LoseDisk(n) PROVE TypeOK'
  <2>1. losses' \in 0 .. MaxLosses
    BY <1>14, ConstantsAssumption DEF LoseDisk, TypeOK, ConstantsAssumption
  <2>2. members' \in [Nodes -> Memberships] /\ voted' \in [Nodes -> BOOLEAN]
    BY <1>14 DEF LoseDisk, TypeOK, NoMembers, Memberships
  <2> QED
    BY <1>14, <2>1, <2>2, EndsTypes DEF LoseDisk, TypeOK
<1> QED
  BY <1>0, <1>1, <1>2, <1>3, <1>4, <1>5, <1>6, <1>7, <1>8, <1>9, <1>10, <1>11,
     <1>12, <1>13, <1>14 DEF Next, Run

\* Every variable keeps its type, whatever the nodes tables, the faults and
\* the stops (PlacementServer; start_server and what it spawns).
THEOREM ServerTypes == Spec => []TypeOK
<1>1. Init => TypeOK
  BY InitIsTyped
<1>2. TypeOK /\ [Next]_vars => TypeOK'
  BY StepIsTyped
<1> QED
  BY <1>1, <1>2, PTL DEF Spec

-----------------------------------------------------------------------------
(* One cluster *)

LEMMA EndsKeepsFounder ==
    ASSUME TypeOK, OnlyTheFounderChecks, NEW n \in Nodes, Ends(n), UNCHANGED conf
    PROVE  OnlyTheFounderChecks'
  BY DEF TypeOK, OnlyTheFounderChecks, Ends, AllTasks, InitNode, TaskNames

LEMMA StepFoundsOnce ==
    ASSUME TypeOK, ClusterInv, [Next]_vars
    PROVE  ClusterInv'
<1> USE DEF Servers, TaskNames
<1>c. conf' = conf /\ Founder' = Founder
  BY DEF Next, Run, StartServer, CtrlC, Return, Ends, Serve, BindFails, Hear, CheckInitialized,
     Initialize, InitializeRefused, HttpInitialize, Vote, Replicate, Crash, LoseDisk, Founder
<1>f. FromTable(Founder)' = FromTable(Founder)
  BY <1>c DEF FromTable
<1>i. \A n \in Nodes : InitNode(n)' = InitNode(n)
  BY <1>c DEF InitNode
<1>m. ASSUME UNCHANGED members PROVE FoundedOnce'
  BY <1>f, <1>m DEF ClusterInv, FoundedOnce, NoMembers, Posted
<1>t. ASSUME UNCHANGED task PROVE OnlyTheFounderChecks'
  BY <1>i, <1>t DEF ClusterInv, OnlyTheFounderChecks
<1>k. ASSUME NEW n \in Nodes, NEW k \in TaskNames, NEW s \in TaskState, Becomes(n, k, s),
             k # "init" \/ task[n]["init"] \in {"spawned", "checked"}
      PROVE  OnlyTheFounderChecks'
  <2>1. \A x \in Nodes : task'[x]["init"] = task[x]["init"]
                      \/ (x = n /\ task[n]["init"] \in {"spawned", "checked"})
    BY <1>k DEF Becomes, TypeOK
  <2> QED
    BY <2>1, <1>i DEF ClusterInv, OnlyTheFounderChecks
<1>0. CASE UNCHANGED vars
  BY <1>0, <1>m, <1>t DEF ClusterInv
<1>1. ASSUME NEW n \in Nodes, StartServer(n) PROVE ClusterInv'
  <2>1. OnlyTheFounderChecks'
    BY <1>1, <1>i DEF StartServer, ClusterInv, OnlyTheFounderChecks, TypeOK
  <2> QED
    BY <1>1, <2>1, <1>m DEF StartServer, ClusterInv
<1>2. ASSUME NEW n \in Nodes, CtrlC(n) PROVE ClusterInv'
  BY <1>2, <1>m, <1>t DEF CtrlC, ClusterInv
<1>3. ASSUME NEW n \in Nodes, Return(n) PROVE ClusterInv'
  BY <1>3, <1>m, EndsKeepsFounder DEF Return, ClusterInv
<1>4. ASSUME NEW n \in Nodes, NEW k \in Servers, Serve(n, k) PROVE ClusterInv'
  BY <1>4, <1>m, <1>k DEF Serve, ClusterInv, TaskState
<1>5. ASSUME NEW n \in Nodes, NEW k \in Servers, BindFails(n, k) PROVE ClusterInv'
  BY <1>5, <1>m, <1>k DEF BindFails, ClusterInv, TaskState
<1>6. ASSUME NEW n \in Nodes, NEW k \in Servers, Hear(n, k) PROVE ClusterInv'
  BY <1>6, <1>m, <1>k DEF Hear, ClusterInv, TaskState
<1>7. ASSUME NEW n \in Nodes, CheckInitialized(n) PROVE ClusterInv'
  BY <1>7, <1>m, <1>k DEF CheckInitialized, Is, ClusterInv, TaskState
<1>8. ASSUME NEW n \in Nodes, Initialize(n) PROVE ClusterInv'
  <2>1. OnlyTheFounderChecks'
    BY <1>8, <1>k DEF Initialize, Is, TaskState
  <2>2. Founder = n
    BY <1>8, FounderIsInitNode DEF Initialize, Is, ClusterInv, OnlyTheFounderChecks
  <2>3. FoundedOnce'
    BY <1>8, <1>f, <2>2 DEF Initialize, Write, TypeOK, ClusterInv, FoundedOnce, NoMembers, Posted
  <2> QED
    BY <2>1, <2>3 DEF ClusterInv
<1>9. ASSUME NEW n \in Nodes, InitializeRefused(n) PROVE ClusterInv'
  BY <1>9, <1>m, <1>k DEF InitializeRefused, Is, ClusterInv, TaskState
<1>10. ASSUME NEW m \in Nodes, NEW n \in Nodes, Vote(m, n) PROVE ClusterInv'
  BY <1>10, <1>m, <1>t DEF Vote, ClusterInv
<1>11. ASSUME NEW m \in Nodes, NEW n \in Nodes, Replicate(m, n) PROVE ClusterInv'
  <2>1. members[m] # Posted
    <3>1. ASSUME members[m] = Posted PROVE FALSE
      <4>1. n = HttpNode /\ m # HttpNode
        BY <1>11, <3>1 DEF Replicate, Reaches, Posted
      <4>2. members[m] \in {NoMembers, FromTable(Founder)}
        BY <4>1 DEF ClusterInv, FoundedOnce
      <4> QED
        BY <3>1, <4>2 DEF Posted, NoMembers, FromTable
    <3> QED
      BY <3>1
  <2>2. members[m] = FromTable(Founder)
    BY <1>11, <2>1 DEF Replicate, Reaches, ClusterInv, FoundedOnce
  <2>3. FoundedOnce'
    BY <1>11, <1>f, <2>2 DEF Replicate, Write, TypeOK, ClusterInv, FoundedOnce, NoMembers, Posted
  <2> QED
    BY <1>11, <2>3, <1>t DEF Replicate, ClusterInv
<1>12. ASSUME NEW n \in Nodes, Crash(n) PROVE ClusterInv'
  BY <1>12, <1>m, EndsKeepsFounder DEF Crash, ClusterInv
<1>13. ASSUME NEW n \in Nodes, LoseDisk(n) PROVE ClusterInv'
  <2>1. FoundedOnce'
    BY <1>13, <1>f DEF LoseDisk, TypeOK, ClusterInv, FoundedOnce, NoMembers, Posted
  <2> QED
    BY <1>13, <2>1, EndsKeepsFounder DEF LoseDisk, ClusterInv
<1>14. ASSUME NEW n \in Nodes, HttpInitialize(n) PROVE ClusterInv'
  <2>1. n = HttpNode
    BY <1>14 DEF HttpInitialize, Posted
  <2>2. FoundedOnce'
    BY <1>14, <1>f, <2>1 DEF HttpInitialize, Write, TypeOK, ClusterInv, FoundedOnce, NoMembers, Posted
  <2> QED
    BY <1>14, <2>2, <1>t DEF HttpInitialize, ClusterInv
<1> QED
  BY <1>0, <1>1, <1>2, <1>3, <1>4, <1>5, <1>6, <1>7, <1>8, <1>9, <1>10, <1>11,
     <1>12, <1>13, <1>14 DEF Next, Run

\* No two nodes hold different first membership entries, whoever crashes,
\* loses its disk or is told to initialize: only the node with the smallest
\* id ever writes one of its own, and writes its own table again when its
\* disk was lost (start_openraft_node, calc_init_node); POST /init adds its
\* one entry to node 3 alone (http::openraft::init).
THEOREM OneClusterIsFounded == Spec => []OneCluster
<1>1. Init => ClusterInv
  BY DEF Init, ClusterInv, FoundedOnce, OnlyTheFounderChecks, AllTasks, TaskNames
<1>2. TypeOK /\ ClusterInv /\ [Next]_vars => ClusterInv'
  BY StepFoundsOnce
<1>3. TypeOK /\ ClusterInv => OneCluster
  <2> SUFFICES ASSUME TypeOK, ClusterInv PROVE OneCluster
    OBVIOUS
  <2>1. FromTable(Founder) # Posted /\ NoMembers # Posted
    BY DEF FromTable, Posted, NoMembers
  <2> QED
    BY <2>1 DEF ClusterInv, FoundedOnce, OneCluster
<1> QED
  BY <1>1, <1>2, <1>3, ServerTypes, PTL DEF Spec

=============================================================================

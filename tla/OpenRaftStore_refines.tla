----------------------- MODULE OpenRaftStore_refines -----------------------
(***************************************************************************)
(* OpenRaftStore implements ServedMap, when no snapshot is installed       *)
(* beside a running builder and received snapshots are exact.  The proof   *)
(* stands on the invariants of the two modules it extends.                 *)
(***************************************************************************)
EXTENDS OpenRaftStore_exact

AbstractHistory == [i \in Index0 |-> history[i].kv]
AbstractStatus ==
    IF mode # "up" THEN "down" ELSE IF pc = "installSave" THEN "installing" ELSE "serving"
AbstractPoint == IF mode = "up" THEN sm.last ELSE 0
AbstractMap == IF mode = "up" THEN sm.kv ELSE EmptyMap

\* What a step of ServedMap may see.
Visible == <<<<len, AbstractHistory>>, RecoveryPoint(db), <<AbstractStatus, AbstractPoint, AbstractMap>>>>

LEMMA VisibleIsAll == UNCHANGED Visible => UNCHANGED Served!vars
  BY DEF Visible, AbstractHistory, AbstractStatus, AbstractPoint, AbstractMap,
         Served!vars, Served!cluster, Served!view

\* What a node has in memory and the durable point agree.
LEMMA MemoryMeetsDisk ==
    ASSUME TypeOK, DurableInv, mode \in {"recovering", "up"}
    PROVE  /\ committed = RecoveryPoint(db)
           /\ RecoveryPoint(db) \in Index0 /\ db.committed \in Index0 /\ db.snap.last \in Index0
           /\ db.committed <= committed /\ db.snap.last <= committed
           /\ sm.last \in Index0 /\ install.last \in Index0 /\ len \in Index0
           /\ committed <= len
<1>1. committed = RecoveryPoint(db) /\ RecoveryPoint(db) <= len
  BY DEF DurableInv, DiskInv, MemoryInv
<1>2. db.committed \in Index0 /\ db.snap.last \in Index0 /\ sm.last \in Index0
      /\ install.last \in Index0 /\ len \in Index0
  BY DEF TypeOK, Disk, State
<1> QED
  BY <1>1, <1>2 DEF RecoveryPoint, Larger, Index0

\* A crash leaves the durable point where it was, whatever survives.
LEMMA CrashKeepsPoint ==
    ASSUME TypeOK, DurableInv, ProcessCrash \/ MachineCrash
    PROVE  RecoveryPoint(db') = RecoveryPoint(db)
<1>1. db' \in unsynced
  BY DEF TypeOK, ProcessCrash, MachineCrash, disk
<1>2. SameMarks(db', db)
  BY <1>1 DEF DurableInv, DiskInv
<1> QED
  BY <1>2 DEF SameMarks, RecoveryPoint

\* What readers see does not change, and neither does the durable point.
LEMMA StepStutters ==
    ASSUME UNCHANGED <<len, history, mode, sm>>,
           pc = "installSave" <=> pc' = "installSave",
           RecoveryPoint(db') = RecoveryPoint(db)
    PROVE  UNCHANGED Visible
<1>1. AbstractStatus' = AbstractStatus
  BY DEF AbstractStatus
<1>2. AbstractPoint' = AbstractPoint /\ AbstractMap' = AbstractMap /\ AbstractHistory' = AbstractHistory
  BY DEF AbstractPoint, AbstractMap, AbstractHistory
<1> QED
  BY <1>1, <1>2 DEF Visible

LEMMA InitImplements == Init => Served!Init
<1> SUFFICES ASSUME Init PROVE Served!Init
  OBVIOUS
<1>1. [i \in Index0 |-> history[i].kv] = [i \in 0 .. MaxLog |-> EmptyMap]
  BY DEF Init, Index0
<1>2. RecoveryPoint(db) = 0
  BY DEF Init, RecoveryPoint, EmptyDisk, EmptyState, Larger
<1> QED
  BY <1>1, <1>2 DEF Init, Served!Init

\* A step of RaftCore hardens a prefix, or shows nothing.
LEMMA CoreImplements ==
    ASSUME TypeOK, DurableInv, RaftCore
    PROVE  [Served!Next]_(Served!vars)
<1>S. UNCHANGED Visible => [Served!Next]_(Served!vars)
  BY VisibleIsAll
<1>T. db \in Disk
  BY DEF TypeOK
<1>1. ASSUME NEW v \in 1 .. MaxVote, SaveVote(v) PROVE UNCHANGED Visible
  <2>1. RecoveryPoint(db') = RecoveryPoint(db)
    BY <1>1, <1>T DEF SaveVote, VoteDisk, WriteSync, RecoveryPoint, Disk
  <2> QED
    BY <1>1, <2>1, StepStutters DEF SaveVote, ghost, core
<1>2. ASSUME NEW e \in Commands, AppendPut(e) PROVE UNCHANGED Visible
  <2>1. RecoveryPoint(db') = RecoveryPoint(db)
    BY <1>2, <1>T DEF AppendPut, Write, RecoveryPoint, Disk
  <2> QED
    BY <1>2, <2>1, StepStutters DEF AppendPut, ghost
<1>3. ASSUME AppendDone PROVE UNCHANGED Visible
  BY <1>3, StepStutters DEF AppendDone, ghost, disk
<1>4. ASSUME NEW i \in Index, Commit(i) PROVE Served!Next
  <2>1. /\ db' = [db EXCEPT !.committed = i] /\ mode = "up" /\ pc = "idle" /\ i > committed
        /\ i <= len /\ UNCHANGED <<len, history, mode, pc, sm>>
    BY <1>4 DEF Commit, CommitDisk, WriteSync, Idle, ghost
  <2>2. RecoveryPoint(db') = i
    <3>1. db'.committed = i /\ db'.snap = db.snap
      BY <2>1, <1>T DEF Disk
    <3> QED
      BY <2>1, <3>1, MemoryMeetsDisk DEF RecoveryPoint, Larger, Index, Index0
  <2>3. i > RecoveryPoint(db)
    BY <2>1, MemoryMeetsDisk
  <2>4. Served!Harden(i)
    BY <2>1, <2>2, <2>3 DEF Served!Harden, Served!cluster, Served!view
  <2> QED
    BY <2>4 DEF Served!Next, Index
<1>5. ASSUME NEW i \in Index, Truncate(i) PROVE UNCHANGED Visible
  <2>1. RecoveryPoint(db') = RecoveryPoint(db)
    BY <1>5, <1>T DEF Truncate, Write, WithoutFrom, RecoveryPoint, Disk
  <2> QED
    BY <1>5, <2>1, StepStutters DEF Truncate, ghost, core
<1>6. ASSUME NEW i \in Index, PurgeRequest(i) PROVE UNCHANGED Visible
  BY <1>6, StepStutters DEF PurgeRequest, Idle, ghost, disk
<1>7. ASSUME PurgeMark PROVE UNCHANGED Visible
  <2>1. RecoveryPoint(db') = RecoveryPoint(db)
    BY <1>7, <1>T DEF PurgeMark, WriteSync, RecoveryPoint, Disk
  <2> QED
    BY <1>7, <2>1, StepStutters DEF PurgeMark, ghost
<1>8. ASSUME PurgeDelete PROVE UNCHANGED Visible
  <2>1. RecoveryPoint(db') = RecoveryPoint(db)
    BY <1>8, <1>T DEF PurgeDelete, PurgeRange, Write, WithoutUpTo, RecoveryPoint, Disk
  <2> QED
    BY <1>8, <2>1, StepStutters DEF PurgeDelete, ghost
<1>9. ASSUME NEW s \in Index, NEW u \in Index, NEW at \in [Keys -> s .. u],
             AcceptInstall(s, u, at)
      PROVE  UNCHANGED Visible
  <2>1. RecoveryPoint(db') = RecoveryPoint(db)
    BY <1>9, <1>T DEF AcceptInstall, Write, WithoutFrom, RecoveryPoint, Disk, disk
  <2> QED
    BY <1>9, <2>1, StepStutters DEF AcceptInstall, Idle, ghost
<1> QED
  BY <1>S, <1>1, <1>2, <1>3, <1>4, <1>5, <1>6, <1>7, <1>8, <1>9 DEF RaftCore

\* A step of the worker or of the builder shows the next entry, or a snapshot
\* and then that it is durable, or nothing.
LEMMA WorkerImplements ==
    ASSUME TypeOK, TypeOK', DurableInv, DurableInv',
           ServesCommittedState, ServesCommittedState', Worker \/ Builder
    PROVE  [Served!Next]_(Served!vars)
<1>S. UNCHANGED Visible => [Served!Next]_(Served!vars)
  BY VisibleIsAll
<1>T. db \in Disk /\ sm \in State /\ install \in State /\ sm' \in State
  BY DEF TypeOK
<1>1. ASSUME Apply PROVE [Served!Next]_(Served!vars)
  <2>1. /\ mode \in {"recovering", "up"} /\ pc # "installSave" /\ sm.last < committed
        /\ sm'.last = sm.last + 1
        /\ UNCHANGED <<len, history, db, mode, pc>>
    BY <1>1, <1>T DEF Apply, Pending, Applied, State, ghost, disk, core
  <2>2. CASE mode = "recovering"
    BY <2>1, <2>2, <1>S DEF Visible, AbstractHistory, AbstractStatus, AbstractPoint, AbstractMap
  <2>3. CASE mode = "up"
    <3>1. sm.last + 1 \in Index /\ sm.last + 1 > sm.last /\ sm.last + 1 <= RecoveryPoint(db)
      BY <2>1, MemoryMeetsDisk, ConstantsAssumption DEF ConstantsAssumption, Index, Index0
    <3>2. sm'.kv = history[sm.last + 1].kv
      BY <2>1, <2>3 DEF ServesCommittedState
    <3>3. sm'.kv = [i \in Index0 |-> history[i].kv][sm.last + 1]
      BY <3>1, <3>2 DEF Index, Index0
    <3>4. Served!Advance(sm.last + 1)
      BY <2>1, <2>3, <3>1, <3>3 DEF Served!Advance, Served!Shows, Served!cluster
    <3> QED
      BY <3>1, <3>4 DEF Served!Next, Index
  <2> QED
    BY <2>1, <2>2, <2>3
<1>2. ~ApplyMissing
  BY DEF ApplyMissing, DurableInv, DiskInv
<1>3. ASSUME InstallUpdate PROVE Served!Next
  <2>1. /\ mode = "up" /\ pc = "install" /\ sm' = install /\ pc' = "installSave"
        /\ UNCHANGED <<len, history, db, mode>>
    BY <1>3 DEF InstallUpdate, ghost, disk
  <2>2. install.last > RecoveryPoint(db) /\ install.last <= len
    BY <2>1, MemoryMeetsDisk DEF DurableInv, MemoryInv
  <2>3. install.last \in Index
    BY <2>1, <2>2, MemoryMeetsDisk DEF Index, Index0
  <2>4. install.kv = history[install.last].kv
    BY <2>1 DEF ServesCommittedState
  <2>5. install.kv = [i \in Index0 |-> history[i].kv][install.last]
    BY <2>3, <2>4 DEF Index, Index0
  <2>6. Served!Install(install.last)
    BY <2>1, <2>2, <2>5 DEF Served!Install, Served!Shows, Served!cluster
  <2> QED
    BY <2>3, <2>6 DEF Served!Next, Index
<1>4. ASSUME InstallSave PROVE Served!Next
  <2>1. /\ mode = "up" /\ pc = "installSave" /\ pc' = "purge" /\ db' = [db EXCEPT !.snap = install]
        /\ UNCHANGED <<len, history, mode, sm>>
    BY <1>4 DEF InstallSave, WriteSync, ghost
  <2>2. install.last > committed /\ sm.last = install.last
    BY <2>1 DEF DurableInv, MemoryInv
  <2>3. RecoveryPoint(db') = sm.last
    <3>1. db'.snap = install /\ db'.committed = db.committed
      BY <2>1, <1>T DEF Disk
    <3> QED
      BY <2>1, <2>2, <3>1, MemoryMeetsDisk DEF RecoveryPoint, Larger, Index0
  <2>4. Served!Installed
    BY <2>1, <2>3 DEF Served!Installed, Served!cluster
  <2> QED
    BY <2>4 DEF Served!Next
<1>5. ASSUME BuildBegin PROVE UNCHANGED Visible
  BY <1>5, StepStutters DEF BuildBegin, ghost, disk, core
<1>6. ASSUME BuildRead PROVE UNCHANGED Visible
  BY <1>6, StepStutters DEF BuildRead, ghost, disk, core
<1>7. ASSUME BuildSave PROVE UNCHANGED Visible
  <2>1. /\ mode = "up" /\ builder.st = "read" /\ db' = [db EXCEPT !.snap = builder.state]
        /\ UNCHANGED <<len, history, mode, pc, sm>>
    BY <1>7 DEF BuildSave, SnapDisk, WriteSync, ghost
  <2>2. /\ pc # "installSave" /\ sm.last <= committed
        /\ db.snap.last <= builder.state.last /\ builder.state.last <= sm.last
    BY <2>1 DEF DurableInv, MemoryInv
  <2>3. builder.state \in State /\ builder.state.last \in Index0
    BY DEF TypeOK, State
  <2>4. db'.snap = builder.state /\ db'.committed = db.committed
    BY <2>1, <1>T DEF Disk
  <2>5. RecoveryPoint(db') = RecoveryPoint(db)
    BY <2>1, <2>2, <2>3, <2>4, MemoryMeetsDisk DEF RecoveryPoint, Larger, Index0
  <2> QED
    BY <2>1, <2>5, StepStutters
<1> QED
  BY <1>S, <1>1, <1>2, <1>3, <1>4, <1>5, <1>6, <1>7 DEF Worker, Builder

LEMMA StepImplements ==
    ASSUME TypeOK, TypeOK', DurableInv, DurableInv',
           ServesCommittedState, ServesCommittedState', [Next]_vars
    PROVE  [Served!Next]_(Served!vars)
<1>S. UNCHANGED Visible => [Served!Next]_(Served!vars)
  BY VisibleIsAll
<1>1. ASSUME NEW e \in Commands, Choose(e) PROVE Served!Next
  <2> DEFINE m == Effect(history[len], e, len + 1).kv
  <2>1. /\ len < MaxLog /\ len' = len + 1
        /\ history' = [history EXCEPT ![len + 1] = Effect(history[len], e, len + 1)]
        /\ UNCHANGED <<db, mode, pc, sm>>
    BY <1>1 DEF Choose, disk, core
  <2>2. len + 1 \in Index0
    BY <2>1, ConstantsAssumption DEF ConstantsAssumption, TypeOK, Index0
  <2>3. history' [len + 1] = Effect(history[len], e, len + 1)
    BY <2>1, <2>2 DEF TypeOK
  <2>4. m \in Map
    BY <2>2, <2>3 DEF TypeOK
  <2>5. \A i \in Index0 : i # len + 1 => history'[i] = history[i]
    BY <2>1 DEF TypeOK
  <2>6. [i \in Index0 |-> history'[i].kv] = [[i \in Index0 |-> history[i].kv] EXCEPT ![len + 1] = m]
    BY <2>3, <2>5
  <2>7. Served!Grow
    BY <2>1, <2>4, <2>6 DEF Served!Grow, Served!view
  <2> QED
    BY <2>7 DEF Served!Next
<1>2. ASSUME ProcessCrash \/ MachineCrash PROVE [Served!Next]_(Served!vars)
  <2>1. mode \in {"recovering", "up"} /\ mode' = "down" /\ UNCHANGED <<len, history>>
    BY <1>2 DEF ProcessCrash, MachineCrash, LoseMemory, ghost
  <2>2. RecoveryPoint(db') = RecoveryPoint(db)
    BY <1>2, CrashKeepsPoint
  <2>3. CASE mode = "recovering"
    BY <2>1, <2>2, <2>3, <1>S DEF Visible, AbstractHistory, AbstractStatus, AbstractPoint, AbstractMap
  <2>4. CASE mode = "up"
    <3>1. Served!Stop
      BY <2>1, <2>2, <2>4 DEF Served!Stop, Served!cluster
    <3> QED
      BY <3>1 DEF Served!Next
  <2> QED
    BY <2>1, <2>3, <2>4
<1>3. ASSUME Start PROVE UNCHANGED Visible
  BY <1>3 DEF Start, Visible, AbstractHistory, AbstractStatus, AbstractPoint, AbstractMap,
     ghost, disk
<1>4. ASSUME Recovered PROVE Served!Next
  <2>1. /\ mode = "recovering" /\ mode' = "up" /\ sm.last = committed /\ pc' \in {pc, "purge"}
        /\ UNCHANGED <<len, history, db, sm>>
    BY <1>4 DEF Recovered, Ready, ghost, disk
  <2>2. pc' # "installSave"
    BY <2>1 DEF DurableInv, MemoryInv
  <2>3. sm.last = RecoveryPoint(db) /\ RecoveryPoint(db) \in Index0
    BY <2>1, MemoryMeetsDisk
  <2>4. sm.kv = history[sm.last].kv
    BY <2>1 DEF ServesCommittedState
  <2>5. sm.kv = [i \in Index0 |-> history[i].kv][RecoveryPoint(db)]
    BY <2>3, <2>4
  <2>6. Served!Resume
    BY <2>1, <2>2, <2>3, <2>5 DEF Served!Resume, Served!Shows, Served!cluster
  <2> QED
    BY <2>6 DEF Served!Next
<1>5. ASSUME UNCHANGED vars PROVE UNCHANGED Visible
  BY <1>5 DEF vars, ghost, disk, core, Visible, AbstractHistory, AbstractStatus, AbstractPoint,
     AbstractMap
<1> QED
  BY <1>S, <1>1, <1>2, <1>3, <1>4, <1>5, CoreImplements, WorkerImplements DEF Next

\* The store serves its map the way ServedMap promises: readers never see the
\* map go back while the node is up, and after any crash or power loss, in the
\* middle of a write, a purge, a snapshot or a re-application, the node serves
\* again from a point no earlier than all it served except the snapshot it was
\* installing (StateMachineStore, LogStore, create_raft_node).
THEOREM StoreImplementsServedMap ==
    ASSUME ~InstallWhileBuilding, MaxFuzz = 0
    PROVE  Spec => ImplementsServedMap
<1>1. Init => Served!Init
  BY InitImplements
<1>2. /\ TypeOK /\ TypeOK' /\ DurableInv /\ DurableInv'
      /\ ServesCommittedState /\ ServesCommittedState' /\ [Next]_vars
      => [Served!Next]_(Served!vars)
  BY StepImplements
<1> QED
  BY <1>1, <1>2, TypeCorrect, DurableInvHolds, RunningNodeIsExact, PTL
     DEF Spec, ImplementsServedMap, Served!Spec

=============================================================================

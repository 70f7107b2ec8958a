----------------------- MODULE OpenRaftStore_proofs -----------------------
(***************************************************************************)
(* What TLAPS proves of OpenRaftStore for every set of keys, values and    *)
(* commands, every log length and any number of crashes.                   *)
(***************************************************************************)
EXTENDS OpenRaftStore, FiniteSetTheorems, WellFoundedInduction, TLAPS

USE ConstantsAssumption

-----------------------------------------------------------------------------
(* Facts about the operators of the model. *)

\* A non-empty set of log indexes has a largest one: the suffixes i..N that
\* start in S are well-founded under strict inclusion, and the smallest suffix
\* starts at the largest index.
LEMMA LargestExists ==
    ASSUME NEW N \in Nat, NEW S \in SUBSET (1 .. N), S # {}
    PROVE  \E m \in S : \A j \in S : j <= m
<1> DEFINE T == {i .. N : i \in S}
           R == StrictSubsetOrdering(1 .. N)
           F == FiniteSubsetsOf(1 .. N)
<1>1. IsWellFoundedOn(R, F)
  BY FS_StrictSubsetOrderingWellFounded
<1>2. T \subseteq F /\ T # {}
  <2>1. \A i \in S : i .. N \in SUBSET (1 .. N) /\ IsFiniteSet(i .. N)
    BY FS_Interval
  <2>2. QED BY <2>1 DEF FiniteSubsetsOf
<1>3. PICK X \in T : \A Y \in T : ~ (<<Y, X>> \in R)
  <2> HIDE DEF T, R, F
  <2> QED BY <1>1, <1>2, WFMin
<1>4. PICK m \in S : X = m .. N
  OBVIOUS
<1>5. ASSUME NEW j \in S, j > m PROVE FALSE
  <2>1. j .. N \in T /\ j .. N \subseteq X /\ j .. N # X
    <3>1. m \in X /\ m \notin j .. N BY <1>4, <1>5
    <3>2. j .. N \subseteq X BY <1>4, <1>5
    <3> QED BY <3>1, <3>2
  <2>2. j .. N \in SUBSET (1 .. N) /\ X \in SUBSET (1 .. N)
    BY <1>4
  <2>3. <<j .. N, X>> \in R
    BY <2>1, <2>2 DEF StrictSubsetOrdering
  <2> QED BY <1>3, <2>1, <2>3
<1> QED BY <1>5

\* get_log_state returns an index, the largest one stored if any is.
LEMMA LastIndexIsLargest ==
    ASSUME NEW d \in Disk
    PROVE  /\ LastIndex(d) \in Index0
           /\ Present(d) = {} => LastIndex(d) = d.purged
           /\ Present(d) # {} => LastIndex(d) \in Present(d)
           /\ \A j \in Index : d.log[j] # Hole => j <= LastIndex(d)
<1>1. d.purged \in Index0 /\ Present(d) \in SUBSET (1 .. MaxLog)
  BY DEF Disk, Present, Index
<1>2. CASE Present(d) = {}
  BY <1>1, <1>2 DEF LastIndex, Present, Index
<1>3. CASE Present(d) # {}
  <2>1. \E m \in Present(d) : \A j \in Present(d) : j <= m
    BY <1>1, <1>3, LargestExists
  <2>2. /\ LastIndex(d) \in Present(d)
        /\ \A j \in Present(d) : j <= LastIndex(d)
    BY <2>1, <1>3 DEF LastIndex
  <2> QED BY <1>1, <1>3, <2>2 DEF Present, Index, Index0
<1> QED BY <1>2, <1>3

\* Every write keeps RocksDB's content a Disk, and the survivors Disks.
LEMMA WriteType ==
    ASSUME unsynced \subseteq Disk, NEW d \in Disk, Write(d) \/ WriteSync(d)
    PROVE  db' \in Disk /\ unsynced' \subseteq Disk /\ db' \in unsynced'
BY DEF Write, WriteSync

\* Deleting a range leaves a Disk.
LEMMA DeleteRangeType ==
    ASSUME NEW d \in Disk, NEW i \in Nat
    PROVE  WithoutFrom(d, i) \in Disk /\ WithoutUpTo(d, i) \in Disk
BY DEF Disk, WithoutFrom, WithoutUpTo

\* Applying an entry to a state below the end of the log gives a state.
LEMMA AppliedType ==
    ASSUME NEW s \in State, NEW e \in Commands, s.last < MaxLog
    PROVE  Applied(s, e) \in State
<1>1. e \in Command /\ s.kv \in Map
  BY DEF State
<1>2. Updated(s.kv, e) \in Map
  <2>1. CASE e.op = "set"
    <3>1. e.key \in Keys /\ e.value \in Values BY <1>1, <2>1 DEF Command
    <3> QED BY <1>1, <2>1, <3>1 DEF Updated, Insert, Map
  <2>2. CASE e.op = "delete"
    <3>1. e.key \in Keys BY <1>1, <2>2 DEF Command
    <3> QED BY <1>1, <2>2, <3>1 DEF Updated, Remove, Map
  <2>3. CASE e.op \notin {"set", "delete"}
    BY <1>1, <2>3 DEF Updated
  <2> QED BY <2>1, <2>2, <2>3
<1>3. (IF e.op = "membership" THEN s.last + 1 ELSE s.mem) \in Index0
  BY DEF State, Index0
<1>4. s.last + 1 \in Index0
  BY DEF State, Index0
<1> QED BY <1>2, <1>3, <1>4 DEF Applied, State

-----------------------------------------------------------------------------
\* Every variable keeps its type, in every interleaving of RaftCore, the worker,
\* the builder and crashes.
THEOREM TypeCorrect == Spec => []TypeOK
<1>1. Init => TypeOK
  <2> SUFFICES ASSUME Init PROVE TypeOK OBVIOUS
  <2>1. EmptyState \in State /\ EmptyMap \in Map
    BY DEF EmptyState, State, EmptyMap, Map, Index0
  <2>2. EmptyDisk \in Disk
    BY <2>1 DEF EmptyDisk, Disk, Index0
  <2> QED BY <2>1, <2>2 DEF Init, TypeOK, NoBuilder, Index0
<1>2. TypeOK /\ [Next]_vars => TypeOK'
  <2> SUFFICES ASSUME TypeOK, [Next]_vars PROVE TypeOK' OBVIOUS
  <2> USE DEF TypeOK
  <2>0. EmptyState \in State /\ NoBuilder \in [st : {"none", "begun", "read"}, state : State]
    BY DEF EmptyState, State, EmptyMap, Map, Index0, NoBuilder
  <2>L. LastIndex(db) \in Index0
    BY LastIndexIsLargest
  <2>1. ASSUME NEW e \in Commands, Choose(e) PROVE TypeOK'
    <3>1. len + 1 \in Index /\ len + 1 \in Index0
      BY <2>1 DEF Choose, Index, Index0
    <3>2. Effect(history[len], e, len + 1) \in [kv : Map, mem : Index0]
      <4>1. e \in Command /\ history[len] \in [kv : Map, mem : Index0] OBVIOUS
      <4>2. \A k \in Keys : (IF ~Touches(e, k) THEN history[len].kv[k]
                             ELSE IF e.op = "set" THEN e.value ELSE Absent)
                              \in Values \cup {Absent}
        BY <4>1 DEF Command, Touches, Map
      <4> QED BY <3>1, <4>1, <4>2 DEF Effect, Map
    <3>3. chosen' \in [Index -> Commands \cup {Hole}]
      BY <2>1 DEF Choose
    <3>4. history' \in [Index0 -> [kv : Map, mem : Index0]]
      BY <2>1, <3>2 DEF Choose
    <3> QED BY <2>1, <3>1, <3>3, <3>4 DEF Choose, disk, core
  <2>2. ASSUME NEW v \in 1 .. MaxVote, SaveVote(v) PROVE TypeOK'
    <3>1. [db EXCEPT !.vote = v] \in Disk BY DEF Disk
    <3> QED BY <2>2, <3>1, WriteType DEF SaveVote, VoteDisk, ghost, core
  <2>3. ASSUME NEW e \in Commands, AppendPut(e) PROVE TypeOK'
    <3>1. [db EXCEPT !.log[LastIndex(db) + 1] = e] \in Disk
      BY <2>L DEF Disk
    <3> QED BY <2>3, <3>1, WriteType DEF AppendPut, ghost
  <2>4. CASE AppendDone
    BY <2>4, <2>L DEF AppendDone, Stored, ghost, disk
  <2>5. ASSUME NEW i \in Index, Commit(i) PROVE TypeOK'
    <3>1. i \in Index0 BY DEF Index, Index0
    <3>2. [db EXCEPT !.committed = i] \in Disk BY <3>1 DEF Disk
    <3> QED BY <2>5, <3>1, <3>2, WriteType DEF Commit, CommitDisk, ghost
  <2>6. ASSUME NEW i \in Index, Truncate(i) PROVE TypeOK'
    <3>1. WithoutFrom(db, i) \in Disk
      BY DeleteRangeType DEF Index
    <3>2. acked' \in Index0
      BY <2>6 DEF Truncate, Smaller, Index, Index0
    <3> QED BY <2>6, <3>1, <3>2, WriteType DEF Truncate, ghost, core
  <2>7. ASSUME NEW i \in Index, PurgeRequest(i) PROVE TypeOK'
    <3>1. i \in Index0 BY DEF Index, Index0
    <3> QED BY <2>7, <3>1 DEF PurgeRequest, ghost, disk
  <2>8. CASE PurgeMark
    <3>1. [db EXCEPT !.purged = target] \in Disk BY DEF Disk
    <3> QED BY <2>8, <3>1, WriteType DEF PurgeMark, ghost
  <2>9. CASE PurgeDelete
    <3>1. WithoutUpTo(db, target) \in Disk
      BY DeleteRangeType DEF Index0
    <3>2. 0 \in Index0 BY ConstantsAssumption DEF Index0
    <3>3. Write(WithoutUpTo(db, target)) BY <2>9 DEF PurgeDelete, PurgeRange
    <3> QED BY <2>9, <3>1, <3>2, <3>3, WriteType DEF PurgeDelete, ghost
  <2>10. ASSUME NEW s \in Index, NEW u \in Index, NEW at \in [Keys -> s .. u],
                AcceptInstall(s, u, at)
         PROVE  TypeOK'
    <3>1. Received(s, u, at) \in State
      <4>0. s \in Index0 /\ u \in Index0 /\ s .. u \subseteq Index0
        <5> HIDE DEF TypeOK
        <5> QED BY ConstantsAssumption DEF Index, Index0
      <4>1. s \in Index0 /\ u \in Index0 /\ \A k \in Keys : at[k] \in Index0
        BY <4>0
      <4>2. \A k \in Keys : history[at[k]].kv[k] \in Values \cup {Absent}
        BY <4>1 DEF Map
      <4> QED BY <4>1, <4>2 DEF Received, State, Map
    <3>2. WithoutFrom(db, committed + 1) \in Disk
      BY DeleteRangeType DEF Index0
    <3>3. Smaller(acked, committed) \in Index0
      BY DEF Smaller, Index0
    <3>4. CASE Conflicts(s)
      BY <2>10, <3>1, <3>2, <3>3, <3>4, WriteType DEF AcceptInstall, ghost
    <3>5. CASE ~Conflicts(s)
      BY <2>10, <3>1, <3>5 DEF AcceptInstall, ghost, disk
    <3> QED BY <3>4, <3>5
  <2>11. CASE Apply
    <3>1. sm.last + 1 \in Index /\ sm.last < MaxLog
      BY <2>11 DEF Apply, Pending, State, Index, Index0
    <3>2. db.log[sm.last + 1] \in Commands
      BY <2>11, <3>1 DEF Apply, Pending, Disk
    <3>3. Applied(sm, db.log[sm.last + 1]) \in State
      BY <3>1, <3>2, AppliedType
    <3> QED BY <2>11, <3>3 DEF Apply, Pending, ghost, disk, core
  <2>12. CASE ApplyMissing
    BY <2>12 DEF ApplyMissing, Pending, ghost, disk
  <2>13. CASE InstallUpdate
    BY <2>13 DEF InstallUpdate, ghost, disk
  <2>14. CASE InstallSave
    <3>1. [db EXCEPT !.snap = install] \in Disk /\ install.last \in Index0
      BY DEF Disk, State
    <3> QED BY <2>0, <2>14, <3>1, WriteType DEF InstallSave, ghost, Larger
  <2>15. CASE BuildBegin
    <3>1. [EmptyState EXCEPT !.last = sm.last, !.mem = sm.mem] \in State
      BY <2>0 DEF State
    <3> QED BY <2>15, <3>1 DEF BuildBegin, ghost, disk, core
  <2>16. CASE BuildRead
    <3>1. Larger(sm.upto, sm.last) \in Index0 BY DEF Larger, State
    <3>2. [builder.state EXCEPT !.kv = sm.kv, !.upto = Larger(sm.upto, sm.last)] \in State
      BY <3>1 DEF State
    <3> QED BY <2>16, <3>2 DEF BuildRead, ghost, disk, core
  <2>17. CASE BuildSave
    <3>1. [db EXCEPT !.snap = builder.state] \in Disk /\ builder.state.last \in Index0
      BY DEF Disk, State
    <3> QED BY <2>0, <2>17, <3>1, WriteType DEF BuildSave, SnapDisk, ghost, Larger
  <2>18. ASSUME LoseMemory, db' \in unsynced, unsynced' \subseteq Disk, db' \in unsynced'
         PROVE  TypeOK'
    <3>1. crashes' \in 0 .. MaxCrashes
      BY <2>18 DEF LoseMemory
    <3> QED BY <2>0, <2>18, <3>1 DEF LoseMemory, ghost, Index0
  <2>19. CASE ProcessCrash
    BY <2>18, <2>19 DEF ProcessCrash, disk
  <2>20. CASE MachineCrash
    BY <2>18, <2>20 DEF MachineCrash
  <2>21. CASE Start
    <3>1. db.snap \in State /\ db.snap.last \in Index0 /\ db.committed \in Index0
      BY DEF Disk, State
    <3> QED BY <2>21, <3>1 DEF Start, Restored, Larger, ghost, disk
  <2>22. CASE Recovered
    <3>1. sm.last \in Index0 BY DEF State
    <3> QED BY <2>22, <3>1 DEF Recovered, ghost, disk
  <2>23. CASE UNCHANGED vars
    BY <2>23 DEF vars, ghost, disk, core
  <2> QED
    BY <2>1, <2>2, <2>3, <2>4, <2>5, <2>6, <2>7, <2>8, <2>9, <2>10, <2>11, <2>12, <2>13, <2>14,
       <2>15, <2>16, <2>17, <2>19, <2>20, <2>21, <2>22, <2>23
    DEF Next, RaftCore, Worker, Builder
<1> QED BY <1>1, <1>2, PTL DEF Spec

-----------------------------------------------------------------------------
(***************************************************************************)
(* Durability.  EverySurvivorRebuilds and NeverFails are not inductive:    *)
(* what RaftCore appends and truncates must stay clear of the committed    *)
(* entries, which follows only from where the stored log ends              *)
(* (LastIndex), and that only from the log having no gaps, before and      *)
(* after a purge that a crash cut in two.                                  *)
(***************************************************************************)

\* No entry is missing between two stored ones, nor above the purge mark.
Contiguous(d) ==
    /\ \A i, j, k \in Index :
          i < j /\ j < k /\ d.log[i] # Hole /\ d.log[k] # Hole => d.log[j] # Hole
    /\ \A j, k \in Index :
          d.purged < j /\ j < k /\ d.log[k] # Hole => d.log[j] # Hole

\* The unflushed writes are all log writes: the marks are flushed as they are put.
SameMarks(d, e) ==
    d.vote = e.vote /\ d.committed = e.committed /\ d.purged = e.purged /\ d.snap = e.snap

DiskInv ==
    /\ \A d \in unsynced : SameMarks(d, db) /\ Rebuildable(d) /\ Contiguous(d)
    /\ RecoveryPoint(db) <= len
    /\ \A j \in Index : j <= len => chosen[j] \in Commands
    /\ promised <= db.vote
    /\ mode # "failed"

MemoryInv ==
    /\ committed = RecoveryPoint(db)
    /\ snapLast = db.snap.last /\ snapLast <= sm.last
    /\ pc # "installSave" => sm.last <= committed
    /\ pc \in {"install", "installSave"} =>
          builder.st = "none" /\ install.last > committed /\ install.last <= len
    /\ pc = "installSave" => sm.last = install.last
    /\ builder.st # "none" => snapLast <= builder.state.last /\ builder.state.last <= sm.last
    /\ pc \in {"purge", "purgeDelete"} => db.purged <= target /\ target <= snapLast
    /\ pc = "purgeDelete" => db.purged = target
    /\ mode = "recovering" => pc = "idle" /\ builder.st = "none"
    /\ mode = "up" => \/ LastIndex(db) >= committed
                      \/ pc \in {"purge", "purgeDelete"} /\ target >= committed

DurableInv ==
    /\ DiskInv
    /\ mode \in {"recovering", "up"} => MemoryInv
    /\ mode = "down" => pc = "idle" /\ builder.st = "none"

-----------------------------------------------------------------------------
(* Lemmas about the log's end. *)

\* An entry put at the end extends the log by one and leaves no gap.
LEMMA AppendExtends ==
    ASSUME NEW d \in Disk, Contiguous(d), NEW e \in Commands, LastIndex(d) < MaxLog,
           NEW f, f = [d EXCEPT !.log[LastIndex(d) + 1] = e]
    PROVE  /\ f \in Disk /\ SameMarks(f, d) /\ Contiguous(f)
           /\ \A j \in Index : j # LastIndex(d) + 1 => f.log[j] = d.log[j]
           /\ LastIndex(f) >= LastIndex(d) + 1
<1> DEFINE L == LastIndex(d)
<1>1. L \in Index0 /\ L + 1 \in Index
  BY LastIndexIsLargest DEF Index, Index0
<1>2. f \in Disk /\ SameMarks(f, d)
  BY <1>1 DEF Disk, SameMarks
<1>3. /\ f.log[L + 1] = e /\ e # Hole
      /\ \A j \in Index : j # L + 1 => f.log[j] = d.log[j]
  BY <1>1 DEF Disk
<1>4. LastIndex(f) >= L + 1
  BY <1>1, <1>2, <1>3, LastIndexIsLargest
<1>5. Contiguous(f)
  <2>1. \A j \in Index : d.log[j] # Hole => j <= L /\ d.log[L] # Hole /\ L \in Index
    BY LastIndexIsLargest DEF Present
  <2>2. (\A j \in Index : d.log[j] = Hole) => L = d.purged
    BY LastIndexIsLargest DEF Present
  <2>3. ASSUME NEW i \in Index, NEW j \in Index, NEW k \in Index, i < j, j < k,
               f.log[i] # Hole, f.log[k] # Hole
        PROVE  f.log[j] # Hole
    <3>1. i # L + 1 BY <1>1, <1>3, <2>1, <2>3 DEF Index, Index0
    <3>2. d.log[i] # Hole /\ j # L + 1 BY <1>1, <1>3, <2>1, <2>3, <3>1 DEF Index, Index0
    <3>3. CASE k = L + 1
      BY <1>1, <1>3, <2>1, <2>3, <3>2, <3>3 DEF Contiguous, Index, Index0
    <3>4. CASE k # L + 1
      BY <1>3, <2>3, <3>2, <3>4 DEF Contiguous
    <3> QED BY <3>3, <3>4
  <2>4. ASSUME NEW j \in Index, NEW k \in Index, f.purged < j, j < k, f.log[k] # Hole
        PROVE  f.log[j] # Hole
    <3>1. f.purged = d.purged /\ d.purged \in Index0 BY <1>2 DEF SameMarks, Disk
    <3>2. CASE k = L + 1
      BY <1>1, <1>3, <2>1, <2>2, <2>4, <3>1, <3>2 DEF Contiguous, Index, Index0
    <3>3. CASE k # L + 1
      BY <1>1, <1>3, <2>1, <2>4, <3>1, <3>3 DEF Contiguous, Index, Index0
    <3> QED BY <3>2, <3>3
  <2> QED BY <2>3, <2>4 DEF Contiguous
<1> QED BY <1>2, <1>3, <1>4, <1>5

\* A truncation above an index c that the log covers leaves it covering c.
LEMMA TruncateKeepsPrefix ==
    ASSUME NEW d \in Disk, Contiguous(d), NEW c \in Index0, NEW i \in Nat, i > c,
           LastIndex(d) >= i, NEW f, f = WithoutFrom(d, i)
    PROVE  /\ f \in Disk /\ SameMarks(f, d) /\ Contiguous(f)
           /\ \A j \in Index : j <= c => f.log[j] = d.log[j]
           /\ LastIndex(f) >= c
<1>1. f \in Disk
  BY DeleteRangeType
<1>2. SameMarks(f, d) /\ \A j \in Index : f.log[j] = IF j >= i THEN Hole ELSE d.log[j]
  BY DEF WithoutFrom, Disk, SameMarks
<1>3. Contiguous(f)
  <2>1. \A x, y, z \in Index : x < y /\ y < z /\ f.log[x] # Hole /\ f.log[z] # Hole => f.log[y] # Hole
    <3> SUFFICES ASSUME NEW x \in Index, NEW y \in Index, NEW z \in Index,
                        x < y, y < z, f.log[x] # Hole, f.log[z] # Hole
                 PROVE  f.log[y] # Hole
      OBVIOUS
    <3>1. z < i /\ d.log[z] # Hole /\ d.log[x] # Hole
      BY <1>2 DEF Index
    <3>2. d.log[y] # Hole /\ y < i
      BY <3>1 DEF Contiguous, Index
    <3> QED BY <1>2, <3>2 DEF Index
  <2>2. \A y, z \in Index : f.purged < y /\ y < z /\ f.log[z] # Hole => f.log[y] # Hole
    <3> SUFFICES ASSUME NEW y \in Index, NEW z \in Index, d.purged < y, y < z, f.log[z] # Hole
                 PROVE  f.log[y] # Hole
      BY <1>2 DEF SameMarks
    <3>1. z < i /\ d.log[z] # Hole
      BY <1>2 DEF Index
    <3>2. d.log[y] # Hole /\ y < i
      BY <3>1 DEF Contiguous, Index
    <3> QED BY <1>2, <3>2 DEF Index
  <2> QED BY <2>1, <2>2 DEF Contiguous
<1>4. LastIndex(f) >= c
  <2>1. CASE c <= d.purged
    <3>1. CASE Present(f) = {}
      BY <1>1, <1>2, <2>1, <3>1, LastIndexIsLargest DEF SameMarks
    <3>2. ASSUME NEW p \in Index, f.log[p] # Hole, p < c PROVE f.log[c] # Hole /\ c \in Index
      <4>1. p < i /\ d.log[p] # Hole /\ c \in Index
        BY <1>2, <3>2 DEF Index, Index0
      <4>2. LastIndex(d) \in Index /\ d.log[LastIndex(d)] # Hole
        BY <4>1, LastIndexIsLargest DEF Present
      <4>3. d.log[c] # Hole
        BY <3>2, <4>1, <4>2 DEF Contiguous, Index, Index0
      <4> QED BY <1>2, <4>1, <4>3 DEF Index
    <3>3. CASE Present(f) # {}
      <4>1. PICK p \in Index : f.log[p] # Hole
        BY <3>3 DEF Present
      <4>2. CASE p < c
        BY <1>1, <3>2, <4>1, <4>2, LastIndexIsLargest
      <4>3. CASE p >= c
        BY <1>1, <4>1, <4>3, LastIndexIsLargest DEF Index, Index0
      <4> QED BY <4>2, <4>3 DEF Index, Index0
    <3> QED BY <3>1, <3>3
  <2>2. CASE c > d.purged
    <3>1. c \in Index /\ d.purged \in Index0 BY <2>2 DEF Index, Index0, Disk
    <3>2. LastIndex(d) \in Index /\ d.log[LastIndex(d)] # Hole
      BY <2>2, <3>1, LastIndexIsLargest DEF Present, Index, Index0
    <3>3. d.log[c] # Hole
      BY <2>2, <3>1, <3>2 DEF Contiguous, Index, Index0
    <3>4. f.log[c] # Hole
      BY <1>2, <3>1, <3>3 DEF Index
    <3> QED BY <1>1, <3>1, <3>4, LastIndexIsLargest
  <2> QED BY <2>1, <2>2 DEF Index0, Disk
<1>5. \A j \in Index : j <= c => f.log[j] = d.log[j]
  BY <1>2 DEF Index, Index0
<1> QED BY <1>1, <1>2, <1>3, <1>4, <1>5

\* Deleting what the purge mark covers leaves the log ending where it ended,
\* or at the mark.
LEMMA PurgeKeepsEnd ==
    ASSUME NEW d \in Disk, Contiguous(d), NEW f, f = WithoutUpTo(d, d.purged)
    PROVE  /\ f \in Disk /\ SameMarks(f, d) /\ Contiguous(f)
           /\ \A j \in Index : j > d.purged => f.log[j] = d.log[j]
           /\ LastIndex(f) >= LastIndex(d) /\ LastIndex(f) >= d.purged
<1>1. d.purged \in Index0 /\ f \in Disk
  BY DeleteRangeType DEF Disk, Index0
<1>2. SameMarks(f, d) /\ \A j \in Index : f.log[j] = IF j <= d.purged THEN Hole ELSE d.log[j]
  BY DEF WithoutUpTo, Disk, SameMarks
<1>3. Contiguous(f)
  BY <1>1, <1>2 DEF Contiguous, SameMarks, Index, Index0
<1>4. LastIndex(f) >= d.purged
  BY <1>1, <1>2, LastIndexIsLargest DEF SameMarks, Present, Index, Index0
<1>5. LastIndex(f) >= LastIndex(d)
  <2>1. CASE LastIndex(d) <= d.purged
    BY <1>1, <1>4, <2>1, LastIndexIsLargest DEF Index0
  <2>2. CASE LastIndex(d) > d.purged
    <3>1. LastIndex(d) \in Index /\ d.log[LastIndex(d)] # Hole
      BY <1>1, <2>2, LastIndexIsLargest DEF Present, Index0
    <3> QED BY <1>1, <1>2, <2>2, <3>1, LastIndexIsLargest DEF Index, Index0
  <2> QED BY <1>1, <2>1, <2>2, LastIndexIsLargest DEF Index0
<1>6. \A j \in Index : j > d.purged => f.log[j] = d.log[j]
  BY <1>1, <1>2 DEF Index, Index0
<1> QED BY <1>1, <1>2, <1>3, <1>4, <1>5, <1>6

-----------------------------------------------------------------------------
(* How the two kinds of write preserve the disk's half of the invariant. *)

\* A write that leaves the entries to re-apply alone leaves the disk rebuildable.
LEMMA RebuildableIfKept ==
    ASSUME NEW d, NEW e, Rebuildable(d), SameMarks(e, d),
           \A j \in Index : j > d.snap.last /\ j <= d.committed => e.log[j] = d.log[j]
    PROVE  Rebuildable(e)
BY DEF Rebuildable, SameMarks

\* An unflushed write of the log alone: every earlier survivor stays one.
LEMMA WriteKeepsDiskInv ==
    ASSUME TypeOK, DiskInv, NEW d \in Disk, Write(d), SameMarks(d, db),
           Rebuildable(d), Contiguous(d), UNCHANGED <<ghost, promised>>, mode' # "failed"
    PROVE  DiskInv'
<1>1. db' = d /\ unsynced' \subseteq unsynced \cup {d}
  BY DEF Write
<1>2. \A e \in unsynced \cup {d} : SameMarks(e, d) /\ Rebuildable(e)' /\ Contiguous(e)
  BY DEF DiskInv, SameMarks, Rebuildable, ghost
<1> QED BY <1>1, <1>2 DEF DiskInv, SameMarks, RecoveryPoint, ghost

\* A flushed write: it is the only survivor.
LEMMA SyncKeepsDiskInv ==
    ASSUME TypeOK, DiskInv, NEW d \in Disk, WriteSync(d), RecoveryPoint(d) <= len,
           Rebuildable(d), Contiguous(d), UNCHANGED ghost, promised' <= d.vote, mode' # "failed"
    PROVE  DiskInv'
BY DEF DiskInv, WriteSync, SameMarks, Rebuildable, ghost

\* The cluster chooses an entry beyond everything the disk holds as committed.
LEMMA ChooseKeepsDiskInv ==
    ASSUME TypeOK, DiskInv, NEW e \in Commands, Choose(e)
    PROVE  DiskInv'
<1>1. /\ len' = len + 1 /\ len \in Nat
      /\ \A j \in Index : j <= len => chosen'[j] = chosen[j]
      /\ \A j \in Index : j <= len' => chosen'[j] \in Commands
  BY DEF Choose, TypeOK, DiskInv, Index, Index0
<1>2. ASSUME NEW d \in unsynced PROVE Rebuildable(d)'
  <2>1. d \in Disk /\ Rebuildable(d) /\ d.committed = db.committed
    BY DEF TypeOK, DiskInv, SameMarks
  <2>2. db.committed \in Nat /\ db.snap.last \in Nat
    BY DEF TypeOK, Disk, State, Index0
  <2>3. d.committed <= len
    BY <1>1, <2>1, <2>2 DEF DiskInv, RecoveryPoint, Larger
  <2>4. \A j \in Index : j <= d.committed => chosen'[j] = chosen[j]
    BY <1>1, <2>1, <2>2, <2>3 DEF Index
  <2> QED BY <2>1, <2>4 DEF Rebuildable
<1>3. RecoveryPoint(db)' <= len'
  <2>1. RecoveryPoint(db) \in Nat
    BY DEF TypeOK, RecoveryPoint, Larger, Disk, State, Index0
  <2> QED BY <1>1, <2>1 DEF DiskInv, Choose, disk, RecoveryPoint
<1> QED BY <1>1, <1>2, <1>3 DEF DiskInv, Choose, disk, core, SameMarks, Contiguous

-----------------------------------------------------------------------------
\* With no snapshot installed beside a running builder, every action keeps the
\* disk rebuildable and memory in step with it.
LEMMA DurableInvIsInductive ==
    ASSUME ~InstallWhileBuilding, TypeOK, TypeOK', DurableInv, [Next]_vars
    PROVE  DurableInv'
<1> USE DEF TypeOK
<1>T. /\ db \in Disk /\ db.snap \in State
      /\ db.committed \in Nat /\ db.snap.last \in Nat /\ db.purged \in Nat
      /\ committed \in Nat /\ snapLast \in Nat /\ target \in Nat
      /\ sm.last \in Nat /\ install.last \in Nat /\ builder.state.last \in Nat
      /\ len \in Nat /\ RecoveryPoint(db) \in Nat
  <2>1. db \in Disk /\ db.snap \in State /\ db.committed \in Index0 /\ db.purged \in Index0
    BY DEF Disk
  <2>2. db.snap.last \in Index0 /\ sm.last \in Index0 /\ install.last \in Index0
    BY <2>1 DEF State
  <2>3. builder.state \in State
    OBVIOUS
  <2>4. builder.state.last \in Index0
    BY <2>3 DEF State
  <2>5. RecoveryPoint(db) \in Index0
    BY <2>1, <2>2 DEF RecoveryPoint, Larger
  <2>6. Index0 \subseteq Nat
    BY DEF Index0
  <2>7. /\ committed \in Index0 /\ snapLast \in Index0 /\ target \in Index0 /\ len \in Index0
        /\ db \in Disk
    OBVIOUS
  <2> HIDE DEF TypeOK
  <2> QED BY <2>1, <2>2, <2>4, <2>5, <2>6, <2>7
<1>L. LastIndex(db) \in Nat /\ \A j \in Index : db.log[j] # Hole => j <= LastIndex(db)
  BY LastIndexIsLargest DEF Index0
<1>M. MemoryInv => /\ db.snap.last <= committed /\ db.committed <= committed
                   /\ committed = db.committed \/ committed = db.snap.last
  BY <1>T DEF MemoryInv, RecoveryPoint, Larger
<1>N. \A j \in Index : j \in Nat /\ j >= 1 /\ j <= MaxLog
  BY DEF Index
<1>D. DiskInv /\ SameMarks(db, db) /\ Rebuildable(db) /\ Contiguous(db)
  BY DEF DurableInv, DiskInv
<1>1. ASSUME NEW e \in Commands, Choose(e) PROVE DurableInv'
  <2>1. DiskInv' BY <1>1, <1>D, ChooseKeepsDiskInv
  <2> QED BY <1>T, <1>1, <2>1 DEF DurableInv, MemoryInv, Choose, disk, core, RecoveryPoint,
                               LastIndex, Present
<1>2. ASSUME NEW v \in 1 .. MaxVote, SaveVote(v) PROVE DurableInv'
  <2> DEFINE d == [db EXCEPT !.vote = v]
  <2>1. /\ d \in Disk /\ d.vote = v /\ d.committed = db.committed /\ d.purged = db.purged
        /\ d.snap = db.snap /\ d.log = db.log
    BY <1>T DEF Disk
  <2>2. WriteSync(d) /\ db' = d
    BY <1>2 DEF SaveVote, VoteDisk, WriteSync
  <2> HIDE DEF d
  <2>3. RecoveryPoint(d) = RecoveryPoint(db) /\ LastIndex(d) = LastIndex(db)
    BY <2>1 DEF RecoveryPoint, LastIndex, Present
  <2>4. Rebuildable(d) /\ Contiguous(d)
    BY <1>D, <2>1 DEF Rebuildable, Contiguous
  <2>5. DiskInv'
    BY <1>2, <1>D, <2>1, <2>2, <2>3, <2>4, SyncKeepsDiskInv
    DEF SaveVote, DiskInv, core, Idle
  <2>6. /\ MemoryInv /\ mode = "up" /\ pc = "idle"
        /\ UNCHANGED <<mode, pc, target, committed, snapLast, sm, builder, install, len>>
    BY <1>2 DEF SaveVote, DurableInv, Idle, core, ghost
  <2>7. MemoryInv'
    BY <2>1, <2>2, <2>3, <2>6 DEF MemoryInv
  <2> QED BY <2>5, <2>6, <2>7 DEF DurableInv
<1>3. ASSUME NEW e \in Commands, AppendPut(e) PROVE DurableInv'
  <2> DEFINE d == [db EXCEPT !.log[LastIndex(db) + 1] = e]
  <2>1. LastIndex(db) < MaxLog /\ mode = "up" /\ Write(d) /\ db' = d
    BY <1>3 DEF AppendPut, Write
  <2>2. /\ d \in Disk /\ SameMarks(d, db) /\ Contiguous(d)
        /\ \A j \in Index : j # LastIndex(db) + 1 => d.log[j] = db.log[j]
        /\ LastIndex(d) >= LastIndex(db) + 1
    BY <1>T, <1>D, <2>1, AppendExtends
  <2> HIDE DEF d
  <2>3. MemoryInv /\ LastIndex(db) >= committed
    BY <1>3 DEF DurableInv, MemoryInv, AppendPut
  <2>4. Rebuildable(d)
    BY <1>T, <1>L, <1>M, <1>N, <1>D, <2>2, <2>3, RebuildableIfKept
  <2>5. DiskInv'
    BY <1>3, <1>D, <2>1, <2>2, <2>4, WriteKeepsDiskInv DEF AppendPut
  <2>6. LastIndex(db)' >= committed'
    BY <1>T, <1>L, <1>3, <2>1, <2>2, <2>3, LastIndexIsLargest DEF AppendPut, Index0
  <2> QED BY <1>3, <2>1, <2>2, <2>3, <2>5, <2>6
          DEF DurableInv, MemoryInv, AppendPut, SameMarks, RecoveryPoint
<1>4. CASE AppendDone
  BY <1>4 DEF DurableInv, DiskInv, MemoryInv, AppendDone, ghost, disk, RecoveryPoint,
              Rebuildable, Contiguous, SameMarks, LastIndex, Present
<1>5. ASSUME NEW i \in Index, Commit(i) PROVE DurableInv'
  <2> DEFINE d == [db EXCEPT !.committed = i]
  <2>1. /\ d \in Disk /\ d.committed = i /\ d.purged = db.purged
        /\ d.vote = db.vote /\ d.snap = db.snap /\ d.log = db.log /\ i \in Nat
    <3>1. i \in Index0 /\ i \in Nat BY DEF Index, Index0
    <3> QED BY <1>T, <3>1 DEF Disk
  <2>2. WriteSync(d) /\ db' = d /\ MemoryInv
    BY <1>5 DEF Commit, CommitDisk, WriteSync, DurableInv, Idle
  <2> HIDE DEF d
  <2>3. RecoveryPoint(d) = i /\ LastIndex(d) = LastIndex(db)
    BY <1>T, <1>5, <2>1, <2>2
    DEF RecoveryPoint, LastIndex, Present, Commit, MemoryInv, Larger
  <2>4. Rebuildable(d)
    <3>1. ASSUME NEW j \in Index, j > d.snap.last, j <= i PROVE d.log[j] = chosen[j]
      <4>1. CASE j <= committed
        <5>1. j > db.snap.last /\ d.log[j] = db.log[j]
          BY <2>1, <3>1
        <5>2. committed = db.committed \/ committed = db.snap.last
          BY <2>2 DEF MemoryInv, RecoveryPoint, Larger
        <5>3. j <= db.committed
          BY <1>T, <4>1, <5>1, <5>2 DEF Index
        <5>4. Rebuildable(db) BY <1>D
        <5> QED BY <5>1, <5>3, <5>4 DEF Rebuildable
      <4>2. CASE j > committed
        BY <1>T, <1>5, <2>1, <3>1, <4>2, SMTT(20) DEF Commit, Index
      <4> QED BY <1>T, <4>1, <4>2 DEF Index
    <3> QED BY <1>D, <2>1, <3>1 DEF Rebuildable
  <2>5. Contiguous(d)
    BY <1>D, <2>1 DEF Contiguous
  <2>6. DiskInv'
    BY <1>5, <1>D, <2>1, <2>2, <2>3, <2>4, <2>5, SyncKeepsDiskInv
    DEF Commit, DiskInv, Idle
  <2> QED BY <1>T, <1>5, <2>1, <2>2, <2>3, <2>6 DEF DurableInv, MemoryInv, Commit, Idle
<1>6. ASSUME NEW i \in Index, Truncate(i) PROVE DurableInv'
  <2> DEFINE d == WithoutFrom(db, i)
  <2>1. /\ i > committed /\ LastIndex(db) >= i /\ Write(d) /\ db' = d /\ mode = "up"
        /\ i \in Nat /\ MemoryInv
    BY <1>6 DEF Truncate, Write, Idle, DurableInv, Index
  <2>2. /\ d \in Disk /\ SameMarks(d, db) /\ Contiguous(d)
        /\ \A j \in Index : j <= committed => d.log[j] = db.log[j]
        /\ LastIndex(d) >= committed
    BY <1>T, <1>D, <2>1, TruncateKeepsPrefix
  <2> HIDE DEF d
  <2>3. Rebuildable(d)
    BY <1>T, <1>M, <1>N, <1>D, <2>1, <2>2, RebuildableIfKept
  <2>4. DiskInv'
    BY <1>6, <1>D, <2>1, <2>2, <2>3, WriteKeepsDiskInv DEF Truncate, core
  <2>5. /\ pc = "idle"
        /\ UNCHANGED <<mode, pc, target, committed, snapLast, sm, builder, install, len>>
    BY <1>6 DEF Truncate, Idle, core, ghost
  <2>6. MemoryInv'
    BY <2>1, <2>2, <2>5 DEF MemoryInv, SameMarks, RecoveryPoint
  <2> QED BY <2>1, <2>4, <2>5, <2>6 DEF DurableInv
<1>7. ASSUME NEW i \in Index, PurgeRequest(i) PROVE DurableInv'
  <2>1. MemoryInv /\ Idle /\ i \in Nat /\ i > db.purged /\ i <= snapLast
    BY <1>7 DEF DurableInv, PurgeRequest, Idle, Index
  <2>2. DiskInv'
    BY <1>7, <1>D DEF PurgeRequest, DiskInv, ghost, disk, Rebuildable, Contiguous, SameMarks,
                      RecoveryPoint
  <2>3. MemoryInv'
    BY <1>T, <1>7, <2>1 DEF PurgeRequest, MemoryInv, ghost, disk, RecoveryPoint, LastIndex,
                          Present, Idle
  <2> QED BY <1>7, <2>1, <2>2, <2>3 DEF DurableInv, PurgeRequest, Idle
<1>8. CASE PurgeMark
  <2> DEFINE d == [db EXCEPT !.purged = target]
  <2>1. /\ d \in Disk /\ d.committed = db.committed /\ d.purged = target
        /\ d.vote = db.vote /\ d.snap = db.snap /\ d.log = db.log
    BY <1>T DEF Disk
  <2>2. WriteSync(d) /\ db' = d /\ MemoryInv /\ mode = "up" /\ pc = "purge"
        /\ db.purged <= target /\ target <= snapLast
    BY <1>8 DEF PurgeMark, WriteSync, DurableInv, MemoryInv
  <2> HIDE DEF d
  <2>3. RecoveryPoint(d) = RecoveryPoint(db)
    BY <2>1 DEF RecoveryPoint
  <2>4. LastIndex(d) >= LastIndex(db) /\ LastIndex(d) \in Nat
    <3>1. CASE Present(db) = {}
      BY <1>T, <2>1, <2>2, <3>1 DEF LastIndex, Present
    <3>2. CASE Present(db) # {}
      BY <1>L, <2>1, <3>2 DEF LastIndex, Present
    <3> QED BY <3>1, <3>2
  <2>5. Rebuildable(d) /\ Contiguous(d)
    <3>1. Rebuildable(db) /\ Contiguous(db)
      BY <1>D
    <3>2. d.purged <= d.snap.last
      BY <2>1, <2>2 DEF MemoryInv
    <3>3. Rebuildable(d)
      BY <2>1, <3>1, <3>2 DEF Rebuildable
    <3>4. \A j \in Index : d.purged < j => db.purged < j
      BY <1>T, <2>1, <2>2, SMTT(20) DEF Index
    <3>5. Contiguous(d)
      BY <2>1, <3>1, <3>4 DEF Contiguous
    <3> QED BY <3>3, <3>5
  <2>6. DiskInv'
    BY <1>8, <1>D, <2>1, <2>2, <2>3, <2>5, SyncKeepsDiskInv DEF PurgeMark, DiskInv
  <2> QED BY <1>T, <1>L, <1>8, <2>1, <2>2, <2>3, <2>4, <2>6 DEF DurableInv, MemoryInv, PurgeMark
<1>9. CASE PurgeDelete
  <2> DEFINE d == WithoutUpTo(db, db.purged)
  <2>1. /\ db.purged = target /\ MemoryInv /\ mode = "up" /\ Write(d) /\ db' = d
        /\ target <= snapLast
    BY <1>9 DEF PurgeDelete, PurgeRange, Write, DurableInv, MemoryInv
  <2>2. /\ d \in Disk /\ SameMarks(d, db) /\ Contiguous(d)
        /\ \A j \in Index : j > db.purged => d.log[j] = db.log[j]
        /\ LastIndex(d) >= LastIndex(db) /\ LastIndex(d) >= db.purged
    BY <1>D, PurgeKeepsEnd
  <2> HIDE DEF d
  <2>3. Rebuildable(d)
    <3>1. db.purged <= db.snap.last BY <1>D DEF Rebuildable
    <3> QED BY <1>T, <1>N, <1>D, <2>2, <3>1, RebuildableIfKept
  <2>4. DiskInv'
    BY <1>9, <1>D, <2>1, <2>2, <2>3, WriteKeepsDiskInv DEF PurgeDelete
  <2>5. LastIndex(d) \in Nat
    BY <2>2, LastIndexIsLargest DEF Index0
  <2>6. LastIndex(db)' >= committed'
    BY <1>T, <1>L, <1>9, <2>1, <2>2, <2>5 DEF PurgeDelete, MemoryInv
  <2> QED BY <1>9, <2>1, <2>2, <2>4, <2>6
          DEF DurableInv, MemoryInv, PurgeDelete, SameMarks, RecoveryPoint

<1>10. ASSUME NEW s \in Index, NEW u \in Index, NEW at \in [Keys -> s .. u],
              AcceptInstall(s, u, at)
       PROVE  DurableInv'
  <2> DEFINE d == WithoutFrom(db, committed + 1)
  <2>1. /\ MemoryInv /\ mode = "up" /\ mode' = "up" /\ pc = "idle" /\ pc' = "install"
        /\ s > committed /\ s <= len /\ builder.st = "none" /\ LastIndex(db) >= committed
        /\ install'.last = s /\ s \in Nat
        /\ UNCHANGED <<ghost, target, committed, snapLast, sm, builder, promised>>
    BY <1>T, <1>10 DEF AcceptInstall, Idle, DurableInv, MemoryInv, Received, Index
  <2>2. DiskInv' /\ SameMarks(db', db) /\ LastIndex(db)' >= committed
    <3>1. CASE Conflicts(s)
      <4>1. Write(d) /\ db' = d /\ LastIndex(db) >= committed + 1
        BY <1>T, <1>L, <1>10, <2>1, <3>1 DEF AcceptInstall, Conflicts, Write
      <4>2. /\ d \in Disk /\ SameMarks(d, db) /\ Contiguous(d)
            /\ \A j \in Index : j <= committed => d.log[j] = db.log[j]
            /\ LastIndex(d) >= committed
        BY <1>T, <1>D, <4>1, TruncateKeepsPrefix
      <4> HIDE DEF d
      <4>3. Rebuildable(d)
        BY <1>T, <1>M, <1>N, <1>D, <2>1, <4>2, RebuildableIfKept
      <4> QED BY <1>D, <2>1, <4>1, <4>2, <4>3, WriteKeepsDiskInv
    <3>2. CASE ~Conflicts(s)
      <4>1. UNCHANGED disk BY <1>10, <3>2 DEF AcceptInstall
      <4> QED BY <1>D, <2>1, <4>1
              DEF DiskInv, ghost, disk, Rebuildable, Contiguous, SameMarks, RecoveryPoint,
                  LastIndex, Present
    <3> QED BY <3>1, <3>2
  <2>3. MemoryInv'
    BY <1>T, <2>1, <2>2 DEF MemoryInv, SameMarks, RecoveryPoint, ghost
  <2> QED BY <2>1, <2>2, <2>3 DEF DurableInv
<1>11. CASE Apply
  <2>1. /\ MemoryInv /\ pc # "installSave" /\ sm.last < committed /\ sm'.last = sm.last + 1
        /\ UNCHANGED <<ghost, disk, core, builder, install, promised>>
    BY <1>T, <1>11 DEF Apply, Pending, Applied, DurableInv, State
  <2>2. DiskInv'
    BY <1>D, <2>1
    DEF DiskInv, ghost, disk, core, Rebuildable, Contiguous, SameMarks, RecoveryPoint
  <2>3. MemoryInv'
    BY <1>T, <2>1 DEF MemoryInv, ghost, disk, core, RecoveryPoint, LastIndex, Present
  <2> QED BY <1>11, <2>1, <2>2, <2>3 DEF DurableInv, Apply, core
<1>12. CASE ApplyMissing
  <2>1. /\ MemoryInv /\ sm.last < committed /\ snapLast <= sm.last
        /\ sm.last + 1 \in Index /\ db.log[sm.last + 1] = Hole
    <3>1. MemoryInv /\ sm.last < committed /\ db.log[sm.last + 1] = Hole
      BY <1>12 DEF ApplyMissing, Pending, DurableInv
    <3>2. snapLast <= sm.last /\ committed <= MaxLog
      BY <3>1 DEF MemoryInv, Index0
    <3> HIDE DEF TypeOK
    <3> QED BY <1>T, <3>1, <3>2 DEF Index
  <2>2. sm.last + 1 > db.snap.last /\ sm.last + 1 <= db.committed /\ sm.last + 1 <= len
    BY <1>T, <1>M, <1>D, <2>1 DEF MemoryInv, DiskInv
  <2>3. db.log[sm.last + 1] \in Commands
    BY <1>D, <2>1, <2>2 DEF Rebuildable, DiskInv
  <2> QED BY <2>1, <2>3
<1>13. CASE InstallUpdate
  <2>1. /\ MemoryInv /\ mode = "up" /\ pc = "install" /\ pc' = "installSave" /\ sm' = install
        /\ sm.last = committed
        /\ UNCHANGED <<ghost, disk, mode, target, committed, snapLast, builder, install, promised>>
    BY <1>13 DEF InstallUpdate, DurableInv
  <2>2. DiskInv'
    BY <1>D, <2>1 DEF DiskInv, ghost, disk, Rebuildable, Contiguous, SameMarks, RecoveryPoint
  <2>3. MemoryInv'
    BY <1>T, <2>1 DEF MemoryInv, ghost, disk, RecoveryPoint, LastIndex, Present
  <2> QED BY <2>1, <2>2, <2>3 DEF DurableInv
<1>14. CASE InstallSave
  <2> DEFINE d == [db EXCEPT !.snap = install]
  <2>1. /\ d \in Disk /\ d.committed = db.committed /\ d.purged = db.purged
        /\ d.vote = db.vote /\ d.snap = install /\ d.log = db.log
    BY <1>T DEF Disk
  <2>2. /\ MemoryInv /\ mode = "up" /\ pc = "installSave" /\ WriteSync(d) /\ db' = d
        /\ mode' = "up" /\ pc' = "purge" /\ target' = install.last /\ committed' = install.last
        /\ snapLast' = Larger(snapLast, install.last)
        /\ UNCHANGED <<ghost, sm, builder, promised>>
    BY <1>14 DEF InstallSave, WriteSync, DurableInv
  <2> HIDE DEF d
  <2>3. /\ install.last > committed /\ install.last <= len /\ sm.last = install.last
        /\ builder.st = "none" /\ db.committed <= committed /\ db.snap.last <= committed
    BY <1>T, <2>2 DEF MemoryInv, RecoveryPoint, Larger
  <2>4. RecoveryPoint(d) = install.last
    BY <1>T, <2>1, <2>3 DEF RecoveryPoint, Larger
  <2>5. Rebuildable(d) /\ Contiguous(d)
    <3>1. Contiguous(d) BY <1>D, <2>1 DEF Contiguous
    <3>2. d.purged <= d.snap.last BY <1>T, <1>D, <2>1, <2>3 DEF Rebuildable
    <3>3. \A j \in Index : j > d.snap.last /\ j <= d.committed => d.log[j] = chosen[j]
      BY <1>T, <1>N, <1>D, <2>1, <2>3 DEF Rebuildable
    <3> QED BY <3>1, <3>2, <3>3 DEF Rebuildable
  <2>6. DiskInv'
    BY <1>D, <2>1, <2>2, <2>3, <2>4, <2>5, SyncKeepsDiskInv DEF DiskInv
  <2>7. snapLast' = install.last
    BY <1>T, <2>2, <2>3 DEF Larger, MemoryInv
  <2>8. db.purged <= install.last
    BY <1>T, <1>D, <2>3 DEF Rebuildable
  <2> QED BY <1>T, <2>1, <2>2, <2>3, <2>4, <2>6, <2>7, <2>8 DEF DurableInv, MemoryInv
<1>15. CASE BuildBegin
  <2>1. /\ MemoryInv /\ mode = "up" /\ pc \notin {"install", "installSave"} /\ sm.last > snapLast
        /\ UNCHANGED <<ghost, disk, core, sm, install, promised>>
    BY <1>15 DEF BuildBegin, DurableInv
  <2>2. builder'.st = "begun" /\ builder'.state.last = sm.last
    BY <1>15 DEF BuildBegin, EmptyState
  <2>3. DiskInv'
    BY <1>D, <2>1
    DEF DiskInv, ghost, disk, core, Rebuildable, Contiguous, SameMarks, RecoveryPoint
  <2>4. MemoryInv'
    BY <1>T, <2>1, <2>2 DEF MemoryInv, ghost, disk, core, RecoveryPoint, LastIndex, Present
  <2> QED BY <2>1, <2>3, <2>4 DEF DurableInv, core
<1>16. CASE BuildRead
  <2>1. /\ MemoryInv /\ mode = "up" /\ builder.st = "begun"
        /\ builder'.st = "read" /\ builder'.state.last = builder.state.last
        /\ UNCHANGED <<ghost, disk, core, sm, install, promised>>
    BY <1>16 DEF BuildRead, DurableInv, State
  <2>2. DiskInv'
    BY <1>D, <2>1
    DEF DiskInv, ghost, disk, core, Rebuildable, Contiguous, SameMarks, RecoveryPoint
  <2>3. MemoryInv'
    BY <1>T, <2>1 DEF MemoryInv, ghost, disk, core, RecoveryPoint, LastIndex, Present
  <2> QED BY <2>1, <2>2, <2>3 DEF DurableInv, core
<1>17. CASE BuildSave
  <2> DEFINE d == [db EXCEPT !.snap = builder.state]
  <2>1. /\ d \in Disk /\ d.committed = db.committed /\ d.purged = db.purged
        /\ d.vote = db.vote /\ d.snap = builder.state /\ d.log = db.log
    BY <1>T DEF Disk
  <2>2. /\ MemoryInv /\ mode = "up" /\ builder.st = "read" /\ WriteSync(d) /\ db' = d
        /\ builder'.st = "none" /\ snapLast' = Larger(snapLast, builder.state.last)
        /\ UNCHANGED <<ghost, mode, pc, target, committed, sm, install, promised>>
    BY <1>17 DEF BuildSave, SnapDisk, WriteSync, DurableInv, NoBuilder
  <2> HIDE DEF d
  <2>3. /\ pc \notin {"install", "installSave"} /\ snapLast' = builder.state.last
        /\ db.snap.last <= builder.state.last /\ builder.state.last <= sm.last
        /\ sm.last <= committed
    BY <1>T, <2>2 DEF MemoryInv, Larger
  <2>4. RecoveryPoint(d) = RecoveryPoint(db)
    BY <1>T, <2>1, <2>2, <2>3 DEF MemoryInv, RecoveryPoint, Larger
  <2>5. Rebuildable(d) /\ Contiguous(d)
    <3>1. Contiguous(d) BY <1>D, <2>1 DEF Contiguous
    <3>2. d.purged <= d.snap.last BY <1>T, <1>D, <2>1, <2>3 DEF Rebuildable
    <3>3. \A j \in Index : j > d.snap.last /\ j <= d.committed => d.log[j] = chosen[j]
      BY <1>T, <1>N, <1>D, <2>1, <2>3 DEF Rebuildable
    <3> QED BY <3>1, <3>2, <3>3 DEF Rebuildable
  <2>6. DiskInv'
    BY <1>D, <2>1, <2>2, <2>4, <2>5, SyncKeepsDiskInv DEF DiskInv
  <2>7. LastIndex(d) = LastIndex(db)
    BY <2>1 DEF LastIndex, Present
  <2> QED BY <1>T, <2>1, <2>2, <2>3, <2>4, <2>6, <2>7 DEF DurableInv, MemoryInv
<1>18. ASSUME LoseMemory, NEW d \in unsynced, db' = d, unsynced' \subseteq unsynced
       PROVE  DurableInv'
  <2>1. mode' = "down" /\ pc' = "idle" /\ builder'.st = "none" /\ UNCHANGED <<ghost, promised>>
    BY <1>18 DEF LoseMemory, NoBuilder
  <2>2. DiskInv'
    BY <1>D, <1>18, <2>1 DEF DiskInv, ghost, Rebuildable, Contiguous, SameMarks, RecoveryPoint
  <2> QED BY <2>1, <2>2 DEF DurableInv
<1>19. CASE ProcessCrash
  BY <1>18, <1>19 DEF ProcessCrash, disk
<1>20. CASE MachineCrash
  <2>1. PICK d \in unsynced : db' = d /\ unsynced' = {d}
    BY <1>20 DEF MachineCrash
  <2> QED BY <1>18, <1>20, <2>1 DEF MachineCrash
<1>21. CASE Start
  <2>1. /\ mode' = "recovering" /\ pc' = "idle" /\ builder'.st = "none"
        /\ sm' = db.snap /\ committed' = RecoveryPoint(db) /\ snapLast' = db.snap.last
        /\ UNCHANGED <<ghost, disk, promised>>
    BY <1>21 DEF Start, Restored, DurableInv, RecoveryPoint
  <2>2. DiskInv'
    BY <1>D, <2>1 DEF DiskInv, ghost, disk, Rebuildable, Contiguous, SameMarks, RecoveryPoint
  <2>3. MemoryInv'
    BY <1>T, <2>1 DEF MemoryInv, disk, RecoveryPoint, Larger
  <2> QED BY <2>1, <2>2, <2>3 DEF DurableInv
<1>22. CASE Recovered
  <2>1. /\ MemoryInv /\ mode = "recovering" /\ mode' = "up" /\ pc = "idle" /\ builder.st = "none"
        /\ sm.last = committed
        /\ UNCHANGED <<ghost, disk, committed, snapLast, sm, builder, install, promised>>
    BY <1>22 DEF Recovered, Ready, DurableInv, MemoryInv
  <2>2. DiskInv'
    BY <1>D, <2>1 DEF DiskInv, ghost, disk, Rebuildable, Contiguous, SameMarks, RecoveryPoint
  <2>3. CASE LastIndex(db) >= sm.last
    <3>1. pc' = "idle" BY <1>T, <1>L, <1>22, <2>1, <2>3 DEF Recovered
    <3>2. MemoryInv'
      BY <1>T, <2>1, <2>3, <3>1 DEF MemoryInv, disk, ghost, RecoveryPoint, LastIndex, Present
    <3> QED BY <2>1, <2>2, <3>2 DEF DurableInv
  <2>4. CASE LastIndex(db) < sm.last
    <3>1. pc' = "purge" /\ target' = sm.last
      BY <1>22, <2>4 DEF Recovered
    <3>2. committed <= db.snap.last
      <4>1. SUFFICES ASSUME committed > db.snap.last PROVE FALSE
        BY <1>T
      <4>2. committed = db.committed /\ committed \in Index /\ committed <= len
        <5>1. committed <= MaxLog BY DEF Index0
        <5>2. committed = db.committed /\ committed <= len
          BY <1>T, <1>M, <1>D, <2>1, <4>1 DEF MemoryInv, DiskInv
        <5> HIDE DEF TypeOK
        <5> QED BY <1>T, <4>1, <5>1, <5>2 DEF Index
      <4>3. db.log[committed] \in Commands
        BY <1>T, <1>D, <4>1, <4>2 DEF Rebuildable, DiskInv
      <4>4. committed <= LastIndex(db)
        BY <1>L, <4>2, <4>3
      <4> QED BY <1>T, <1>L, <2>1, <2>4, <4>4
    <3>3. db.purged <= db.snap.last
      BY <1>D DEF Rebuildable
    <3>4. MemoryInv'
      BY <1>T, <2>1, <2>4, <3>1, <3>2, <3>3
      DEF MemoryInv, disk, ghost, RecoveryPoint, LastIndex, Present
    <3> QED BY <2>1, <2>2, <3>4 DEF DurableInv
  <2> QED BY <1>T, <1>L, <2>3, <2>4
<1>23. CASE UNCHANGED vars
  BY <1>23 DEF vars, ghost, disk, core, DurableInv, DiskInv, MemoryInv, SameMarks, Rebuildable,
               Contiguous, RecoveryPoint, LastIndex, Present
<1> QED
  BY <1>1, <1>2, <1>3, <1>4, <1>5, <1>6, <1>7, <1>8, <1>9, <1>10, <1>11, <1>12, <1>13, <1>14,
     <1>15, <1>16, <1>17, <1>19, <1>20, <1>21, <1>22, <1>23
  DEF Next, RaftCore, Worker, Builder

-----------------------------------------------------------------------------
\* The initial disk is empty and the node is down.
LEMMA InitDurable == Init => DurableInv
<1> SUFFICES ASSUME Init PROVE DurableInv OBVIOUS
<1>1. /\ db = EmptyDisk /\ unsynced = {EmptyDisk} /\ len = 0 /\ promised = 0
      /\ mode = "down" /\ pc = "idle" /\ builder.st = "none"
  BY DEF Init, NoBuilder
<1>2. /\ EmptyDisk.vote = 0 /\ EmptyDisk.committed = 0 /\ EmptyDisk.purged = 0
      /\ EmptyDisk.snap.last = 0 /\ \A j \in Index : EmptyDisk.log[j] = Hole
  BY DEF EmptyDisk, EmptyState
<1> QED BY <1>1, <1>2 DEF DurableInv, DiskInv, SameMarks, Rebuildable, Contiguous,
                          RecoveryPoint, Larger, Index

\* The strengthened invariant holds in every reachable state.
THEOREM DurableInvHolds ==
    ASSUME ~InstallWhileBuilding
    PROVE  Spec => []DurableInv
<1>1. TypeOK /\ TypeOK' /\ DurableInv /\ [Next]_vars => DurableInv'
  BY DurableInvIsInductive
<1> QED BY <1>1, TypeCorrect, InitDurable, PTL DEF Spec

\* When no snapshot is installed beside a running builder, whatever instant a
\* crash or a power loss hits, the snapshot and the log on the disk rebuild the
\* state machine up to the stored committed index (LogStore, StateMachineStore).
THEOREM CrashLeavesRebuildableDisk ==
    ASSUME ~InstallWhileBuilding
    PROVE  Spec => []EverySurvivorRebuilds
<1>1. DurableInv => EverySurvivorRebuilds
  BY DEF DurableInv, DiskInv, EverySurvivorRebuilds
<1> QED BY <1>1, DurableInvHolds, PTL

\* Under the same condition a node never meets a missing entry and Raft::new
\* never fails (create_raft_node's unwrap).
THEOREM NodeNeverFails ==
    ASSUME ~InstallWhileBuilding
    PROVE  Spec => []NeverFails
<1>1. DurableInv => NeverFails
  BY DEF DurableInv, DiskInv, NeverFails
<1> QED BY <1>1, DurableInvHolds, PTL

\* Under the same condition nothing a running node has applied is lost by a
\* crash (save_committed before apply, set_current_snapshot_).
THEOREM AppliedIsNeverLost ==
    ASSUME ~InstallWhileBuilding
    PROVE  Spec => []AppliedIsRecoverable
<1>1. TypeOK /\ DurableInv => AppliedIsRecoverable
  <2> SUFFICES ASSUME TypeOK, DurableInv, mode = "up", pc # "installSave", NEW d \in unsynced
               PROVE  RecoveryPoint(d) >= sm.last
    BY DEF AppliedIsRecoverable
  <2>1. MemoryInv /\ RecoveryPoint(d) = RecoveryPoint(db)
    BY DEF DurableInv, DiskInv, SameMarks, RecoveryPoint
  <2>2. sm.last \in Nat /\ committed \in Nat
    BY DEF TypeOK, State, Index0
  <2> QED BY <2>1, <2>2 DEF MemoryInv
<1> QED BY <1>1, TypeCorrect, DurableInvHolds, PTL

=============================================================================

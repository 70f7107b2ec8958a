------------------------ MODULE OpenRaftStore_exact ------------------------
(***************************************************************************)
(* What TLAPS proves of the data in OpenRaftStore: votes, acknowledged     *)
(* entries, and the maps that apply, the snapshot builder, installs and    *)
(* restarts produce.                                                       *)
(***************************************************************************)
EXTENDS OpenRaftStore_proofs

-----------------------------------------------------------------------------
(* Votes. *)

\* All that may survive a crash holds the same vote, the last one answered.
VoteInv == promised <= db.vote /\ \A d \in unsynced : d.vote = db.vote

\* A write of anything but the vote keeps it.
LEMMA WriteKeepsVote ==
    ASSUME VoteInv, NEW d, d.vote = db.vote, Write(d) \/ WriteSync(d), promised' = promised
    PROVE  VoteInv'
BY DEF VoteInv, Write, WriteSync

\* A vote that was answered is in every content the disk may come back with,
\* also when snapshots are installed beside running builders (save_vote).
THEOREM VoteIsKept == Spec => []VoteIsNeverForgotten
<1>1. Init => VoteInv
  BY DEF Init, VoteInv, EmptyDisk
<1>2. TypeOK /\ VoteInv /\ [Next]_vars => VoteInv'
  <2> SUFFICES ASSUME TypeOK, VoteInv, [Next]_vars PROVE VoteInv' OBVIOUS
  <2>0. db \in Disk BY DEF TypeOK
  <2>S. ASSUME UNCHANGED <<disk, promised>> PROVE VoteInv'
    BY <2>S DEF VoteInv, disk
  <2>1. ASSUME NEW e \in Commands, Choose(e) PROVE VoteInv'
    BY <2>1, <2>S DEF Choose
  <2>2. CASE RaftCore
    <3>1. ASSUME NEW v \in 1 .. MaxVote, SaveVote(v) PROVE VoteInv'
      BY <2>0, <3>1 DEF SaveVote, VoteDisk, WriteSync, VoteInv, Disk
    <3>2. ASSUME NEW e \in Commands, AppendPut(e) PROVE VoteInv'
      BY <2>0, <3>2, WriteKeepsVote DEF AppendPut, Disk
    <3>3. CASE AppendDone
      BY <3>3, <2>S DEF AppendDone
    <3>4. ASSUME NEW i \in Index, Commit(i) PROVE VoteInv'
      BY <2>0, <3>4, WriteKeepsVote DEF Commit, CommitDisk, Disk
    <3>5. ASSUME NEW i \in Index, Truncate(i) PROVE VoteInv'
      BY <2>0, <3>5, WriteKeepsVote DEF Truncate, WithoutFrom, Disk
    <3>6. ASSUME NEW i \in Index, PurgeRequest(i) PROVE VoteInv'
      BY <3>6, <2>S DEF PurgeRequest
    <3>7. CASE PurgeMark
      BY <2>0, <3>7, WriteKeepsVote DEF PurgeMark, Disk
    <3>8. CASE PurgeDelete
      BY <2>0, <3>8, WriteKeepsVote DEF PurgeDelete, PurgeRange, WithoutUpTo, Disk
    <3>9. ASSUME NEW s \in Index, NEW u \in Index, NEW at \in [Keys -> s .. u],
                 AcceptInstall(s, u, at)
          PROVE  VoteInv'
      <4>1. CASE Conflicts(s)
        BY <2>0, <3>9, <4>1, WriteKeepsVote DEF AcceptInstall, WithoutFrom, Disk
      <4>2. CASE ~Conflicts(s)
        BY <3>9, <4>2, <2>S DEF AcceptInstall
      <4> QED BY <4>1, <4>2
    <3> QED BY <2>2, <3>1, <3>2, <3>3, <3>4, <3>5, <3>6, <3>7, <3>8, <3>9 DEF RaftCore
  <2>3. CASE Worker
    <3>1. CASE Apply
      BY <3>1, <2>S DEF Apply
    <3>2. CASE ApplyMissing
      BY <3>2, <2>S DEF ApplyMissing
    <3>3. CASE InstallUpdate
      BY <3>3, <2>S DEF InstallUpdate
    <3>4. CASE InstallSave
      BY <2>0, <3>4, WriteKeepsVote DEF InstallSave, Disk
    <3>5. CASE BuildBegin
      BY <3>5, <2>S DEF BuildBegin
    <3> QED BY <2>3, <3>1, <3>2, <3>3, <3>4, <3>5 DEF Worker
  <2>4. CASE Builder
    <3>1. CASE BuildRead
      BY <3>1, <2>S DEF BuildRead
    <3>2. CASE BuildSave
      BY <2>0, <3>2, WriteKeepsVote DEF BuildSave, SnapDisk, Disk
    <3> QED BY <2>4, <3>1, <3>2 DEF Builder
  <2>5. CASE ProcessCrash
    BY <2>5, <2>S DEF ProcessCrash, LoseMemory
  <2>6. CASE MachineCrash
    BY <2>6 DEF MachineCrash, LoseMemory, VoteInv
  <2>7. CASE Start
    BY <2>7, <2>S DEF Start
  <2>8. CASE Recovered
    BY <2>8, <2>S DEF Recovered
  <2>9. CASE UNCHANGED vars
    BY <2>9, <2>S DEF vars
  <2> QED BY <2>1, <2>2, <2>3, <2>4, <2>5, <2>6, <2>7, <2>8, <2>9 DEF Next
<1>3. TypeOK /\ VoteInv => VoteIsNeverForgotten
  <2> SUFFICES ASSUME TypeOK, VoteInv, NEW d \in unsynced PROVE d.vote >= promised
    BY DEF VoteIsNeverForgotten
  <2> QED BY DEF TypeOK, VoteInv, Disk
<1> QED BY <1>1, <1>2, <1>3, TypeCorrect, PTL DEF Spec

-----------------------------------------------------------------------------
(***************************************************************************)
(* Acknowledged entries.  That the log ends at or above what was reported  *)
(* as stored is not inductive: a purge sets the mark first and deletes     *)
(* afterwards, and the mark is where an emptied log ends.  So the mark to  *)
(* come must already be one at which the log may end, from the moment      *)
(* openraft decides to purge, through the installation of the snapshot it  *)
(* purges for.                                                             *)
(***************************************************************************)

Marked(i) == [db EXCEPT !.purged = i]

\* The mark may move to i: no gap opens, and the log still ends above acked.
MayPurgeTo(i) == Contiguous(Marked(i)) /\ acked <= LastIndex(Marked(i))

AckInv ==
    /\ \A j \in Index : j <= len => chosen[j] \in Commands
    /\ Contiguous(db)
    /\ acked <= LastIndex(db)
    /\ pc \in {"install", "installSave"} => MayPurgeTo(install.last)
    /\ pc = "purge" => MayPurgeTo(target)
    /\ pc = "purgeDelete" => db.purged = target

\* Where a log ends and whether it has gaps depends on its entries and the mark.
LEMMA EndOf ==
    ASSUME NEW d, NEW e, d.log = e.log, d.purged = e.purged
    PROVE  LastIndex(d) = LastIndex(e) /\ (Contiguous(d) <=> Contiguous(e))
BY DEF LastIndex, Present, Contiguous

\* Moving the mark moves the end only of a log that has no entry.
LEMMA MarkMovesEnd ==
    ASSUME TypeOK, NEW i \in Index0
    PROVE  /\ Marked(i) \in Disk /\ Marked(i).log = db.log /\ Marked(i).purged = i
           /\ LastIndex(Marked(i)) = IF Present(db) = {} THEN i ELSE LastIndex(db)
<1>1. Marked(i) \in Disk /\ Marked(i).log = db.log /\ Marked(i).purged = i
  BY DEF TypeOK, Disk, Marked
<1>2. Present(Marked(i)) = Present(db)
  BY <1>1 DEF Present
<1> QED BY <1>1, <1>2 DEF LastIndex

\* The mark may move up, and it may move to or beyond the end of the log.
LEMMA MarkMayGrow ==
    ASSUME TypeOK, AckInv, NEW i \in Index0, i >= db.purged \/ i >= LastIndex(db)
    PROVE  MayPurgeTo(i)
<1>0. /\ db \in Disk /\ db.purged \in Index0 /\ acked \in Nat /\ i \in Nat
      /\ LastIndex(db) \in Nat /\ db.purged \in Nat
  BY LastIndexIsLargest DEF TypeOK, Disk, Index0
<1>1. \A j \in Index : db.log[j] # Hole => j <= LastIndex(db)
  BY <1>0, LastIndexIsLargest
<1>2. Contiguous(Marked(i))
  <2>1. \A j, k \in Index : i < j /\ j < k /\ db.log[k] # Hole => db.log[j] # Hole
    <3>1. CASE i >= db.purged
      BY <1>0, <3>1 DEF AckInv, Contiguous, Index
    <3>2. CASE i >= LastIndex(db)
      BY <1>0, <1>1, <3>2 DEF Index
    <3> QED BY <3>1, <3>2
  <2> QED BY <2>1, MarkMovesEnd DEF AckInv, Contiguous
<1>3. acked <= LastIndex(Marked(i))
  <2>1. CASE Present(db) = {}
    <3>1. LastIndex(db) = db.purged /\ LastIndex(Marked(i)) = i
      BY <1>0, <2>1, LastIndexIsLargest, MarkMovesEnd
    <3> QED BY <1>0, <3>1 DEF AckInv
  <2>2. CASE Present(db) # {}
    BY <2>2, MarkMovesEnd DEF AckInv
  <2> QED BY <2>1, <2>2
<1> QED BY <1>2, <1>3 DEF MayPurgeTo

\* A step that leaves the stored log, its mark and what was acknowledged alone.
LEMMA AckInvKept ==
    ASSUME TypeOK, AckInv, db' \in Disk, db'.log = db.log, db'.purged = db.purged,
           UNCHANGED <<len, chosen, acked>>,
           pc' \in {"install", "installSave"} =>
               MayPurgeTo(install'.last) /\ install'.last \in Index0,
           pc' = "purge" => MayPurgeTo(target') /\ target' \in Index0,
           pc' = "purgeDelete" => db'.purged = target'
    PROVE  AckInv'
<1>1. LastIndex(db') = LastIndex(db) /\ Contiguous(db')
  BY EndOf DEF AckInv
<1>2. ASSUME NEW i \in Index0, MayPurgeTo(i) PROVE MayPurgeTo(i)'
  <2>1. Marked(i).log = db.log /\ Marked(i).purged = i
    BY MarkMovesEnd
  <2>2. Marked(i)' = [db' EXCEPT !.purged = i]
    BY DEF Marked
  <2>3. Marked(i)'.log = db'.log /\ Marked(i)'.purged = i
    BY <2>2 DEF Disk
  <2>4. LastIndex(Marked(i)') = LastIndex(Marked(i)) /\ Contiguous(Marked(i)')
    BY <1>2, <2>1, <2>3, EndOf DEF MayPurgeTo
  <2>5. MayPurgeTo(i)' <=> Contiguous(Marked(i)') /\ acked' <= LastIndex(Marked(i)')
    BY DEF MayPurgeTo, Contiguous, LastIndex, Present
  <2> QED BY <1>2, <2>4, <2>5 DEF MayPurgeTo
<1>3. Contiguous(db)' /\ LastIndex(db)' = LastIndex(db)
  BY <1>1 DEF Contiguous, LastIndex, Present
<1>4. pc' \in {"install", "installSave"} => MayPurgeTo(install.last)'
  <2>1. ASSUME NEW i \in Index0, i = install'.last, MayPurgeTo(i)' PROVE MayPurgeTo(install.last)'
    BY <2>1 DEF MayPurgeTo, Marked, Contiguous, LastIndex, Present
  <2> QED BY <1>2, <2>1
<1>5. pc' = "purge" => MayPurgeTo(target)'
  <2>1. ASSUME NEW i \in Index0, i = target', MayPurgeTo(i)' PROVE MayPurgeTo(target)'
    BY <2>1 DEF MayPurgeTo, Marked, Contiguous, LastIndex, Present
  <2> QED BY <1>2, <2>1
<1> QED BY <1>3, <1>4, <1>5 DEF AckInv

\* Every action keeps the log ending at or above what was acknowledged, if no
\* crash takes back a write.
LEMMA AckInvIsInductive ==
    ASSUME ~PowerLoss, TypeOK, TypeOK', AckInv, [Next]_vars
    PROVE  AckInv'
<1> USE ConstantsAssumption
<1>T. /\ db \in Disk /\ db' \in Disk /\ install \in State /\ install' \in State
      /\ sm.last \in Index0 /\ committed \in Index0 /\ acked \in Index0 /\ target \in Index0
      /\ install.last \in Index0 /\ install'.last \in Index0
  BY DEF TypeOK, State
<1>S. ASSUME db'.log = db.log, db'.purged = db.purged,
             UNCHANGED <<ghost, pc, target, install, acked>>
      PROVE  AckInv'
  BY <1>S, <1>T, AckInvKept DEF AckInv, ghost
<1>U. ASSUME UNCHANGED <<ghost, disk, pc, target, install, acked>> PROVE AckInv'
  BY <1>U, <1>S DEF disk
<1>1. ASSUME NEW e \in Commands, Choose(e) PROVE AckInv'
  <2>1. UNCHANGED <<disk, core, install, acked>>
    BY <1>1 DEF Choose
  <2>2. \A j \in Index : j <= len' => chosen'[j] \in Commands
    BY <1>1 DEF Choose, AckInv, TypeOK, Index, Index0
  <2> QED
    BY <2>1, <2>2 DEF AckInv, MayPurgeTo, Marked, Contiguous, LastIndex, Present, disk, core
<1>2. CASE RaftCore
  <2>1. ASSUME NEW v \in 1 .. MaxVote, SaveVote(v) PROVE AckInv'
    <3>1. UNCHANGED <<ghost, core, install, acked>> /\ db' = [db EXCEPT !.vote = v]
      BY <2>1 DEF SaveVote, VoteDisk, WriteSync
    <3>2. db'.log = db.log /\ db'.purged = db.purged BY <1>T, <3>1 DEF Disk
    <3> QED BY <1>S, <3>1, <3>2 DEF core
  <2>2. ASSUME NEW e \in Commands, AppendPut(e) PROVE AckInv'
    <3>1. /\ db' = [db EXCEPT !.log[LastIndex(db) + 1] = e] /\ LastIndex(db) < MaxLog
          /\ pc' = "append" /\ UNCHANGED <<ghost, acked>>
      BY <2>2 DEF AppendPut, Write
    <3>2. Contiguous(db') /\ LastIndex(db') >= LastIndex(db) + 1
      BY <1>T, <3>1, AppendExtends DEF AckInv
    <3>3. LastIndex(db) \in Nat /\ LastIndex(db') \in Nat /\ acked \in Nat
      BY <1>T, LastIndexIsLargest DEF Index0
    <3>4. acked' <= LastIndex(db')
      BY <3>1, <3>2, <3>3 DEF AckInv
    <3> QED BY <3>1, <3>2, <3>4 DEF AckInv, ghost, Contiguous, LastIndex, Present
  <2>3. CASE AppendDone
    <3>1. UNCHANGED <<ghost, disk>> /\ acked' = LastIndex(db) /\ pc' = "idle"
      BY <2>3 DEF AppendDone, Stored
    <3>2. LastIndex(db) <= LastIndex(db) BY <1>T, LastIndexIsLargest DEF Index0
    <3> QED BY <3>1, <3>2 DEF AckInv, ghost, disk, Contiguous, LastIndex, Present
  <2>4. ASSUME NEW i \in Index, Commit(i) PROVE AckInv'
    <3>1. UNCHANGED <<ghost, pc, target, install, acked>> /\ db' = [db EXCEPT !.committed = i]
      BY <2>4 DEF Commit, CommitDisk, WriteSync
    <3>2. db'.log = db.log /\ db'.purged = db.purged BY <1>T, <3>1 DEF Disk
    <3> QED BY <1>S, <3>1, <3>2
  <2>5. ASSUME NEW i \in Index, Truncate(i) PROVE AckInv'
    <3>1. /\ db' = WithoutFrom(db, i) /\ LastIndex(db) >= i /\ i \in Nat /\ i > i - 1
          /\ i - 1 \in Index0 /\ acked' = Smaller(acked, i - 1) /\ pc' = "idle"
          /\ UNCHANGED ghost
      <4>1. i \in Nat /\ i > i - 1 /\ i - 1 \in Index0 BY DEF Index, Index0
      <4> QED BY <2>5, <4>1 DEF Truncate, Write, Idle, core
    <3>2. Contiguous(db') /\ LastIndex(db') >= i - 1
      BY <1>T, <3>1, TruncateKeepsPrefix DEF AckInv
    <3>3. acked' <= LastIndex(db')
      <4>1. LastIndex(db') \in Nat /\ acked \in Nat
        BY <1>T, LastIndexIsLargest DEF Index0
      <4> QED BY <3>1, <3>2, <4>1 DEF Smaller, Index0
    <3> QED BY <3>1, <3>2, <3>3 DEF AckInv, ghost, Contiguous, LastIndex, Present
  <2>6. ASSUME NEW i \in Index, PurgeRequest(i) PROVE AckInv'
    <3>1. /\ UNCHANGED <<ghost, disk, install, acked>> /\ pc' = "purge" /\ target' = i
          /\ i >= db.purged /\ i \in Index0
      BY <1>T, <2>6 DEF PurgeRequest, Index, Index0, Disk
    <3>2. MayPurgeTo(target') /\ target' \in Index0
      BY <3>1, MarkMayGrow
    <3> QED BY <1>T, <3>1, <3>2, AckInvKept DEF ghost, disk
  <2>7. CASE PurgeMark
    <3>1. /\ UNCHANGED <<ghost, target, acked>> /\ pc = "purge" /\ pc' = "purgeDelete"
          /\ db' = Marked(target)
      BY <2>7 DEF PurgeMark, WriteSync, Marked
    <3>2. /\ Contiguous(db') /\ acked <= LastIndex(db') /\ db'.purged = target
      BY <1>T, <3>1, MarkMovesEnd DEF AckInv, MayPurgeTo
    <3> QED BY <3>1, <3>2 DEF AckInv, ghost, Contiguous, LastIndex, Present
  <2>8. CASE PurgeDelete
    <3>1. /\ UNCHANGED <<ghost, acked>> /\ pc' = "idle" /\ db' = WithoutUpTo(db, db.purged)
      BY <2>8 DEF PurgeDelete, PurgeRange, Write, AckInv
    <3>2. Contiguous(db') /\ LastIndex(db') >= LastIndex(db)
      BY <1>T, <3>1, PurgeKeepsEnd DEF AckInv
    <3>3. LastIndex(db) \in Nat /\ LastIndex(db') \in Nat /\ acked \in Nat
      BY <1>T, LastIndexIsLargest DEF Index0
    <3>4. acked' <= LastIndex(db')
      BY <3>1, <3>2, <3>3 DEF AckInv
    <3> QED BY <3>1, <3>2, <3>4 DEF AckInv, ghost, Contiguous, LastIndex, Present
  <2>9. ASSUME NEW s \in Index, NEW u \in Index, NEW at \in [Keys -> s .. u],
               AcceptInstall(s, u, at)
        PROVE  AckInv'
    <3>1. /\ UNCHANGED ghost /\ pc' = "install" /\ install'.last = s /\ s \in Index0 /\ s \in Nat
          /\ s > committed /\ s <= len
      BY <1>T, <2>9 DEF AcceptInstall, Received, Index, Index0, TypeOK
    <3>2. CASE Conflicts(s)
      <4>1. /\ db' = WithoutFrom(db, committed + 1) /\ LastIndex(db) >= committed + 1
            /\ committed + 1 \in Nat /\ committed + 1 > committed
            /\ acked' = Smaller(acked, committed)
        <5>1. LastIndex(db) \in Index0 /\ LastIndex(db) >= s
          BY <1>T, <3>2, LastIndexIsLargest DEF Conflicts
        <5>2. /\ LastIndex(db) >= committed + 1 /\ committed + 1 \in Nat
              /\ committed + 1 > committed
          BY <1>T, <3>1, <5>1 DEF Index0
        <5> QED BY <2>9, <3>2, <5>2 DEF AcceptInstall, Write
      <4>2. Contiguous(db') /\ LastIndex(db') >= committed
        BY <1>T, <4>1, TruncateKeepsPrefix DEF AckInv
      <4>3. acked' <= LastIndex(db') /\ acked' <= s /\ acked' \in Nat
        <5>1. LastIndex(db') \in Nat /\ acked \in Nat /\ committed \in Nat
          BY <1>T, LastIndexIsLargest DEF Index0
        <5> QED BY <3>1, <4>1, <4>2, <5>1 DEF Smaller
      <4>4. ASSUME NEW d, d = [db' EXCEPT !.purged = s]
            PROVE  Contiguous(d) /\ acked' <= LastIndex(d)
        <5>1. d \in Disk /\ d.log = db'.log /\ d.purged = s
          BY <1>T, <3>1, <4>4 DEF Disk
        <5>2. \A k \in Index : k > s => d.log[k] = Hole
          <6>1. db'.log = [j \in Index |-> IF j >= committed + 1 THEN Hole ELSE db.log[j]]
            BY <1>T, <4>1 DEF WithoutFrom, Disk
          <6>2. \A k \in Index : k > s => k >= committed + 1
            BY <1>T, <3>1 DEF Index, Index0
          <6> QED BY <5>1, <6>1, <6>2
        <5>3. Contiguous(d)
          BY <3>1, <4>2, <5>1, <5>2 DEF Contiguous, Index
        <5>4. acked' <= LastIndex(d)
          BY <4>3, <5>1 DEF LastIndex, Present
        <5> QED BY <5>3, <5>4
      <4>5. MayPurgeTo(install.last)'
        BY <3>1, <4>4 DEF MayPurgeTo, Marked, Contiguous, LastIndex, Present
      <4> QED BY <3>1, <4>2, <4>3, <4>5 DEF AckInv, ghost, Contiguous, LastIndex, Present
    <3>3. CASE ~Conflicts(s)
      <4>1. UNCHANGED <<disk, acked>>
        BY <2>9, <3>3 DEF AcceptInstall
      <4>2. MayPurgeTo(s)
        <5>1. CASE s >= LastIndex(db)
          BY <3>1, <5>1, MarkMayGrow
        <5>2. CASE LastIndex(db) > s
          <6>0. s \in committed + 1 .. s /\ LastIndex(db) >= s
            BY <1>T, <3>1, <5>2, LastIndexIsLargest DEF Index0
          <6>1. db.log[s] = chosen[s] /\ db.log[s] # Hole
            BY <3>1, <3>3, <6>0 DEF Conflicts, AckInv
          <6>2. Contiguous(Marked(s))
            <7>1. \A j, k \in Index : s < j /\ j < k /\ db.log[k] # Hole => db.log[j] # Hole
              BY <6>1 DEF AckInv, Contiguous
            <7> QED BY <3>1, <7>1, MarkMovesEnd DEF AckInv, Contiguous
          <6>3. Present(db) # {}
            BY <6>1 DEF Present
          <6> QED BY <3>1, <6>2, <6>3, MarkMovesEnd DEF MayPurgeTo, AckInv
        <5> QED BY <1>T, <3>1, <5>1, <5>2, LastIndexIsLargest DEF Index0
      <4> QED BY <1>T, <3>1, <4>1, <4>2, AckInvKept DEF ghost, disk
    <3> QED BY <3>2, <3>3
  <2> QED BY <1>2, <2>1, <2>2, <2>3, <2>4, <2>5, <2>6, <2>7, <2>8, <2>9 DEF RaftCore
<1>3. CASE Worker
  <2>1. CASE Apply
    BY <2>1, <1>U DEF Apply, core
  <2>2. CASE ApplyMissing
    <3>1. UNCHANGED <<ghost, disk, target, install, acked>> /\ pc' = "idle"
      BY <2>2 DEF ApplyMissing
    <3> QED BY <1>T, <3>1, AckInvKept DEF ghost, disk
  <2>3. CASE InstallUpdate
    <3>1. UNCHANGED <<ghost, disk, target, install, acked>> /\ pc = "install"
          /\ pc' = "installSave"
      BY <2>3 DEF InstallUpdate
    <3> QED BY <1>T, <3>1, AckInvKept DEF AckInv, ghost, disk
  <2>4. CASE InstallSave
    <3>1. /\ UNCHANGED <<ghost, acked>> /\ pc = "installSave" /\ pc' = "purge"
          /\ target' = install.last /\ db' = [db EXCEPT !.snap = install]
      BY <2>4 DEF InstallSave, WriteSync
    <3>2. db'.log = db.log /\ db'.purged = db.purged BY <1>T, <3>1 DEF Disk
    <3> QED BY <1>T, <3>1, <3>2, AckInvKept DEF AckInv, ghost
  <2>5. CASE BuildBegin
    BY <2>5, <1>U DEF BuildBegin, core
  <2> QED BY <1>3, <2>1, <2>2, <2>3, <2>4, <2>5 DEF Worker
<1>4. CASE Builder
  <2>1. CASE BuildRead
    BY <2>1, <1>U DEF BuildRead, core
  <2>2. CASE BuildSave
    <3>1. /\ UNCHANGED <<ghost, pc, target, install, acked>>
          /\ db' = [db EXCEPT !.snap = builder.state]
      BY <2>2 DEF BuildSave, SnapDisk, WriteSync
    <3>2. db'.log = db.log /\ db'.purged = db.purged BY <1>T, <3>1 DEF Disk
    <3> QED BY <1>S, <3>1, <3>2
  <2> QED BY <1>4, <2>1, <2>2 DEF Builder
<1>5. CASE ProcessCrash
  <2>1. UNCHANGED <<ghost, disk, acked>> /\ pc' = "idle"
    BY <1>5 DEF ProcessCrash, LoseMemory
  <2> QED BY <1>T, <2>1, AckInvKept DEF ghost, disk
<1>6. CASE MachineCrash
  BY <1>6 DEF MachineCrash
<1>7. CASE Start
  BY <1>7, <1>U DEF Start
<1>8. CASE Recovered
  <2>1. UNCHANGED <<ghost, disk, install, acked>>
    BY <1>8 DEF Recovered
  <2>2. CASE LastIndex(db) < sm.last
    <3>1. pc' = "purge" /\ target' = sm.last
      BY <1>8, <2>2 DEF Recovered
    <3>2. MayPurgeTo(sm.last)
      BY <1>T, <2>2, MarkMayGrow, LastIndexIsLargest DEF Index0
    <3> QED BY <1>T, <2>1, <3>1, <3>2, AckInvKept DEF ghost, disk
  <2>3. CASE ~(LastIndex(db) < sm.last)
    BY <1>8, <1>U, <2>3 DEF Recovered
  <2> QED BY <2>2, <2>3
<1>9. CASE UNCHANGED vars
  BY <1>9, <1>U DEF vars, core
<1> QED BY <1>1, <1>2, <1>3, <1>4, <1>5, <1>6, <1>7, <1>8, <1>9 DEF Next

\* Unless the machine loses power, an entry reported as stored stays in the log
\* until a leader truncates it, through purges, installs and crashes, also when
\* snapshots are installed beside running builders (append, io_completed).
THEOREM AcknowledgedSurvive ==
    ASSUME ~PowerLoss
    PROVE  Spec => []AcknowledgedEntriesSurvive
<1>1. Init => AckInv
  <2> SUFFICES ASSUME Init PROVE AckInv OBVIOUS
  <2>1. /\ db = EmptyDisk /\ pc = "idle" /\ acked = 0 /\ len = 0
        /\ \A i \in Index : EmptyDisk.log[i] = Hole
    BY DEF Init, EmptyDisk
  <2>2. EmptyDisk.purged = 0 /\ Present(EmptyDisk) = {}
    BY <2>1 DEF EmptyDisk, Present
  <2>3. Contiguous(db) /\ LastIndex(db) = 0
    BY <2>1, <2>2 DEF Contiguous, LastIndex
  <2> QED BY <2>1, <2>3 DEF AckInv, Index
<1>2. TypeOK /\ TypeOK' /\ AckInv /\ [Next]_vars => AckInv'
  BY AckInvIsInductive
<1>3. TypeOK /\ AckInv => AcknowledgedEntriesSurvive
  <2> SUFFICES ASSUME TypeOK, AckInv PROVE LastIndex(db) >= acked
    BY DEF AcknowledgedEntriesSurvive
  <2>1. LastIndex(db) \in Nat /\ acked \in Nat
    BY LastIndexIsLargest DEF TypeOK, Index0
  <2> QED BY <2>1 DEF AckInv
<1> QED BY <1>1, <1>2, <1>3, TypeCorrect, PTL DEF Spec

-----------------------------------------------------------------------------
(* Maps. *)

\* Every key of a map holds the value it had after some entry between the last
\* one applied and the furthest one whose effect the map may hold.
Fuzzy(s) ==
    /\ s.last <= len /\ s.upto <= len
    /\ s.mem = history[s.last].mem
    /\ \A k \in Keys : \E j \in s.last .. Larger(s.last, s.upto) : s.kv[k] = history[j].kv[k]

FuzzyInv ==
    /\ \A i \in Index : i <= len => history[i] = Effect(history[i - 1], chosen[i], i)
    /\ \A d \in unsynced : Fuzzy(d.snap)
    /\ mode \in {"recovering", "up"} => Fuzzy(sm)
    /\ builder.st # "none" => /\ builder.state.last <= len
                              /\ builder.state.mem = history[builder.state.last].mem
    /\ builder.st = "read" => Fuzzy(builder.state)
    /\ pc \in {"install", "installSave"} => Fuzzy(install)

\* A fuzzy map that has caught up with all it may contain is exact.
LEMMA FuzzyIsExact ==
    ASSUME TypeOK, NEW s \in State, Fuzzy(s), s.last >= s.upto
    PROVE  s.kv = history[s.last].kv /\ s.mem = history[s.last].mem
<1>1. s.last \in Index0 /\ s.upto \in Index0 /\ s.kv \in Map /\ history[s.last].kv \in Map
  BY DEF State, TypeOK
<1>2. Larger(s.last, s.upto) = s.last
  BY DEF Larger
<1>3. \A j \in s.last .. s.last : j = s.last
  BY <1>1 DEF Index0
<1>4. \A k \in Keys : s.kv[k] = history[s.last].kv[k]
  BY <1>2, <1>3 DEF Fuzzy
<1> QED BY <1>1, <1>4 DEF Map, Fuzzy

\* Applying the next chosen entry to a fuzzy map leaves a fuzzy map, whatever
\* part of that entry's effect the map already had.
LEMMA ApplyKeepsFuzzy ==
    ASSUME TypeOK, NEW s \in State, Fuzzy(s), NEW e \in Commands, s.last < len,
           history[s.last + 1] = Effect(history[s.last], e, s.last + 1)
    PROVE  Fuzzy(Applied(s, e))
<1> DEFINE t == Applied(s, e)
           h == history[s.last]
           i == s.last + 1
<1>1. /\ s.last \in Nat /\ s.upto \in Nat /\ len \in Nat /\ s.kv \in Map /\ e \in Command
      /\ i \in Nat
  <2>1. s.last \in Index0 /\ s.upto \in Index0 /\ s.kv \in Map BY DEF State
  <2>2. len \in Index0 BY DEF TypeOK
  <2>3. e \in Command BY ConstantsAssumption
  <2> QED BY <2>1, <2>2, <2>3 DEF Index0
<1>2. t.last = i /\ t.upto = s.upto /\ t.kv = Updated(s.kv, e)
      /\ t.mem = IF e.op = "membership" THEN i ELSE s.mem
  BY DEF Applied, State
<1>3. \A k \in Keys : history[i].kv[k] =
          IF ~Touches(e, k) THEN h.kv[k] ELSE IF e.op = "set" THEN e.value ELSE Absent
  BY DEF Effect
<1>4. \A k \in Keys : t.kv[k] =
          IF ~Touches(e, k) THEN s.kv[k] ELSE IF e.op = "set" THEN e.value ELSE Absent
  <2>1. CASE e.op = "set"
    BY <1>1, <1>2, <2>1 DEF Updated, Insert, Touches, Map
  <2>2. CASE e.op = "delete"
    BY <1>1, <1>2, <2>2 DEF Updated, Remove, Touches, Map
  <2>3. CASE e.op \notin {"set", "delete"}
    BY <1>2, <2>3 DEF Updated, Touches
  <2> QED BY <2>1, <2>2, <2>3
<1>5. ASSUME NEW k \in Keys
      PROVE  \E j \in t.last .. Larger(t.last, t.upto) : t.kv[k] = history[j].kv[k]
  <2>1. i \in i .. Larger(i, s.upto)
    BY <1>1 DEF Larger
  <2>2. PICK j \in s.last .. Larger(s.last, s.upto) : s.kv[k] = history[j].kv[k]
    BY DEF Fuzzy
  <2>3. CASE Touches(e, k) \/ j = s.last
    BY <1>2, <1>3, <1>4, <2>1, <2>2, <2>3
  <2>4. CASE ~Touches(e, k) /\ j # s.last
    <3>1. j \in i .. Larger(i, s.upto)
      BY <1>1, <2>2, <2>4 DEF Larger
    <3> QED BY <1>2, <1>4, <2>2, <2>4, <3>1
  <2> QED BY <2>3, <2>4
<1>6. t.mem = history[i].mem
  BY <1>2 DEF Effect, Fuzzy
<1>7. t.last <= len /\ t.upto <= len
  BY <1>1, <1>2 DEF Fuzzy
<1> QED BY <1>2, <1>5, <1>6, <1>7 DEF Fuzzy

\* Fuzzy depends on nothing but the ghost variables.
LEMMA FuzzyKept ==
    ASSUME NEW s, Fuzzy(s), UNCHANGED ghost
    PROVE  Fuzzy(s)'
BY DEF Fuzzy, ghost

\* A write that leaves the snapshot alone keeps every snapshot fuzzy, and so
\* does one of a fuzzy snapshot.
LEMMA WriteKeepsFuzzy ==
    ASSUME TypeOK, FuzzyInv, NEW d, Fuzzy(d.snap), Write(d) \/ WriteSync(d), UNCHANGED ghost
    PROVE  \A e \in unsynced' : Fuzzy(e.snap)'
<1>1. unsynced' \subseteq unsynced \cup {d}
  BY DEF Write, WriteSync
<1>2. \A e \in unsynced \cup {d} : Fuzzy(e.snap)
  BY DEF FuzzyInv
<1> QED BY <1>1, <1>2, FuzzyKept

\* A new chosen entry is beyond everything a map may hold.
LEMMA ChooseKeepsFuzzy ==
    ASSUME TypeOK, NEW e \in Commands, Choose(e), NEW s \in State, Fuzzy(s)
    PROVE  Fuzzy(s)'
<1>1. /\ len' = len + 1 /\ len \in Nat /\ len < MaxLog
      /\ \A j \in Index0 : j <= len => history'[j] = history[j]
  BY ConstantsAssumption DEF Choose, TypeOK, Index0
<1>2. s.last \in Nat /\ s.upto \in Nat /\ s.last <= len /\ s.upto <= len
  BY DEF State, Index0, Fuzzy
<1>3. \A j \in s.last .. Larger(s.last, s.upto) : j \in Index0 /\ j <= len
  BY <1>1, <1>2, ConstantsAssumption DEF Index0, Larger
<1>4. s.last \in Index0
  BY DEF State
<1> QED BY <1>1, <1>2, <1>3, <1>4 DEF Fuzzy

\* Every action keeps every map fuzzy, if it re-applies only chosen entries.
LEMMA FuzzyInvIsInductive ==
    ASSUME TypeOK, TypeOK', DurableInv, FuzzyInv, [Next]_vars
    PROVE  FuzzyInv'
<1> USE ConstantsAssumption
<1>D. db \in Disk /\ db \in unsynced /\ Fuzzy(db.snap) /\ unsynced \subseteq Disk
  BY DEF TypeOK, FuzzyInv
<1>S. ASSUME UNCHANGED <<ghost, sm, builder, install>>,
             \A d \in unsynced' : Fuzzy(d.snap)',
             mode' \in {"recovering", "up"} => mode \in {"recovering", "up"},
             pc' \in {"install", "installSave"} => pc \in {"install", "installSave"}
      PROVE  FuzzyInv'
  BY <1>S, FuzzyKept DEF FuzzyInv, ghost, Effect
<1>U. ASSUME UNCHANGED disk, UNCHANGED ghost PROVE \A d \in unsynced' : Fuzzy(d.snap)'
  BY <1>U, FuzzyKept DEF FuzzyInv, disk
<1>1. ASSUME NEW e \in Commands, Choose(e) PROVE FuzzyInv'
  <2>1. /\ len' = len + 1 /\ len \in Nat /\ len < MaxLog
        /\ \A j \in Index0 : j <= len => history'[j] = history[j]
        /\ \A j \in Index : j <= len => chosen'[j] = chosen[j]
        /\ chosen'[len + 1] = e
        /\ history'[len + 1] = Effect(history[len], e, len + 1)
    BY <1>1 DEF Choose, TypeOK, Index0, Index
  <2>2. UNCHANGED <<disk, core, sm, builder, install>>
    BY <1>1 DEF Choose
  <2>3. \A i \in Index : i <= len' => history'[i] = Effect(history'[i - 1], chosen'[i], i)
    <3> SUFFICES ASSUME NEW i \in Index, i <= len'
                 PROVE history'[i] = Effect(history'[i - 1], chosen'[i], i)
      OBVIOUS
    <3>1. i - 1 \in Index0 /\ i - 1 <= len /\ i \in Index0 BY <2>1 DEF Index, Index0
    <3>2. CASE i = len + 1
      <4>1. i - 1 = len BY <2>1, <3>2
      <4> QED BY <2>1, <3>1, <3>2, <4>1
    <3>3. CASE i <= len
      <4>1. history[i] = Effect(history[i - 1], chosen[i], i) BY <3>3 DEF FuzzyInv
      <4> QED BY <2>1, <3>1, <3>3, <4>1
    <3> QED BY <2>1, <3>2, <3>3 DEF Index
  <2>4. \A d \in unsynced : d.snap \in State
    BY <1>D DEF Disk
  <2>5. sm \in State /\ builder.state \in State /\ install \in State
    BY DEF TypeOK
  <2>6. builder.state.last \in Index0
    BY <2>5 DEF State
  <2>7. builder.st # "none" => /\ builder.state.last <= len'
                               /\ builder.state.mem = history'[builder.state.last].mem
    BY <2>1, <2>6 DEF FuzzyInv, Index0
  <2> QED BY <1>1, <2>2, <2>3, <2>4, <2>5, <2>7, ChooseKeepsFuzzy DEF FuzzyInv, disk, core
<1>2. CASE RaftCore
  <2>1. ASSUME NEW v \in 1 .. MaxVote, SaveVote(v) PROVE FuzzyInv'
    <3>1. UNCHANGED <<ghost, core, sm, builder, install>> /\ WriteSync([db EXCEPT !.vote = v])
      BY <2>1 DEF SaveVote, VoteDisk
    <3>2. [db EXCEPT !.vote = v].snap = db.snap BY <1>D DEF Disk
    <3> QED BY <1>D, <1>S, <3>1, <3>2, WriteKeepsFuzzy DEF core
  <2>2. ASSUME NEW e \in Commands, AppendPut(e) PROVE FuzzyInv'
    <3>1. /\ UNCHANGED <<ghost, mode, sm, builder, install>> /\ pc' = "append"
          /\ Write([db EXCEPT !.log[LastIndex(db) + 1] = e])
      BY <2>2 DEF AppendPut
    <3>2. [db EXCEPT !.log[LastIndex(db) + 1] = e].snap = db.snap BY <1>D DEF Disk
    <3> QED BY <1>D, <1>S, <3>1, <3>2, WriteKeepsFuzzy
  <2>3. CASE AppendDone
    BY <2>3, <1>S, <1>U DEF AppendDone
  <2>4. ASSUME NEW i \in Index, Commit(i) PROVE FuzzyInv'
    <3>1. /\ UNCHANGED <<ghost, mode, pc, sm, builder, install>>
          /\ WriteSync([db EXCEPT !.committed = i])
      BY <2>4 DEF Commit, CommitDisk
    <3>2. [db EXCEPT !.committed = i].snap = db.snap BY <1>D DEF Disk
    <3> QED BY <1>D, <1>S, <3>1, <3>2, WriteKeepsFuzzy
  <2>5. ASSUME NEW i \in Index, Truncate(i) PROVE FuzzyInv'
    <3>1. UNCHANGED <<ghost, core, sm, builder, install>> /\ Write(WithoutFrom(db, i))
      BY <2>5 DEF Truncate
    <3>2. WithoutFrom(db, i).snap = db.snap BY <1>D DEF Disk, WithoutFrom
    <3> QED BY <1>D, <1>S, <3>1, <3>2, WriteKeepsFuzzy DEF core
  <2>6. ASSUME NEW i \in Index, PurgeRequest(i) PROVE FuzzyInv'
    BY <2>6, <1>S, <1>U DEF PurgeRequest
  <2>7. CASE PurgeMark
    <3>1. /\ UNCHANGED <<ghost, mode, sm, builder, install>> /\ pc' = "purgeDelete"
          /\ WriteSync([db EXCEPT !.purged = target])
      BY <2>7 DEF PurgeMark
    <3>2. [db EXCEPT !.purged = target].snap = db.snap BY <1>D DEF Disk
    <3> QED BY <1>D, <1>S, <3>1, <3>2, WriteKeepsFuzzy
  <2>8. CASE PurgeDelete
    <3>1. /\ UNCHANGED <<ghost, mode, sm, builder, install>> /\ pc' = "idle"
          /\ Write(WithoutUpTo(db, target))
      BY <2>8 DEF PurgeDelete, PurgeRange
    <3>2. WithoutUpTo(db, target).snap = db.snap BY <1>D DEF Disk, WithoutUpTo
    <3> QED BY <1>D, <1>S, <3>1, <3>2, WriteKeepsFuzzy
  <2>9. ASSUME NEW s \in Index, NEW u \in Index, NEW at \in [Keys -> s .. u],
               AcceptInstall(s, u, at)
        PROVE  FuzzyInv'
    <3>1. /\ UNCHANGED <<ghost, mode, sm, builder>> /\ pc' = "install"
          /\ install' = Received(s, u, at) /\ u >= s /\ u <= len /\ mode = "up"
      BY <2>9 DEF AcceptInstall, Idle
    <3>2. \A d \in unsynced' : Fuzzy(d.snap)'
      <4>1. CASE Conflicts(s)
        <5>1. Write(WithoutFrom(db, committed + 1)) BY <2>9, <4>1 DEF AcceptInstall
        <5>2. WithoutFrom(db, committed + 1).snap = db.snap BY <1>D DEF Disk, WithoutFrom
        <5> QED BY <1>D, <3>1, <5>1, <5>2, WriteKeepsFuzzy
      <4>2. CASE ~Conflicts(s)
        BY <2>9, <4>2, <1>U DEF AcceptInstall
      <4> QED BY <4>1, <4>2
    <3>3. Fuzzy(Received(s, u, at))
      <4>1. Larger(s, u) = u BY <3>1 DEF Larger, Index
      <4>2. \A k \in Keys : history[at[k]].kv[k] = history[at[k]].kv[k] /\ at[k] \in s .. u
        OBVIOUS
      <4>3. s <= len BY <3>1 DEF Index, TypeOK, Index0
      <4> QED BY <3>1, <4>1, <4>2, <4>3 DEF Fuzzy, Received
    <3>4. Fuzzy(install)'
      BY <3>1, <3>3 DEF Fuzzy, ghost
    <3> QED BY <3>1, <3>2, <3>4, FuzzyKept DEF FuzzyInv, ghost, Effect
  <2> QED BY <1>2, <2>1, <2>2, <2>3, <2>4, <2>5, <2>6, <2>7, <2>8, <2>9 DEF RaftCore
<1>3. CASE Worker
  <2>1. CASE Apply
    <3>1. /\ mode \in {"recovering", "up"} /\ pc # "installSave" /\ sm.last < committed
          /\ sm' = Applied(sm, db.log[sm.last + 1])
          /\ UNCHANGED <<ghost, disk, core, builder, install>>
      BY <2>1 DEF Apply, Pending
    <3>2. sm \in State /\ sm.last \in Index0 /\ committed \in Index0 /\ len \in Index0
          /\ db.committed \in Index0 /\ db.snap \in State
      BY <1>D DEF TypeOK, State, Disk
    <3>3. db.snap.last \in Index0 BY <3>2 DEF State
    <3>4. /\ committed = RecoveryPoint(db) /\ snapLast = db.snap.last /\ snapLast <= sm.last
          /\ Rebuildable(db) /\ committed <= len
          /\ \A j \in Index : j <= len => chosen[j] \in Commands
      BY <1>D, <3>1 DEF DurableInv, DiskInv, MemoryInv
    <3> DEFINE i == sm.last + 1
    <3>5. committed = db.committed /\ i > db.snap.last /\ i <= db.committed /\ i \in Index
          /\ i <= len /\ i - 1 = sm.last /\ sm.last < len
      BY <3>1, <3>2, <3>3, <3>4 DEF RecoveryPoint, Larger, Index, Index0
    <3>6. db.log[i] = chosen[i] /\ chosen[i] \in Commands
      BY <3>4, <3>5 DEF Rebuildable
    <3>7. history[i] = Effect(history[sm.last], chosen[i], i)
      BY <3>5 DEF FuzzyInv
    <3>8. Fuzzy(sm) BY <3>1 DEF FuzzyInv
    <3>9. Fuzzy(Applied(sm, db.log[i]))
      BY <3>1, <3>2, <3>5, <3>6, <3>7, <3>8, ApplyKeepsFuzzy
    <3>10. Fuzzy(sm)'
      BY <3>1, <3>9 DEF Fuzzy, ghost
    <3> HIDE DEF i
    <3> QED BY <3>1, <3>10, <1>U, FuzzyKept DEF FuzzyInv, ghost, Effect, core
  <2>2. CASE ApplyMissing
    BY <2>2, <1>S, <1>U DEF ApplyMissing
  <2>3. CASE InstallUpdate
    <3>1. /\ UNCHANGED <<ghost, disk, mode, builder, install>>
          /\ sm' = install /\ pc = "install"
      BY <2>3 DEF InstallUpdate
    <3>2. Fuzzy(install) BY <3>1 DEF FuzzyInv
    <3>3. Fuzzy(sm)' BY <3>1, <3>2 DEF Fuzzy, ghost
    <3> QED BY <3>1, <3>3, <1>U, FuzzyKept DEF FuzzyInv, ghost, Effect
  <2>4. CASE InstallSave
    <3>1. /\ UNCHANGED <<ghost, mode, sm, builder>> /\ pc = "installSave" /\ pc' = "purge"
          /\ WriteSync([db EXCEPT !.snap = install])
      BY <2>4 DEF InstallSave
    <3>2. [db EXCEPT !.snap = install].snap = install /\ Fuzzy(install)
      BY <1>D, <3>1 DEF Disk, FuzzyInv
    <3>3. \A d \in unsynced' : Fuzzy(d.snap)'
      BY <3>1, <3>2, WriteKeepsFuzzy
    <3> QED BY <3>1, <3>3, FuzzyKept DEF FuzzyInv, ghost, Effect
  <2>5. CASE BuildBegin
    <3>1. /\ UNCHANGED <<ghost, disk, core, sm, install>> /\ mode = "up"
          /\ builder' = [st |-> "begun",
                         state |-> [EmptyState EXCEPT !.last = sm.last, !.mem = sm.mem]]
      BY <2>5 DEF BuildBegin
    <3>2. builder'.st = "begun" /\ builder'.state.last = sm.last /\ builder'.state.mem = sm.mem
      BY <3>1 DEF EmptyState
    <3>3. Fuzzy(sm) BY <3>1 DEF FuzzyInv
    <3> QED BY <3>1, <3>2, <3>3, <1>U, FuzzyKept DEF FuzzyInv, ghost, Effect, Fuzzy, core
  <2> QED BY <1>3, <2>1, <2>2, <2>3, <2>4, <2>5 DEF Worker
<1>4. CASE Builder
  <2>1. CASE BuildRead
    <3>1. /\ UNCHANGED <<ghost, disk, core, sm, install>> /\ mode = "up" /\ builder.st = "begun"
          /\ builder'.st = "read"
          /\ builder'.state = [builder.state EXCEPT !.kv = sm.kv,
                                                    !.upto = Larger(sm.upto, sm.last)]
      BY <2>1 DEF BuildRead
    <3>2. builder.state \in State /\ sm \in State BY DEF TypeOK
    <3>3. /\ builder'.state.kv = sm.kv /\ builder'.state.upto = Larger(sm.upto, sm.last)
          /\ builder'.state.last = builder.state.last /\ builder'.state.mem = builder.state.mem
      BY <3>1, <3>2 DEF State
    <3>4. /\ builder.state.last <= sm.last /\ builder.state.last <= len
          /\ builder.state.mem = history[builder.state.last].mem /\ Fuzzy(sm)
      BY <3>1 DEF DurableInv, MemoryInv, FuzzyInv
    <3>5. /\ builder.state.last \in Nat /\ sm.last \in Nat /\ sm.upto \in Nat
      BY <3>2 DEF State, Index0
    <3>6. Fuzzy(builder'.state)
      <4>1. \A j \in sm.last .. Larger(sm.last, sm.upto) :
               j \in builder'.state.last .. Larger(builder'.state.last, builder'.state.upto)
        BY <3>3, <3>4, <3>5 DEF Larger
      <4>2. builder'.state.upto <= len
        BY <3>3, <3>4, <3>5 DEF Fuzzy, Larger
      <4> QED BY <3>3, <3>4, <4>1, <4>2 DEF Fuzzy
    <3>7. Fuzzy(builder.state)'
      BY <3>1, <3>6 DEF Fuzzy, ghost
    <3> QED BY <3>1, <3>3, <3>4, <3>7, <1>U, FuzzyKept DEF FuzzyInv, ghost, Effect, core
  <2>2. CASE BuildSave
    <3>1. /\ UNCHANGED <<ghost, mode, pc, sm, install>> /\ builder.st = "read"
          /\ builder'.st = "none" /\ WriteSync([db EXCEPT !.snap = builder.state])
      BY <2>2 DEF BuildSave, SnapDisk, NoBuilder
    <3>2. [db EXCEPT !.snap = builder.state].snap = builder.state /\ Fuzzy(builder.state)
      BY <1>D, <3>1 DEF Disk, FuzzyInv
    <3>3. \A d \in unsynced' : Fuzzy(d.snap)'
      BY <3>1, <3>2, WriteKeepsFuzzy
    <3> QED BY <3>1, <3>3, FuzzyKept DEF FuzzyInv, ghost, Effect
  <2> QED BY <1>4, <2>1, <2>2 DEF Builder
<1>5. CASE ProcessCrash \/ MachineCrash
  <2>1. /\ UNCHANGED ghost /\ mode' = "down" /\ pc' = "idle" /\ builder'.st = "none"
        /\ unsynced' \subseteq unsynced
    BY <1>5 DEF ProcessCrash, MachineCrash, LoseMemory, disk, NoBuilder
  <2> QED BY <2>1, FuzzyKept DEF FuzzyInv, ghost, Effect
<1>6. CASE Start
  <2>1. UNCHANGED <<ghost, disk, pc, builder, install>> /\ sm' = db.snap
    BY <1>6 DEF Start, Restored
  <2>2. Fuzzy(sm)' BY <1>D, <2>1 DEF Fuzzy, ghost
  <2> QED BY <2>1, <2>2, <1>U, FuzzyKept DEF FuzzyInv, ghost, Effect
<1>7. CASE Recovered
  <2>1. /\ UNCHANGED <<ghost, disk, sm, builder, install>> /\ mode = "recovering"
        /\ pc' \in {"purge", pc}
    BY <1>7 DEF Recovered
  <2> QED BY <2>1, <1>S, <1>U
<1>8. CASE UNCHANGED vars
  BY <1>8, <1>S, <1>U DEF vars, core
<1> QED BY <1>1, <1>2, <1>3, <1>4, <1>5, <1>6, <1>7, <1>8 DEF Next

\* The log and every map are empty at first.
LEMMA InitFuzzy == Init => FuzzyInv
<1> SUFFICES ASSUME Init PROVE FuzzyInv OBVIOUS
<1>1. /\ len = 0 /\ unsynced = {EmptyDisk} /\ mode = "down" /\ pc = "idle"
      /\ builder.st = "none" /\ EmptyDisk.snap = EmptyState
      /\ \A i \in Index0 : history[i] = [kv |-> EmptyMap, mem |-> 0]
  BY DEF Init, NoBuilder, EmptyDisk
<1>2. Fuzzy(EmptyState)
  <2>1. 0 \in Index0 /\ 0 \in 0 .. Larger(0, 0)
    BY ConstantsAssumption DEF Index0, Larger
  <2>2. history[0].kv = EmptyMap /\ history[0].mem = 0
    BY <1>1, <2>1
  <2>3. /\ EmptyState.last = 0 /\ EmptyState.upto = 0 /\ EmptyState.mem = 0
        /\ EmptyState.kv = EmptyMap
    BY DEF EmptyState
  <2>4. ASSUME NEW k \in Keys
        PROVE \E j \in EmptyState.last .. Larger(EmptyState.last, EmptyState.upto) :
                  EmptyState.kv[k] = history[j].kv[k]
    BY <2>1, <2>2, <2>3
  <2> QED BY <1>1, <2>2, <2>3, <2>4 DEF Fuzzy
<1>3. \A i \in Index : ~(i <= len)
  BY <1>1, ConstantsAssumption DEF Index
<1> QED BY <1>1, <1>2, <1>3 DEF FuzzyInv

\* Every map is fuzzy in every reachable state.
THEOREM FuzzyInvHolds ==
    ASSUME ~InstallWhileBuilding
    PROVE  Spec => []FuzzyInv
<1>1. TypeOK /\ TypeOK' /\ DurableInv /\ FuzzyInv /\ [Next]_vars => FuzzyInv'
  BY FuzzyInvIsInductive
<1> QED BY <1>1, InitFuzzy, TypeCorrect, DurableInvHolds, PTL DEF Spec

\* When no snapshot is installed beside a running builder, a map that has caught
\* up with everything it may contain is the state of the chosen log at
\* last_applied_log_id, in memory and in every snapshot a crash may leave,
\* however far a builder's or a received snapshot's data ran ahead of its meta
\* (apply, build_snapshot, update_state_machine_).
THEOREM CaughtUpIsExact ==
    ASSUME ~InstallWhileBuilding
    PROVE  Spec => []CaughtUpStateIsExact
<1>1. TypeOK /\ FuzzyInv => CaughtUpStateIsExact
  <2> SUFFICES ASSUME TypeOK, FuzzyInv PROVE CaughtUpStateIsExact OBVIOUS
  <2>1. mode \in {"recovering", "up"} => ExactAt(sm)
    <3>1. sm \in State BY DEF TypeOK
    <3> QED BY <3>1, FuzzyIsExact DEF FuzzyInv, ExactAt
  <2>2. ASSUME NEW d \in unsynced PROVE ExactAt(d.snap)
    <3>1. d.snap \in State BY DEF TypeOK, Disk
    <3> QED BY <3>1, FuzzyIsExact DEF FuzzyInv, ExactAt
  <2> QED BY <2>1, <2>2 DEF CaughtUpStateIsExact
<1> QED BY <1>1, TypeCorrect, FuzzyInvHolds, PTL

-----------------------------------------------------------------------------
(* How far the data of a snapshot runs ahead, when received ones do not. *)

\* A stored or finished snapshot holds nothing beyond the committed index, so
\* that re-applying up to it leaves no trace of the difference.
AheadInv ==
    /\ db.snap.upto <= RecoveryPoint(db)
    /\ mode = "recovering" => sm.upto <= committed
    /\ mode = "up" => sm.upto <= sm.last
    /\ builder.st = "read" => builder.state.upto <= committed
    /\ pc \in {"install", "installSave"} => install.upto <= install.last

\* Every action keeps the data of snapshots below the committed index.
LEMMA AheadInvIsInductive ==
    ASSUME ~InstallWhileBuilding, MaxFuzz = 0, TypeOK, TypeOK', DurableInv, DurableInv',
           AheadInv, [Next]_vars
    PROVE  AheadInv'
<1> USE ConstantsAssumption
<1>T. /\ db \in Disk /\ db' \in Disk /\ sm \in State /\ install \in State
      /\ builder.state \in State /\ committed \in Index0 /\ committed' \in Index0
      /\ db.snap \in State /\ db.snap.upto \in Index0
  BY DEF TypeOK, Disk, State
<1>N. /\ committed \in Nat /\ committed' \in Nat /\ db.snap.upto \in Nat /\ sm.last \in Nat
      /\ sm.upto \in Nat /\ builder.state.upto \in Nat /\ install.last \in Nat
      /\ install.upto \in Nat
  BY <1>T DEF State, Index0
<1>R. ASSUME mode' \in {"recovering", "up"} PROVE committed' = RecoveryPoint(db)'
  BY <1>R DEF DurableInv, MemoryInv
<1>Q. ASSUME mode = "up", mode' = "up", UNCHANGED <<sm, builder, install>>,
             db'.snap = db.snap, committed' >= committed,
             pc' \in {"install", "installSave"} => pc \in {"install", "installSave"}
      PROVE  AheadInv'
  <2>1. committed = RecoveryPoint(db) /\ committed' = RecoveryPoint(db)'
    BY <1>Q, <1>R DEF DurableInv, MemoryInv
  <2>2. db'.snap.upto <= RecoveryPoint(db)'
    BY <1>N, <1>Q, <2>1 DEF AheadInv
  <2> QED BY <1>N, <1>Q, <2>2 DEF AheadInv
<1>U. ASSUME UNCHANGED <<disk, committed, sm, builder, install>>, mode' \in {mode, "failed"},
             pc' \in {"install", "installSave"} => pc \in {"install", "installSave"}
      PROVE  AheadInv'
  BY <1>U DEF AheadInv, RecoveryPoint, disk
<1>1. ASSUME NEW e \in Commands, Choose(e) PROVE AheadInv'
  BY <1>1, <1>U DEF Choose, core
<1>2. CASE RaftCore
  <2>1. ASSUME NEW v \in 1 .. MaxVote, SaveVote(v) PROVE AheadInv'
    BY <1>N, <1>T, <1>Q, <2>1 DEF SaveVote, VoteDisk, WriteSync, Idle, core, Disk
  <2>2. ASSUME NEW e \in Commands, AppendPut(e) PROVE AheadInv'
    BY <1>N, <1>T, <1>Q, <2>2 DEF AppendPut, Write, Disk
  <2>3. CASE AppendDone
    BY <2>3, <1>U DEF AppendDone
  <2>4. ASSUME NEW i \in Index, Commit(i) PROVE AheadInv'
    BY <1>N, <1>T, <1>Q, <2>4 DEF Commit, CommitDisk, WriteSync, Idle, Disk, Index
  <2>5. ASSUME NEW i \in Index, Truncate(i) PROVE AheadInv'
    BY <1>N, <1>T, <1>Q, <2>5 DEF Truncate, Write, WithoutFrom, Idle, core, Disk
  <2>6. ASSUME NEW i \in Index, PurgeRequest(i) PROVE AheadInv'
    BY <2>6, <1>U DEF PurgeRequest
  <2>7. CASE PurgeMark
    BY <1>N, <1>T, <1>Q, <2>7 DEF PurgeMark, WriteSync, Disk
  <2>8. CASE PurgeDelete
    BY <1>N, <1>T, <1>Q, <2>8 DEF PurgeDelete, PurgeRange, Write, WithoutUpTo, Disk
  <2>9. ASSUME NEW s \in Index, NEW u \in Index, NEW at \in [Keys -> s .. u],
               AcceptInstall(s, u, at)
        PROVE  AheadInv'
    <3>1. /\ UNCHANGED <<mode, committed, sm, builder>> /\ mode = "up"
          /\ install' = Received(s, u, at) /\ u <= s + MaxFuzz
      BY <2>9 DEF AcceptInstall, Idle
    <3>2. db'.snap = db.snap
      BY <1>T, <2>9 DEF AcceptInstall, Write, WithoutFrom, disk, Disk
    <3>3. install'.upto <= install'.last
      BY <3>1 DEF Received, Index
    <3>4. committed = RecoveryPoint(db) /\ committed' = RecoveryPoint(db)'
      BY <3>1, <1>R DEF DurableInv, MemoryInv
    <3> QED BY <3>1, <3>2, <3>3, <3>4 DEF AheadInv
  <2> QED BY <1>2, <2>1, <2>2, <2>3, <2>4, <2>5, <2>6, <2>7, <2>8, <2>9 DEF RaftCore
<1>3. CASE Worker
  <2>1. CASE Apply
    <3>1. /\ mode \in {"recovering", "up"}
          /\ sm' = Applied(sm, db.log[sm.last + 1])
          /\ UNCHANGED <<disk, core, builder, install>>
      BY <2>1 DEF Apply, Pending
    <3>2. sm'.last = sm.last + 1 /\ sm'.upto = sm.upto
      BY <1>T, <3>1 DEF Applied, State
    <3> QED BY <1>N, <3>1, <3>2 DEF AheadInv, RecoveryPoint, core, disk
  <2>2. CASE ApplyMissing
    BY <2>2, <1>U DEF ApplyMissing
  <2>3. CASE InstallUpdate
    BY <2>3 DEF InstallUpdate, AheadInv, RecoveryPoint, disk
  <2>4. CASE InstallSave
    <3>1. /\ UNCHANGED <<mode, sm, builder>> /\ mode = "up" /\ pc = "installSave" /\ pc' = "purge"
          /\ db' = [db EXCEPT !.snap = install] /\ committed' = install.last
      BY <2>4 DEF InstallSave, WriteSync
    <3>2. builder.st = "none"
      BY <3>1 DEF DurableInv, MemoryInv
    <3>3. db'.snap = install /\ committed' = RecoveryPoint(db)'
      BY <1>T, <1>R, <3>1 DEF Disk
    <3> QED BY <3>1, <3>2, <3>3 DEF AheadInv
  <2>5. CASE BuildBegin
    BY <2>5 DEF BuildBegin, AheadInv, RecoveryPoint, core, disk
  <2> QED BY <1>3, <2>1, <2>2, <2>3, <2>4, <2>5 DEF Worker
<1>4. CASE Builder
  <2>1. CASE BuildRead
    <3>1. /\ UNCHANGED <<disk, core, sm, install>> /\ mode = "up" /\ builder.st = "begun"
          /\ builder'.state = [builder.state EXCEPT !.kv = sm.kv,
                                                    !.upto = Larger(sm.upto, sm.last)]
      BY <2>1 DEF BuildRead
    <3>2. builder'.state.upto = Larger(sm.upto, sm.last)
      BY <1>T, <3>1 DEF State
    <3>3. pc # "installSave" /\ sm.last <= committed
      BY <3>1 DEF DurableInv, MemoryInv
    <3> QED BY <1>N, <3>1, <3>2, <3>3 DEF AheadInv, RecoveryPoint, Larger, core, disk
  <2>2. CASE BuildSave
    <3>1. /\ UNCHANGED <<mode, pc, committed, sm, install>> /\ mode = "up" /\ builder.st = "read"
          /\ builder'.st = "none" /\ db' = [db EXCEPT !.snap = builder.state]
      BY <2>2 DEF BuildSave, SnapDisk, NoBuilder, WriteSync
    <3>2. db'.snap = builder.state /\ committed' = RecoveryPoint(db)'
      BY <1>T, <1>R, <3>1 DEF Disk
    <3> QED BY <3>1, <3>2 DEF AheadInv
  <2> QED BY <1>4, <2>1, <2>2 DEF Builder
<1>5. CASE ProcessCrash \/ MachineCrash
  <2>1. /\ mode' = "down" /\ pc' = "idle" /\ builder'.st = "none"
        /\ db' = db \/ db' \in unsynced
    BY <1>5 DEF ProcessCrash, MachineCrash, LoseMemory, disk, NoBuilder
  <2>2. db'.snap = db.snap /\ db'.committed = db.committed
    BY <2>1 DEF DurableInv, DiskInv, SameMarks
  <2> QED BY <2>1, <2>2 DEF AheadInv, RecoveryPoint
<1>6. CASE Start
  <2>1. /\ UNCHANGED <<disk, pc, builder, install>> /\ mode = "down" /\ mode' \in {"recovering"}
        /\ sm' = db.snap /\ committed' = RecoveryPoint(db)
    BY <1>6 DEF Start, Restored, RecoveryPoint
  <2>2. pc = "idle" /\ builder.st = "none"
    BY <2>1 DEF DurableInv
  <2> QED BY <2>1, <2>2 DEF AheadInv, RecoveryPoint, disk
<1>7. CASE Recovered
  <2>1. /\ UNCHANGED <<disk, committed, sm, builder, install>> /\ mode = "recovering"
        /\ sm.last = committed /\ mode' = "up" /\ pc' \in {"purge", pc}
    BY <1>7 DEF Recovered, Ready
  <2> QED BY <2>1 DEF AheadInv, RecoveryPoint, disk
<1>8. CASE UNCHANGED vars
  BY <1>8, <1>U DEF vars, core
<1> QED BY <1>1, <1>2, <1>3, <1>4, <1>5, <1>6, <1>7, <1>8 DEF Next

\* When no snapshot is installed beside a running builder and received snapshots
\* are exact, a running node serves the state at last_applied_log_id: re-applying
\* the log undoes what its own late builders wrote (StateMachineStore::new).
THEOREM RunningNodeIsExact ==
    ASSUME ~InstallWhileBuilding, MaxFuzz = 0
    PROVE  Spec => []ServesCommittedState
<1>1. Init => AheadInv
  BY ConstantsAssumption DEF Init, AheadInv, EmptyDisk, EmptyState, NoBuilder, RecoveryPoint, Larger
<1>2. TypeOK /\ TypeOK' /\ DurableInv /\ DurableInv' /\ AheadInv /\ [Next]_vars => AheadInv'
  BY AheadInvIsInductive
<1>3. TypeOK /\ FuzzyInv /\ AheadInv => ServesCommittedState
  <2> SUFFICES ASSUME TypeOK, FuzzyInv, AheadInv, mode = "up"
               PROVE  sm.kv = history[sm.last].kv /\ sm.mem = history[sm.last].mem
    BY DEF ServesCommittedState
  <2>1. sm \in State BY DEF TypeOK
  <2>2. sm.last >= sm.upto
    BY <2>1 DEF AheadInv, State, Index0
  <2> QED BY <2>1, <2>2, FuzzyIsExact DEF FuzzyInv
<1> QED BY <1>1, <1>2, <1>3, TypeCorrect, DurableInvHolds, FuzzyInvHolds, PTL DEF Spec

=============================================================================

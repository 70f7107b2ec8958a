---------------------------- MODULE RaftStorage ----------------------------
(***************************************************************************)
(* One node of the self-built Raft path: RaftMachine::on_ready, which      *)
(* hands every Ready of the raft-rs crate to RaftMachineStorage, and       *)
(* RaftMachineStorage itself, whose keys in RocksDB are written one by     *)
(* one, with no batch.  The process may crash between any two writes;      *)
(* what it has written stays (a machine that loses power is not modelled). *)
(*                                                                         *)
(* raft-rs is external: its in-memory log, its hard state and the contents *)
(* of a Ready are modelled from how machine.rs drives it and from the      *)
(* contract in the comments of raft/storage.rs.  Between two turns it      *)
(* keeps no entry of its own: what it hands out, and every term it         *)
(* compares, it reads through the Storage trait (entries, term).           *)
(*                                                                         *)
(* The rest of the cluster is an election history, chosen once: the log    *)
(* every term's leader ends up with and how much of it that leader         *)
(* committed.  It is one Raft allows, so what this node's answers do to an *)
(* election is outside.                                                    *)
(*                                                                         *)
(* Every entry is its term.  uncommit_index is written and reloaded but    *)
(* never consulted, and conf_state and peers decide nothing here: they are *)
(* left out.                                                               *)
(***************************************************************************)
EXTENDS Naturals, Sequences, FiniteSets

CONSTANTS
    MaxTerm, MaxLog,    \* bounds: terms and log indexes
    MaxCrashes,         \* bound: crashes in one behaviour
    Mines,              \* in which terms this node may be the leader: the sets to try
    KvTerms,            \* terms whose entries carry a KV command (the others are empty)
    Snapshots           \* whether snapshots are created and received

ASSUME ConstantsAssumption ==
    /\ MaxTerm \in Nat \ {0} /\ MaxLog \in Nat /\ MaxCrashes \in Nat
    /\ Mines \subseteq SUBSET (1 .. MaxTerm) /\ KvTerms \subseteq 1 .. MaxTerm
    /\ Snapshots \in BOOLEAN

Term == 1 .. MaxTerm
Index == 1 .. MaxLog
Index0 == 0 .. MaxLog
Log == UNION {[1 .. n -> Term] : n \in Index0}

Self == 1
Candidates == {Self, 2}     \* whom a vote can go to: this node, or another

Unset == MaxLog + 1         \* first_index or last_index was never saved

VARIABLES
    lead, cmt,      \* ghost: each leader's final log, and how much of it it commits
    mine,           \* ghost: the terms in which this node may be the leader
    disk,           \* the /raft/ keys: hard_state, entries, first_index, last_index
    meta,           \* snapshot_metadata, in memory
    core,           \* RawNode: hard state, log, the last entry handed out, persisted
    prev,           \* the hard state RawNode last emitted
    rd,             \* the Ready at hand: next entry to append, last one to handle, ...
    todo,           \* what is left of on_ready, in order
    mode,           \* "down", "up" or "failed" (a panic)
    acked,          \* ghost: the entries reported as stored
    handled,        \* ghost: the entries the state machine has been given
    breaches,       \* ghost: which contracts of the storage have been broken
    crashes

history == <<lead, cmt, mine>>
node == <<disk, meta, core, prev, rd, todo, mode>>
vars == <<history, node, acked, handled, breaches, crashes>>

\* What can go wrong in the storage, and is counted when it does:
\*   "past"    entries() gave the entry after the committed ones, and it was handled;
\*   "match"   term() made RawNode take another log for the beginning of a leader's;
\*   "again"   term() made RawNode restore a snapshot that its log already has;
\*   "ahead"   a snapshot's data brought entries after the snapshot's index;
\*   "import"  a crash fell between two keys of write_all;
\*   "append"  a crash fell between an entry of append and its last_index.
Breach == {"past", "match", "again", "ahead", "import", "append"}

Larger(a, b) == IF a >= b THEN a ELSE b
Smaller(a, b) == IF a <= b THEN a ELSE b

-----------------------------------------------------------------------------
(* Election histories that Raft allows. *)

Front(l, n) == SubSeq(l, 1, n)
StartsWith(l, p) == Len(p) <= Len(l) /\ Front(l, Len(p)) = p

\* An entry of term u stands in a log where leader u put it, behind the same entries.
LogsMatch(ld) ==
    \A t \in Term : \A i \in 1 .. Len(ld[t]) :
        ld[t][i] <= t /\ StartsWith(ld[ld[t][i]], Front(ld[t], i))

\* A leader commits an entry of its own, and later leaders have all it committed.
CommitsHold(ld, cm) ==
    \A t \in Term :
        /\ cm[t] > 0 => cm[t] <= Len(ld[t]) /\ ld[t][cm[t]] = t
        /\ \A u \in t + 1 .. MaxTerm :
               ld[u] # <<>> => StartsWith(ld[u], Front(ld[t], cm[t]))

\* All that may be known as committed up to the leader of term t.
CommittedBy(t) ==
    CHOOSE n \in {cmt[u] : u \in 1 .. t} : \A u \in 1 .. t : cmt[u] <= n

-----------------------------------------------------------------------------
(* RaftMachineStorage's reads and the Storage trait's. *)

BadFirstIndex == IF disk.first = Unset THEN meta.index + 1 ELSE meta.index + 2
FirstIndex == IF disk.first = Unset THEN meta.index + 1 ELSE disk.first
LastIndex == IF disk.last = Unset THEN meta.index ELSE disk.last
Stored == [i \in 1 .. LastIndex |-> disk.log[i]]

\* RaftRocksDBStorage::term, an error being 0, as RawNode takes it.
TermOf(i) ==
    IF i = meta.index THEN meta.index
    ELSE IF i < FirstIndex \/ i > LastIndex THEN 0
    ELSE IF disk.log[i] # 0 THEN disk.log[i] ELSE meta.term

\* RawNode's own check of the range, and then the storage's answer.
Answer(i) == IF i = 0 \/ i > LastIndex THEN 0 ELSE TermOf(i)

\* RaftRocksDBStorage::entries(low, high): low .. high, high included.
\* With the entries below high, what it adds at high; 0 if that key is absent.
AtHigh(high) == IF high \in Index THEN disk.log[high] ELSE 0

-----------------------------------------------------------------------------
HardState == [term : 0 .. MaxTerm, vote : Candidates \cup {0}, commit : Index0]

TypeOK ==
    /\ lead \in [Term -> Log] /\ cmt \in [Term -> Index0] /\ mine \subseteq Term
    /\ disk \in [term : 0 .. MaxTerm, vote : Candidates \cup {0}, commit : Index0,
                 first : 0 .. Unset, last : 0 .. Unset, log : [Index -> 0 .. MaxTerm]]
    /\ meta \in [index : Index0, term : 0 .. MaxTerm]
    /\ core \in [role : {"follower", "leader"}, term : 0 .. MaxTerm,
                 vote : Candidates \cup {0}, log : Log, commit : Index0,
                 applied : Index0, persisted : Index0]
    /\ prev \in HardState
    /\ rd \in [fresh : BOOLEAN, next : 0 .. MaxLog + 1, upto : Index0, extra : 0 .. MaxTerm,
               snap : Index0, term : 0 .. MaxTerm, first : 0 .. Unset, last : Index0, from : 0 .. MaxTerm,
               left : SUBSET Index]
    /\ todo \in Seq({"snapshot", "importEntry", "importFirst", "importHard", "importLast",
                     "adopt", "append", "last", "handle", "create", "hard", "send",
                     "advance", "lightHard", "apply"})
    /\ mode \in {"down", "up", "failed"}
    /\ acked \in Log
    /\ handled \subseteq Index \X (0 .. MaxTerm)
    /\ breaches \subseteq Breach
    /\ crashes \in 0 .. MaxCrashes

EmptyDisk == [term |-> 0, vote |-> 0, commit |-> 0, first |-> Unset, last |-> Unset,
              log |-> [i \in Index |-> 0]]
NoCore == [role |-> "follower", term |-> 0, vote |-> 0, log |-> <<>>, commit |-> 0,
           applied |-> 0, persisted |-> 0]
NoSnapshot == [snap |-> 0, term |-> 0, first |-> Unset, last |-> 0, from |-> 0]
Ready(fresh, next, upto, extra, s) ==
    [fresh |-> fresh, next |-> next, upto |-> upto, extra |-> extra, snap |-> s.snap,
     term |-> s.term, first |-> s.first, last |-> s.last, from |-> s.from,
     left |-> 1 .. s.last]
NoReady == Ready(FALSE, 0, 0, 0, NoSnapshot)

Init ==
    /\ lead \in {ld \in [Term -> Log] : LogsMatch(ld)}
    /\ cmt \in {cm \in [Term -> Index0] : CommitsHold(lead, cm)}
    /\ mine \in Mines
    /\ disk = EmptyDisk
    /\ meta = [index |-> 0, term |-> 0]
    /\ core = NoCore /\ prev = [term |-> 0, vote |-> 0, commit |-> 0]
    /\ rd = NoReady /\ todo = <<>> /\ mode = "down"
    /\ acked = <<>> /\ handled = {} /\ breaches = {} /\ crashes = 0

-----------------------------------------------------------------------------
(* One turn of RaftMachine::run: an event changes the core, and on_ready    *)
(* begins with what the core then has to say.                               *)

HardStateOf(c) == [term |-> c.term, vote |-> c.vote, commit |-> c.commit]

\* RawNode hands out what is committed and persisted, and gets it from entries().
Deliverable(c) == Smaller(c.commit, c.persisted)
Extra(c) == IF c.applied < Deliverable(c) THEN AtHigh(Deliverable(c) + 1) ELSE 0
LastHanded(c) == IF Extra(c) = 0 THEN Deliverable(c) ELSE Deliverable(c) + 1

Phase(needed, p) == IF needed THEN <<p>> ELSE <<>>

BadOnReadySendFirst(c, next, s) ==
    <<"send">>
    \o Phase(s # NoSnapshot, "snapshot")
    \o Phase(next <= Len(c.log), "append")
    \o Phase(c.applied < LastHanded(c), "handle")
    \o Phase(HardStateOf(c) # prev, "hard")
    \o <<"advance">>
BadOnReadyHardFirst(c, next, s) ==
    Phase(HardStateOf(c) # prev, "hard")
    \o Phase(s # NoSnapshot, "snapshot")
    \o Phase(next <= Len(c.log), "append")
    \o Phase(c.applied < LastHanded(c), "handle")
    \o <<"send", "advance">>
OnReady(c, next, s) ==
    Phase(s # NoSnapshot, "snapshot")
    \o Phase(next <= Len(c.log), "append")
    \o Phase(c.applied < LastHanded(c), "handle")
    \o Phase(HardStateOf(c) # prev, "hard")
    \o <<"send", "advance">>

Idle == mode = "up" /\ todo = <<>>

\* The core becomes c; its entries from next on are not stored yet.
Turn(c, next, s) ==
    /\ Idle
    /\ core' = c
    /\ rd' = Ready(next <= Len(c.log), next, LastHanded(c), Extra(c), s)
    /\ todo' = OnReady(c, next, s)
    /\ prev' = HardStateOf(c)
    /\ UNCHANGED <<history, disk, meta, mode, handled, crashes>>

\* A turn that brings no entries and no snapshot.
QuietTurn(c) == Turn(c, Len(c.log) + 1, NoSnapshot) /\ UNCHANGED <<acked, breaches>>

\* A panic inside RawNode's step.
Abort ==
    /\ Idle
    /\ mode' = "failed"
    /\ UNCHANGED <<history, disk, meta, core, prev, rd, todo, acked, handled, breaches, crashes>>

\* The core in term t, with no vote yet when the term is new to it.
InTerm(t) ==
    IF t > core.term THEN [core EXCEPT !.role = "follower", !.term = t, !.vote = 0] ELSE core

\* A vote request from a candidate of term t, this node being one of them; it
\* gets the vote, or (c is 0) it does not.
Vote(t, c) ==
    /\ t >= core.term /\ (t = core.term /\ c # 0 => core.vote = 0)
    /\ c = Self => t = core.term + 1
    /\ QuietTurn(IF c = 0 THEN InTerm(t) ELSE [InTerm(t) EXCEPT !.vote = c])

\* How far the storage's answers agree with l after its first p entries.
Agreed(l, p) ==
    CHOOSE k \in p .. Len(l) :
        /\ \A i \in p + 1 .. k : Answer(i) = l[i]
        /\ k < Len(l) => Answer(k + 1) # l[k + 1]

\* The core's first k entries are taken for those of l: are they?
Compared(l, k) ==
    breaches' = IF StartsWith(core.log, Front(l, k)) THEN breaches
                ELSE breaches \cup {"match"}

\* What is left of the acknowledged entries where l takes the log's place.
ReplacedBy(l) == {Front(acked, k) : k \in {j \in 0 .. Len(acked) :
    /\ StartsWith(l, Front(acked, j))
    /\ j < Len(acked) => ~StartsWith(l, Front(acked, j + 1))}}

\* The core takes its first k entries for l's and all of l for its log; RawNode
\* panics when it has to put entries where it keeps none.
Accept(t, l, k, commit) ==
    IF k = Len(l)
    THEN /\ Turn([InTerm(t) EXCEPT !.commit = commit], Len(core.log) + 1, NoSnapshot)
         /\ Compared(l, k) /\ UNCHANGED acked
    ELSE IF k > core.persisted
    THEN Abort
    ELSE /\ Turn([InTerm(t) EXCEPT !.log = Front(core.log, k) \o SubSeq(l, k + 1, Len(l)),
                                   !.persisted = k,
                                   !.commit = commit], k + 1, NoSnapshot)
         /\ Compared(l, k) /\ acked' \in ReplacedBy(lead[t])

\* MsgAppend of the leader of term t: entries p + 1 .. n and its committed index.
\* It is answered, and nothing more, when it is behind or entry p does not match.
MsgAppend(t, p, n, known) ==
    /\ t \notin mine /\ t >= core.term /\ lead[t] # <<>>
    /\ p <= n /\ n <= Len(lead[t]) /\ known <= CommittedBy(t)
    /\ LET l == Front(lead[t], n) IN
       IF p < core.commit \/ (p > 0 /\ Answer(p) # l[p])
       THEN QuietTurn(InTerm(t))
       ELSE Accept(t, l, Agreed(l, p), Larger(core.commit, Smaller(known, n)))

\* MsgSnapshot of the leader of term t at index s: metadata with the term m of
\* its stored hard state, and a copy of every key it has, its entries up to n
\* and its first_index f among them.  One that the core's log already covers,
\* by the storage's answer, only moves the committed index.
MsgSnapshot(t, s, n, f, m) ==
    /\ Snapshots
    /\ t \notin mine /\ t >= core.term /\ lead[t] # <<>>
    /\ s >= core.commit /\ s <= CommittedBy(t) /\ s <= n /\ n <= Len(lead[t])
    /\ f <= s \/ f = Unset
    /\ m \in {lead[t][s], t}
    /\ IF Answer(s) = m
       THEN /\ Turn([InTerm(t) EXCEPT !.commit = s], Len(core.log) + 1, NoSnapshot)
            /\ Compared(lead[t], s) /\ UNCHANGED acked
       ELSE /\ Turn([InTerm(t) EXCEPT
                         !.log = Front(lead[t], s), !.commit = s,
                         !.applied = s, !.persisted = s], s + 1,
                    [snap |-> s, term |-> m, first |-> f, last |-> n, from |-> t])
            /\ breaches' = IF s = core.commit \/ StartsWith(core.log, Front(lead[t], s))
                           THEN breaches \cup {"again"} ELSE breaches
            /\ acked' \in ReplacedBy(lead[t])

\* This node won the election of its term and appends an entry of its own.
BecomeLeader ==
    LET t == core.term IN
    /\ t \in mine /\ core.vote = Self /\ core.role = "follower"
    /\ StartsWith(lead[t], core.log) /\ Len(lead[t]) > Len(core.log)
    /\ \A i \in Len(core.log) + 1 .. Len(lead[t]) : lead[t][i] = t
    /\ IF core.persisted = Len(core.log)
       THEN /\ Turn([core EXCEPT !.role = "leader", !.log = Append(core.log, t)],
                    Len(core.log) + 1, NoSnapshot)
            /\ UNCHANGED <<acked, breaches>>
       ELSE Abort

Propose ==
    /\ core.role = "leader" /\ Len(core.log) < Len(lead[core.term])
    /\ Turn([core EXCEPT !.log = Append(core.log, core.term)], Len(core.log) + 1, NoSnapshot)
    /\ UNCHANGED <<acked, breaches>>

\* What this node, as a leader, may count as committed once i entries are persisted.
LeaderCommits(i) ==
    {j \in core.commit + 1 .. Smaller(i, cmt[core.term]) : core.log[j] = core.term}

\* A follower's response completes a quorum.
Quorum(i) ==
    /\ core.role = "leader" /\ i \in LeaderCommits(core.persisted)
    /\ QuietTurn([core EXCEPT !.commit = i])

-----------------------------------------------------------------------------
(* on_ready, step by step; every step writes at most one key. *)

At(p) == mode = "up" /\ todo # <<>> /\ Head(todo) = p
Then(ps) == todo' = ps \o Tail(todo)

\* apply_snapshot: an error is dropped by the wrapper in raft/storage.rs.
ApplySnapshot ==
    /\ At("snapshot")
    /\ IF FirstIndex > rd.snap
       THEN Then(<<>>) /\ UNCHANGED meta
       ELSE /\ meta' = [index |-> rd.snap, term |-> rd.term]
            /\ Then(<<"importEntry", "importFirst", "importHard", "importLast", "adopt">>)
    /\ UNCHANGED <<history, disk, core, prev, rd, mode, acked, handled, breaches, crashes>>

\* write_all: one key after the other, the entries in any order.
Import(d) ==
    /\ disk' = d
    /\ UNCHANGED <<history, meta, core, prev, mode, acked, handled, breaches, crashes>>

ImportEntry ==
    /\ At("importEntry")
    /\ \E i \in rd.left :
           /\ Import([disk EXCEPT !.log[i] = lead[rd.from][i]])
           /\ rd' = [rd EXCEPT !.left = rd.left \ {i}]
           /\ Then(Phase(rd.left # {i}, "importEntry"))

ImportFirst ==
    /\ At("importFirst")
    /\ Import([disk EXCEPT !.first = IF rd.first = Unset THEN disk.first ELSE rd.first])
    /\ Then(<<>>) /\ UNCHANGED rd

ImportHard ==
    /\ At("importHard")
    /\ Import([disk EXCEPT !.term = rd.term, !.vote = 2, !.commit = rd.snap])
    /\ Then(<<>>) /\ UNCHANGED rd

LastImported == rd.last
ImportLast ==
    /\ At("importLast")
    /\ Import([disk EXCEPT !.last = LastImported])
    /\ Then(<<>>) /\ UNCHANGED rd

\* The rest of write_all, the users' keys, and then apply_snapshot's own hard state.
AdoptSnapshot ==
    /\ At("adopt")
    /\ disk' = [disk EXCEPT !.term = Larger(disk.term, meta.term), !.commit = meta.index]
    /\ handled' = handled \cup {<<i, lead[rd.from][i]>> : i \in 1 .. meta.index}
    /\ breaches' = IF rd.last > rd.snap THEN breaches \cup {"ahead"} ELSE breaches
    /\ Then(<<>>)
    /\ UNCHANGED <<history, meta, core, prev, rd, mode, acked, crashes>>

\* append: the two assertions, then one entry and last_index at a time.
Discontinuous ==
    rd.next = core.persisted + 1 /\ (FirstIndex > rd.next \/ LastIndex + 1 < rd.next)

AppendEntry ==
    /\ At("append") /\ ~Discontinuous
    /\ disk' = [disk EXCEPT !.log[rd.next] = core.log[rd.next]]
    /\ todo' = <<"last">> \o todo
    /\ UNCHANGED <<history, meta, core, prev, rd, mode, acked, handled, breaches, crashes>>

BadSaveLastGrows(i) == [disk EXCEPT !.last = Larger(LastIndex, i)]
BadSaveLastAhead(i) == [disk EXCEPT !.last = i + 1]
SaveLast(i) == [disk EXCEPT !.last = i]
AppendLast ==
    /\ At("last")
    /\ disk' = SaveLast(rd.next)
    /\ rd' = [rd EXCEPT !.next = rd.next + 1]
    /\ todo' = IF rd.next = Len(core.log) THEN Tail(Tail(todo)) ELSE Tail(todo)
    /\ UNCHANGED <<history, meta, core, prev, mode, acked, handled, breaches, crashes>>

\* handle_committed_entries: route the data, commmit_index, and every so often
\* a snapshot.  route decodes the wrong bytes of a KV command and unwraps, and
\* commmit_index reads the entry again and unwraps it.
BadCommitting == core.applied + 2
Committing == core.applied + 1
IsExtra == rd.extra # 0 /\ core.applied + 1 = rd.upto
Routed == IF IsExtra THEN rd.extra ELSE disk.log[Committing]
Unroutable == Routed \in KvTerms \/ disk.log[Committing] = 0

HandleEntry ==
    /\ At("handle") /\ ~Unroutable
    /\ disk' = [disk EXCEPT !.commit = Committing, !.term = disk.log[Committing]]
    /\ core' = [core EXCEPT !.applied = Committing]
    /\ handled' = handled \cup {<<Committing, Routed>>}
    /\ breaches' = IF IsExtra THEN breaches \cup {"past"} ELSE breaches
    /\ \E snapshot \in {Snapshots, FALSE} :
           Then(Phase(snapshot, "create") \o Phase(Committing < rd.upto, "handle"))
    /\ UNCHANGED <<history, meta, prev, rd, mode, acked, crashes>>

\* create_snapshot: first_index and the snapshot take the stored hard state.
Created ==
    /\ disk' = [disk EXCEPT !.first = disk.commit]
    /\ meta' = [index |-> disk.commit, term |-> disk.term]

CreateSnapshot ==
    /\ At("create")
    /\ Created
    /\ Then(<<>>)
    /\ UNCHANGED <<history, core, prev, rd, mode, acked, handled, breaches, crashes>>

\* Storage::snapshot, when a leader finds that a follower needs compacted entries.
SnapshotForPeer ==
    /\ Snapshots /\ Idle /\ core.role = "leader" /\ FirstIndex > 1
    /\ Created
    /\ UNCHANGED <<history, core, prev, rd, todo, mode, acked, handled, breaches, crashes>>

SetHardState ==
    /\ At("hard")
    /\ disk' = [disk EXCEPT !.term = prev.term, !.vote = prev.vote, !.commit = prev.commit]
    /\ Then(<<>>)
    /\ UNCHANGED <<history, meta, core, prev, rd, mode, acked, handled, breaches, crashes>>

\* Persisted messages, the one that says that the log is stored among them.
Send ==
    /\ At("send")
    /\ acked' = IF Len(acked) > Len(core.log) THEN acked ELSE core.log
    /\ Then(<<>>)
    /\ UNCHANGED <<history, disk, meta, core, prev, rd, mode, handled, breaches, crashes>>

BadLightPhases(c) == Phase(c.commit > core.commit, "lightHard")
LightPhases(c) ==
    Phase(c.commit > core.commit, "lightHard")
    \o (IF c.applied < LastHanded(c) THEN <<"handle", "apply">> ELSE <<>>)

\* advance: the core forgets the entries it has stored and keeps only their
\* number, if the storage's term of the last one is right; after a snapshot its
\* log is what the storage says it is.  A leader may commit by what it persisted.
\* An entry handed out past the committed or the persisted ones is a panic.
Persisted ==
    LET n == Len(core.log) IN
    IF rd.fresh /\ TermOf(n) = core.log[n] THEN n ELSE core.persisted
Advanced(i) ==
    [core EXCEPT !.persisted = Persisted, !.commit = i,
                 !.log = IF rd.snap = 0 THEN core.log ELSE Stored]
Commits ==
    IF core.role = "leader" /\ Persisted > core.persisted THEN LeaderCommits(Persisted) ELSE {}

Advance ==
    /\ At("advance")
    /\ \E i \in {core.commit} \cup Commits :
           LET c == Advanced(i) IN
           IF core.applied > Deliverable(c)
           THEN mode' = "failed" /\ UNCHANGED <<core, prev, rd, todo>>
           ELSE /\ core' = c
                /\ rd' = [rd EXCEPT !.upto = LastHanded(c), !.extra = Extra(c)]
                /\ prev' = [prev EXCEPT !.commit = i]
                /\ Then(LightPhases(c))
                /\ UNCHANGED mode
    /\ UNCHANGED <<history, disk, meta, acked, handled, breaches, crashes>>

SetHardStateCommit ==
    /\ At("lightHard")
    /\ disk' = [disk EXCEPT !.commit = prev.commit]
    /\ Then(<<>>)
    /\ UNCHANGED <<history, meta, core, prev, rd, mode, acked, handled, breaches, crashes>>

\* advance_apply, which refuses what was handed out past the core's own bounds.
AdvanceApply ==
    /\ At("apply") /\ core.applied <= Deliverable(core)
    /\ Then(<<>>)
    /\ UNCHANGED <<history, disk, meta, core, prev, rd, mode, acked, handled, breaches, crashes>>

\* The panics of append, handle_committed_entries and advance_apply.
Broken ==
    \/ At("append") /\ Discontinuous
    \/ At("handle") /\ Unroutable
    \/ At("apply") /\ core.applied > Deliverable(core)

Panic ==
    /\ Broken
    /\ mode' = "failed"
    /\ UNCHANGED <<history, disk, meta, core, prev, rd, todo, acked, handled, breaches, crashes>>

-----------------------------------------------------------------------------
(* Crashes and panics, and RaftMachineStorage::new and new_node after them. *)
(* new reads snapshot_metadata back from the stored hard state.             *)

WithinAppend == At("last")
WithinImport ==
    \/ At("importEntry") /\ rd.left # 1 .. rd.last
    \/ At("importFirst") \/ At("importHard") \/ At("importLast")

Crash ==
    /\ mode \in {"up", "failed"} /\ crashes < MaxCrashes
    /\ crashes' = crashes + 1
    /\ breaches' = breaches \cup {b \in {"append"} : WithinAppend}
                             \cup {b \in {"import"} : WithinImport}
    /\ mode' = "down" /\ todo' = <<>> /\ rd' = NoReady
    /\ core' = NoCore /\ prev' = HardStateOf(NoCore)
    /\ meta' = [index |-> disk.commit, term |-> disk.term]
    /\ UNCHANGED <<history, disk, acked, handled>>

\* What RawNode::new requires of the stored committed index.
Restartable == FirstIndex <= disk.commit + 1 /\ disk.commit <= LastIndex

Start ==
    /\ mode = "down"
    /\ IF ~Restartable
       THEN mode' = "failed" /\ UNCHANGED <<core, prev>>
       ELSE /\ mode' = "up"
            /\ core' = [role |-> "follower", term |-> disk.term, vote |-> disk.vote,
                        log |-> Stored, commit |-> disk.commit,
                        applied |-> disk.commit, persisted |-> LastIndex]
            /\ prev' = HardStateOf(core')
    /\ UNCHANGED <<history, disk, meta, rd, todo, acked, handled, breaches, crashes>>

-----------------------------------------------------------------------------
Step ==
    \/ \E t \in Term, c \in Candidates \cup {0} : Vote(t, c)
    \/ \E t \in Term, p, n, known \in Index0 : MsgAppend(t, p, n, known)
    \/ \E t, m \in Term, s, n \in Index, f \in Index \cup {Unset} : MsgSnapshot(t, s, n, f, m)
    \/ BecomeLeader
    \/ Propose
    \/ \E i \in Index : Quorum(i)
    \/ SnapshotForPeer

ReadyLoop ==
    \/ ApplySnapshot \/ ImportEntry \/ ImportFirst \/ ImportHard \/ ImportLast \/ AdoptSnapshot
    \/ AppendEntry \/ AppendLast
    \/ HandleEntry \/ CreateSnapshot \/ Panic
    \/ SetHardState \/ Send \/ Advance \/ SetHardStateCommit \/ AdvanceApply

Next == Step \/ ReadyLoop \/ Crash \/ Start

Spec == Init /\ [][Next]_vars

\* The process runs on_ready to its end and is started again after a crash.
FairSpec == Spec /\ WF_vars(ReadyLoop) /\ WF_vars(Start)

-----------------------------------------------------------------------------
(* Properties. *)

\* Nothing has happened to the storage but, at most, a snapshot that brought
\* too much or was restored for nothing.
Sound == breaches \subseteq {"again", "ahead"}

\* Between two turns the storage holds the log RawNode works with, and nothing
\* that RawNode does not take for its log (append, save_last_index, write_all).
StoredLogIsTheCores == Idle => Stored = core.log

\* append's two assertions hold whenever on_ready reaches it, whatever was
\* imported, snapshotted, replaced or left half-written before (append).
AppendFollowsStored == At("append") => ~Discontinuous

\* No order of messages, terms and crashes makes an assertion or an unwrap of
\* the storage, a check of RawNode::new or one of advance_apply fail, unless
\* the storage has first broken one of its contracts; route's unwrap of a KV
\* command is the one other panic (append, commmit_index, on_ready).
NeverFails ==
    mode = "failed" =>
        breaches # {} \/ (todo # <<>> /\ Head(todo) = "handle" /\ Routed \in KvTerms)

\* Entries this node reported as stored are in its log, whatever happened
\* since, until a leader replaces them (on_ready's order, append).
AckedIsStored ==
    "again" \notin breaches =>
        LastIndex >= Len(acked) /\ \A i \in 1 .. Len(acked) : disk.log[i] = acked[i]

\* Every stored log, also the one a crash leaves behind, is one that a leader
\* had, so the node's answers about it are true (append, save_last_index).
StoredLogIsALeaders ==
    Sound /\ (mode = "down" \/ Idle) => \E t \in Term : StartsWith(lead[t], Stored)

\* What the stored hard state calls committed is what the cluster committed.
StoredCommitIsCommitted ==
    Sound => \E t \in Term :
        disk.commit <= cmt[t] /\ \A i \in 1 .. disk.commit : disk.log[i] = lead[t][i]

\* The entries the state machine was given are those the cluster committed.
HandledIsCommitted == \A h \in handled : \E t \in Term :
    h[1] <= cmt[t] /\ lead[t][h[1]] = h[2]

\* They are, until entries() hands out one that is not (handle_committed_entries).
HandledIsCommittedIfSound == Sound => HandledIsCommitted

\* What RawNode knows to be committed and stored and has not handed out gets
\* handled, unless the node goes down; what a restart takes for applied is not
\* (machine.rs:334).
CommittedIsHandled == \A i \in Index :
    (mode = "up" /\ core.applied < i /\ i <= Deliverable(core))
        ~> (mode # "up" \/ \E h \in handled : h[1] = i)

=============================================================================

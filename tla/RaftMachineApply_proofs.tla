---------------------- MODULE RaftMachineApply_proofs ----------------------
(***************************************************************************)
(* What TLAPS proves of RaftMachineApply for every set of nodes and calls, *)
(* every channel capacity and any number of elections and crashes.         *)
(***************************************************************************)
EXTENDS RaftMachineApply, TLAPS

USE ConstantsAssumption

-----------------------------------------------------------------------------
(* Types. *)

\* Dropping senders leaves every sender in one of its three states, the dropped
\* ones no longer open.
LEMMA DroppedType ==
    ASSUME TypeOK, NEW S
    PROVE  /\ Dropped(S) \in [Requests -> {"open", "success", "dropped"}]
           /\ \A r \in S \cap Requests : Dropped(S)[r] # "open"
           /\ \A r \in Requests : slot[r] # "open" => Dropped(S)[r] # "open"
BY DEF TypeOK, Dropped

Progress == {"idle", "sending", "waiting", "ok", "timeout", "cut"}
CallRecord == [st : Progress, node : Nodes \cup {NoNode}, kind : Kind]

\* A call that moves on stays a call.
LEMMA InStateType ==
    ASSUME TypeOK, NEW r \in Requests, NEW s \in Progress, InState(r, s)
    PROVE  call' \in [Requests -> CallRecord]
<1>1. call \in [Requests -> CallRecord]
  BY DEF TypeOK, CallRecord, Progress
<1>2. [call[r] EXCEPT !.st = s] \in CallRecord
  BY <1>1 DEF CallRecord
<1>3. call' = [call EXCEPT ![r] = [call[r] EXCEPT !.st = s]]
  BY DEF InState
<1> QED BY <1>1, <1>2, <1>3

\* The parts of TypeOK that the steps below change one at a time.
LEMMA Types ==
    ASSUME TypeOK
    PROVE  /\ chan \in [Nodes -> Seq(Requests)] /\ tail \in [Nodes -> Seq(Entry)]
           /\ resp \in [Nodes -> SUBSET Parked] /\ mail \subseteq [to : Nodes, entry : Entry]
           /\ slot \in [Requests -> {"open", "success", "dropped"}]
           /\ log \in Seq(Entry) /\ seqnum \in [Nodes -> Nat]
           /\ \A n \in Nodes : Len(chan[n]) <= Capacity
BY DEF TypeOK

\* What answers a call or drops its sender types slot.
LEMMA SuccessType ==
    ASSUME TypeOK, NEW S
    PROVE  [r \in Requests |-> IF r \in S THEN "success" ELSE slot[r]]
               \in [Requests -> {"open", "success", "dropped"}]
BY DEF TypeOK

\* What a leader appends, it can append.
LEMMA TailType ==
    ASSUME TypeOK, NEW n \in Nodes, NEW e \in Entry,
           UNCHANGED tail \/ \E a \in Appended(n, e) : tail' = [tail EXCEPT ![n] = Append(@, a)]
    PROVE  tail' \in [Nodes -> Seq(Entry)]
<1>1. Appended(n, e) \subseteq Entry
  BY DEF Appended, Entry
<1>2. tail \in [Nodes -> Seq(Entry)] BY Types
<1>3. ASSUME NEW a \in Entry, NEW T, T = Entry, NEW q \in [Nodes -> Seq(T)]
      PROVE  [q EXCEPT ![n] = Append(@, a)] \in [Nodes -> Seq(T)]
  BY <1>3
<1> QED BY <1>1, <1>2, <1>3

\* Appending to, and taking from, one node's queue.
LEMMA QueueType ==
    ASSUME NEW T, NEW q \in [Nodes -> Seq(T)], NEW n \in Nodes
    PROVE  /\ \A x \in T : [q EXCEPT ![n] = Append(@, x)] \in [Nodes -> Seq(T)]
           /\ q[n] # <<>> => /\ [q EXCEPT ![n] = Tail(@)] \in [Nodes -> Seq(T)]
                             /\ Head(q[n]) \in T
                             /\ Len(Tail(q[n])) <= Len(q[n])
OBVIOUS

\* Every variable keeps its type; in particular no channel holds more messages
\* than its capacity, however many calls wait to send (mpsc::channel).
THEOREM CallTypeCorrect == Spec => []TypeOK
<1>1. Init => TypeOK
  BY DEF Init, TypeOK, Kind, Entry
<1>2. TypeOK /\ [Next]_vars => TypeOK'
  <2> SUFFICES ASSUME TypeOK, [Next]_vars PROVE TypeOK' OBVIOUS
  <2>1. ASSUME NEW r \in Requests, NEW n \in Nodes, NEW k \in Kinds, Call(r, n, k)
        PROVE  TypeOK'
    BY <2>1 DEF Call, TypeOK, queues, raft, bounds
  <2>2. ASSUME NEW r \in Requests, Send(r) PROVE TypeOK'
    <3>1. call' \in [Requests -> CallRecord] /\ UNCHANGED <<seqnum, resp, machine, raft, bounds>>
      BY <2>2, InStateType DEF Send, Progress
    <3>2. slot' \in [Requests -> {"open", "success", "dropped"}]
      BY <2>2, DroppedType DEF Send, TypeOK
    <3>3. chan' \in [Nodes -> Seq(Requests)] /\ \A n \in Nodes : Len(chan'[n]) <= Capacity
      <4>1. CASE UNCHANGED chan
        BY <4>1 DEF TypeOK
      <4>2. CASE ~UNCHANGED chan
        <5> DEFINE n == call[r].node
        <5>2. chan \in [Nodes -> Seq(Requests)] /\ \A m \in Nodes : Len(chan[m]) <= Capacity
          BY DEF TypeOK
        <5>0. Room(n) /\ chan' = [chan EXCEPT ![n] = Append(@, r)]
          BY <2>2, <4>2 DEF Send
        <5>1. Room(n) /\ chan' = [chan EXCEPT ![n] = Append(@, r)] /\ n \in Nodes
          BY <5>0, <5>2, <4>2
        <5> HIDE DEF n
        <5>3. chan' \in [Nodes -> Seq(Requests)]
          BY <5>1, <5>2, QueueType
        <5>4. ASSUME NEW m \in Nodes PROVE Len(chan'[m]) <= Capacity
          BY <5>1, <5>2 DEF Room
        <5> QED BY <5>3, <5>4
      <4> QED BY <4>1, <4>2
    <3> QED BY <3>1, <3>2, <3>3 DEF TypeOK, raft, bounds, CallRecord, Progress
  <2>3. ASSUME NEW r \in Requests, Return(r) \/ Timeout(r) PROVE TypeOK'
    <3>1. call' \in [Requests -> CallRecord]
          /\ UNCHANGED <<slot, queues, machine, raft, bounds>>
      BY <2>3, InStateType DEF Return, Timeout, Progress
    <3> QED BY <3>1 DEF TypeOK, queues, raft, bounds, CallRecord, Progress
  <2>4. ASSUME NEW n \in Nodes, TakeProposal(n) PROVE TypeOK'
    <3> DEFINE r == Head(chan[n])
    <3>1. /\ chan[n] # <<>> /\ chan' = [chan EXCEPT ![n] = Tail(@)]
          /\ seqnum' = [seqnum EXCEPT ![n] = seqnum[n] + 1]
          /\ UNCHANGED <<call, machine, view, leader, log, stale, applied, bounds>>
      BY <2>4 DEF TakeProposal, NextSeq
    <3>2. chan' \in [Nodes -> Seq(Requests)] /\ r \in Requests
          /\ \A m \in Nodes : Len(chan'[m]) <= Capacity
      <4>1. /\ chan \in [Nodes -> Seq(Requests)] /\ \A m \in Nodes : Len(chan[m]) <= Capacity
            /\ \A m \in Nodes : Len(chan[m]) \in Nat
        BY DEF TypeOK
      <4>2. chan' \in [Nodes -> Seq(Requests)] /\ r \in Requests
            /\ Len(Tail(chan[n])) <= Len(chan[n]) /\ Len(Tail(chan[n])) \in Nat
        BY <3>1, <4>1, QueueType
      <4> QED BY <3>1, <4>1, <4>2
    <3>3. /\ [req |-> r, seq |-> seqnum[n]] \in Entry \cap Parked
          /\ seqnum' \in [Nodes -> Nat]
      BY <3>1, <3>2, SMTT(20) DEF TypeOK, Entry, Parked
    <3>e. PICK e \in Entry \cap Parked : e = [req |-> r, seq |-> seqnum[n]]
      BY <3>3
    <3>4. slot' \in [Requests -> {"open", "success", "dropped"}]
      BY <2>4, DroppedType DEF TakeProposal
    <3>5. resp' \in [Nodes -> SUBSET Parked]
      <4>1. resp' = resp \/ resp' = [resp EXCEPT ![n] = {p \in @ : p.seq # e.seq} \cup {e}]
        BY <2>4, <3>e DEF TakeProposal
      <4>2. resp \in [Nodes -> SUBSET Parked] /\ {p \in resp[n] : p.seq # e.seq} \cup {e} \in SUBSET Parked
        BY Types
      <4> QED BY <4>1, <4>2
    <3>6. tail' \in [Nodes -> Seq(Entry)]
      <4>1. UNCHANGED tail \/ \E a \in Appended(n, e) : tail' = [tail EXCEPT ![n] = Append(@, a)]
        BY <2>4, <3>e DEF TakeProposal
      <4> QED BY <4>1, TailType
    <3>7. mail' \subseteq [to : Nodes, entry : Entry]
      <4>1. \/ UNCHANGED mail
            \/ /\ view[n] \in Nodes
               /\ mail' = mail \cup {[to |-> view[n], entry |-> [req |-> r, seq |-> seqnum[n]]]}
        BY <2>4 DEF TakeProposal
      <4> QED BY <4>1, <3>e, Types
    <3> QED BY <3>1, <3>2, <3>3, <3>4, <3>5, <3>6, <3>7 DEF TypeOK, bounds
  <2>5. ASSUME NEW n \in Nodes, TakeStep(n) PROVE TypeOK'
    <3> DEFINE r == Head(chan[n])
    <3>1. /\ chan[n] # <<>> /\ chan' = [chan EXCEPT ![n] = Tail(@)]
          /\ slot' \in {[slot EXCEPT ![r] = "success"], Dropped({r})}
          /\ UNCHANGED <<call, seqnum, resp, machine, raft, bounds>>
      BY <2>5 DEF TakeStep
    <3>2. chan' \in [Nodes -> Seq(Requests)] /\ \A m \in Nodes : Len(chan'[m]) <= Capacity
      <4>1. /\ chan \in [Nodes -> Seq(Requests)] /\ \A m \in Nodes : Len(chan[m]) <= Capacity
            /\ \A m \in Nodes : Len(chan[m]) \in Nat
        BY DEF TypeOK
      <4>2. chan' \in [Nodes -> Seq(Requests)]
            /\ Len(Tail(chan[n])) <= Len(chan[n]) /\ Len(Tail(chan[n])) \in Nat
        BY <3>1, <4>1, QueueType
      <4> QED BY <3>1, <4>1, <4>2
    <3>3. slot' \in [Requests -> {"open", "success", "dropped"}]
      <4>1. slot' = [slot EXCEPT ![r] = "success"] \/ slot' = Dropped({r})
        BY <3>1
      <4> HIDE DEF r
      <4> QED BY <4>1, Types, DroppedType
    <3> QED BY <3>1, <3>2, <3>3 DEF TypeOK, raft, bounds
  <2>6. ASSUME NEW n \in Nodes, Apply(n) PROVE TypeOK'
    <3>1. /\ applied[n] < Len(log)
          /\ UNCHANGED <<call, seqnum, view, leader, log, tail, stale, mail, bounds>>
          /\ machine' \in {machine, [machine EXCEPT ![n] = "failed"]}
          /\ chan' \in {chan, [chan EXCEPT ![n] = <<>>]}
          /\ applied' \in {applied, [applied EXCEPT ![n] = @ + 1]}
      BY <2>6 DEF Apply
    <3>2. slot' \in [Requests -> {"open", "success", "dropped"}]
      <4>1. \E S : slot' \in {Dropped(S), [r \in Requests |-> IF r \in S THEN "success" ELSE slot[r]]}
        BY <2>6 DEF Apply
      <4> QED BY <4>1, DroppedType, SuccessType
    <3>3. resp' \in [Nodes -> SUBSET Parked]
      <4>1. resp' \in {[resp EXCEPT ![n] = {}], [resp EXCEPT ![n] = @ \ Answered(n, log[applied[n] + 1])]}
        BY <2>6 DEF Apply
      <4>2. resp \in [Nodes -> SUBSET Parked] /\ {} \in SUBSET Parked
            /\ resp[n] \ Answered(n, log[applied[n] + 1]) \in SUBSET Parked
        BY Types
      <4> QED BY <4>1, <4>2
    <3>4. chan' \in [Nodes -> Seq(Requests)] /\ \A m \in Nodes : Len(chan'[m]) <= Capacity
      <4>1. Len(<<>>) = 0 /\ <<>> \in Seq(Requests)
        OBVIOUS
      <4>2. chan' = chan \/ chan' = [chan EXCEPT ![n] = <<>>]
        BY <3>1
      <4>3. CASE chan' = [chan EXCEPT ![n] = <<>>]
        <5>1. chan' \in [Nodes -> Seq(Requests)]
          BY <4>1, <4>3, Types
        <5>2. ASSUME NEW m \in Nodes PROVE Len(chan'[m]) <= Capacity
          BY <4>1, <4>3, Types
        <5> QED BY <5>1, <5>2
      <4> QED BY <4>2, <4>3, Types
    <3>5. applied' \in [Nodes -> 0 .. Len(log)] /\ UNCHANGED log
      <4>1. applied \in [Nodes -> 0 .. Len(log)] /\ Len(log) \in Nat
        BY DEF TypeOK
      <4> QED BY <3>1, <4>1
    <3>6. machine' \in [Nodes -> {"absent", "running", "failed", "down"}]
      BY <3>1 DEF TypeOK
    <3> QED BY <3>1, <3>2, <3>3, <3>4, <3>5, <3>6 DEF TypeOK, bounds
  <2>7. ASSUME NEW n \in Nodes, Elect(n) PROVE TypeOK'
    <3>1. /\ leader' = n /\ view' = [view EXCEPT ![n] = n] /\ stale' = stale \ {n}
          /\ elections < MaxElections /\ elections' = elections + 1
          /\ UNCHANGED <<calls, queues, machine, log, mail, applied, crashes>>
      BY <2>7 DEF Elect
    <3>2. tail' \in [Nodes -> Seq(Entry)]
      <4>1. PICK m \in Nodes : \E k \in 0 .. Len(tail[m]) :
                tail' = [tail EXCEPT ![n] = SubSeq(tail[m], 1, k)]
        BY <2>7 DEF Elect
      <4>2. tail \in [Nodes -> Seq(Entry)]
        BY DEF TypeOK
      <4>3. \A k \in 0 .. Len(tail[m]) : SubSeq(tail[m], 1, k) \in Seq(Entry)
        BY <4>2
      <4> QED BY <4>1, <4>2, <4>3
    <3>3. elections' \in 0 .. MaxElections /\ view' \in [Nodes -> Nodes \cup {NoNode}]
      BY <3>1 DEF TypeOK
    <3>4. stale' \subseteq Nodes
      BY <3>1 DEF TypeOK
    <3> QED BY <3>1, <3>2, <3>3, <3>4 DEF TypeOK, calls, queues
  <2>8. ASSUME NEW n \in Nodes, NEW m \in Nodes \cup {NoNode}, Learn(n, m) PROVE TypeOK'
    BY <2>8 DEF Learn, Serving, TypeOK, calls, queues, bounds
  <2>9. CASE Commit
    <3>1. leader \in Nodes /\ tail[leader] # <<>>
          /\ UNCHANGED <<calls, queues, machine, view, leader, mail, applied, bounds>>
      BY <2>9 DEF Commit, TypeOK
    <3> DEFINE e == Head(tail[leader])
               With == {n \in Nodes : tail[n] # <<>> /\ Head(tail[n]) = e}
    <3>2. /\ log' = Append(log, e)
          /\ tail' = [n \in Nodes |-> IF n \in With THEN Tail(tail[n]) ELSE tail[n]]
          /\ stale' = stale \cup (Nodes \ With)
      BY <2>9 DEF Commit
    <3>3. tail \in [Nodes -> Seq(Entry)] /\ log \in Seq(Entry) /\ applied \in [Nodes -> 0 .. Len(log)]
      BY DEF TypeOK
    <3>4. log' \in Seq(Entry) /\ Len(log') = Len(log) + 1 /\ Len(log) \in Nat
      BY <3>1, <3>2, <3>3
    <3>5. applied' \in [Nodes -> 0 .. Len(log')]
      BY <3>1, <3>3, <3>4
    <3>6. tail' \in [Nodes -> Seq(Entry)]
      BY <3>2, <3>3
    <3> QED BY <3>1, <3>2, <3>4, <3>5, <3>6 DEF TypeOK, calls, queues, bounds
  <2>10. ASSUME NEW p \in mail, Deliver(p) PROVE TypeOK'
    <3>1. p.to \in Nodes /\ p.entry \in Entry /\ p \in [to : Nodes, entry : Entry]
          /\ UNCHANGED <<calls, queues, machine, view, leader, log, stale, applied, bounds>>
      BY <2>10 DEF Deliver, TypeOK
    <3>2. tail' \in [Nodes -> Seq(Entry)]
      <4>1. UNCHANGED tail \/ \E a \in Appended(p.to, p.entry) :
                                  tail' = [tail EXCEPT ![p.to] = Append(@, a)]
        BY <2>10 DEF Deliver
      <4> QED BY <3>1, <4>1, TailType
    <3>3. mail' \subseteq [to : Nodes, entry : Entry]
      <4>1. \/ mail' = mail \ {p}
            \/ view[p.to] \in Nodes /\ mail' = (mail \ {p}) \cup {[p EXCEPT !.to = view[p.to]]}
        BY <2>10 DEF Deliver
      <4>2. \A m \in Nodes : [p EXCEPT !.to = m] \in [to : Nodes, entry : Entry]
        BY <3>1
      <4> QED BY <4>1, <4>2, Types
    <3> QED BY <3>1, <3>2, <3>3 DEF TypeOK, calls, queues, bounds
  <2>11. ASSUME NEW n \in Nodes, Crash(n) PROVE TypeOK'
    <3>1. /\ crashes < MaxCrashes /\ crashes' = crashes + 1
          /\ machine' = [machine EXCEPT ![n] = "down"]
          /\ chan' = [chan EXCEPT ![n] = <<>>] /\ resp' = [resp EXCEPT ![n] = {}]
          /\ view' = [view EXCEPT ![n] = NoNode]
          /\ UNCHANGED <<seqnum, leader, log, tail, stale, mail, applied, elections>>
      BY <2>11 DEF Crash
    <3>2. slot' \in [Requests -> {"open", "success", "dropped"}]
      BY <2>11, DroppedType DEF Crash
    <3>3. call' \in [Requests -> CallRecord]
      <4>1. \A r \in Requests : call[r] \in CallRecord
        BY DEF TypeOK, CallRecord, Progress
      <4>2. \A c \in CallRecord : [c EXCEPT !.st = "cut"] \in CallRecord
        BY DEF CallRecord, Progress
      <4>3. \A r \in Requests : [call[r] EXCEPT !.st = "cut"] \in CallRecord
        BY <4>1, <4>2
      <4> QED BY <2>11, <4>1, <4>3 DEF Crash
    <3>4. chan' \in [Nodes -> Seq(Requests)] /\ \A m \in Nodes : Len(chan'[m]) <= Capacity
      <4>1. Len(<<>>) = 0 /\ <<>> \in Seq(Requests)
        OBVIOUS
      <4> QED BY <3>1, <4>1, Types
    <3> QED BY <3>1, <3>2, <3>3, <3>4 DEF TypeOK, CallRecord, Progress
  <2>12. ASSUME NEW n \in Nodes, Restart(n) PROVE TypeOK'
    BY <2>12 DEF Restart, TypeOK, calls, raft, bounds
  <2>13. CASE UNCHANGED vars
    BY <2>13 DEF vars, TypeOK, calls, queues, raft, bounds
  <2> QED BY <2>1, <2>2, <2>3, <2>4, <2>5, <2>6, <2>7, <2>8, <2>9, <2>10, <2>11, <2>12, <2>13
           DEF Next, Turn
<1> QED BY <1>1, <1>2, PTL DEF Spec

-----------------------------------------------------------------------------
(* The inductive invariant of AppliedIsAnswered. *)

Items(s) == {s[i] : i \in 1 .. Len(s)}

\* The entries that a call may still be waiting for, other than committed ones.
Floating == (UNION {Items(tail[n]) : n \in Nodes}) \cup {p.entry : p \in mail}

\* The calls of which an entry exists.
Proposed == {e.req : e \in Items(log) \cup Floating}

\* A call that still waits for such an entry is parked under its number at the
\* node it was made to.
Owned == {e \in Entry : e.req \in Requests /\ slot[e.req] = "open"
                            => e \in resp[call[e.req].node]}

\* What nobody applied yet is owned.
OwnedInv ==
    /\ Floating \subseteq Owned
    /\ \A n \in Nodes : \A i \in 1 .. Len(log) :
          log[i].req \in Requests /\ call[log[i].req].node = n /\ i > applied[n]
              => log[i] \in Owned

NotSent == {r \in Requests : call[r].st \in {"idle", "sending"}}

\* A call has no entry before its message was taken off the channel, where it is once.
QueueInv ==
    /\ NotSent \cap Proposed = {}
    /\ \A n \in Nodes : \A r \in Items(chan[n]) : call[r].node = n /\ r \notin NotSent \cup Proposed
    /\ \A n \in Nodes : \A i, j \in 1 .. Len(chan[n]) : chan[n][i] = chan[n][j] => i = j

AnswerInv == OwnedInv /\ QueueInv /\ AppliedIsAnswered

-----------------------------------------------------------------------------
(* Lemmas about queues and entries. *)

LEMMA ItemsOfAppend ==
    ASSUME NEW T, NEW s \in Seq(T), NEW x \in T
    PROVE  Items(Append(s, x)) = Items(s) \cup {x}
<1>1. Append(s, x) \in Seq(T) /\ Len(Append(s, x)) = Len(s) + 1 /\ Len(s) \in Nat
  OBVIOUS
<1>2. \A i \in 1 .. Len(s) : Append(s, x)[i] = s[i]
  OBVIOUS
<1>3. Append(s, x)[Len(s) + 1] = x
  OBVIOUS
<1>4. 1 .. Len(s) + 1 = (1 .. Len(s)) \cup {Len(s) + 1}
  BY <1>1
<1> QED BY <1>1, <1>2, <1>3, <1>4 DEF Items

LEMMA ItemsOfTail ==
    ASSUME NEW T, NEW s \in Seq(T), s # <<>>
    PROVE  /\ Items(Tail(s)) \subseteq Items(s)
           /\ Head(s) \in Items(s)
           /\ (\A i, j \in 1 .. Len(s) : s[i] = s[j] => i = j) =>
                  /\ Head(s) \notin Items(Tail(s))
                  /\ \A i, j \in 1 .. Len(Tail(s)) : Tail(s)[i] = Tail(s)[j] => i = j
<1>1. /\ Len(s) \in Nat \ {0} /\ Len(Tail(s)) = Len(s) - 1 /\ Head(s) = s[1]
      /\ \A i \in 1 .. Len(s) - 1 : Tail(s)[i] = s[i + 1]
  OBVIOUS
<1>2. \A i \in 1 .. Len(s) - 1 : i + 1 \in 1 .. Len(s) /\ i + 1 # 1
  BY <1>1
<1>3. 1 \in 1 .. Len(s)
  BY <1>1
<1>4. Items(Tail(s)) \subseteq Items(s) /\ Head(s) \in Items(s)
  BY <1>1, <1>2, <1>3 DEF Items
<1>5. ASSUME \A i, j \in 1 .. Len(s) : s[i] = s[j] => i = j
      PROVE  /\ Head(s) \notin Items(Tail(s))
             /\ \A i, j \in 1 .. Len(Tail(s)) : Tail(s)[i] = Tail(s)[j] => i = j
  <2>1. Head(s) \notin Items(Tail(s))
    BY <1>1, <1>2, <1>3, <1>5 DEF Items
  <2>2. ASSUME NEW i \in 1 .. Len(Tail(s)), NEW j \in 1 .. Len(Tail(s)), Tail(s)[i] = Tail(s)[j]
        PROVE  i = j
    <3>1. s[i + 1] = s[j + 1] /\ i + 1 \in 1 .. Len(s) /\ j + 1 \in 1 .. Len(s)
      BY <1>1, <1>2, <2>2
    <3>2. i + 1 = j + 1 BY <1>5, <3>1
    <3> QED BY <3>2
  <2> QED BY <2>1, <2>2
<1> QED BY <1>4, <1>5

LEMMA ItemsOfSubSeq ==
    ASSUME NEW T, NEW s \in Seq(T), NEW k \in 0 .. Len(s)
    PROVE  Items(SubSeq(s, 1, k)) \subseteq Items(s)
<1>1. Len(SubSeq(s, 1, k)) = k /\ \A i \in 1 .. k : SubSeq(s, 1, k)[i] = s[i]
  OBVIOUS
<1> QED BY <1>1 DEF Items


-----------------------------------------------------------------------------
(* What a step must keep. *)

\* A sender never opens again; a call with an entry stays at its node; nothing
\* parked is forgotten while its call waits; no unowned entry comes into being.
LEMMA KeepsOwned ==
    ASSUME TypeOK, TypeOK', OwnedInv, AppliedIsAnswered, UNCHANGED <<log, applied>>,
           \A r \in Requests : slot'[r] = "open" => slot[r] = "open",
           \A r \in Requests \cap Proposed : call'[r].node = call[r].node,
           \A e \in Entry : e.req \in Requests /\ slot'[e.req] = "open"
                                /\ e \in resp[call[e.req].node] => e \in resp'[call[e.req].node],
           Floating' \subseteq Floating \cup Owned'
    PROVE  OwnedInv' /\ AppliedIsAnswered'
<1>1. \A i \in 1 .. Len(log) : log[i] \in Entry /\ log[i].req \in Proposed
  <2>1. log \in Seq(Entry) BY Types
  <2> QED BY <2>1 DEF Proposed, Items
<1>2. \A e \in Floating : e.req \in Proposed
  BY DEF Proposed
<1>3. ASSUME NEW e \in Owned, e.req \in Proposed PROVE e \in Owned'
  BY <1>3 DEF Owned
<1>4. Floating' \subseteq Owned'
  BY <1>2, <1>3 DEF OwnedInv
<1>5. ASSUME NEW n \in Nodes, NEW i \in 1 .. Len(log),
             log[i].req \in Requests, call'[log[i].req].node = n, i > applied[n]
      PROVE  log[i] \in Owned'
  <2>1. log[i] \in Owned
    BY <1>1, <1>5 DEF OwnedInv
  <2> QED BY <1>1, <1>3, <2>1
<1>6. ASSUME NEW n \in Nodes, NEW i \in 1 .. applied[n],
             log[i].req # NoRequest, call'[log[i].req].node = n
      PROVE  slot'[log[i].req] # "open"
  <2>1. i \in 1 .. Len(log)
    BY DEF TypeOK
  <2>2. log[i].req \in Requests
    BY <1>1, <1>6, <2>1 DEF Entry
  <2>3. slot[log[i].req] # "open"
    BY <1>1, <1>6, <2>1, <2>2 DEF AppliedIsAnswered
  <2> QED BY <2>2, <2>3
<1>7. OwnedInv'
  BY <1>4, <1>5 DEF OwnedInv
<1>8. AppliedIsAnswered'
  BY <1>6 DEF AppliedIsAnswered
<1> QED BY <1>7, <1>8

\* Calls leave channels from the front or with the channel; only a call that was
\* on a channel and left it gets an entry.
LEMMA KeepsQueues ==
    ASSUME TypeOK, QueueInv,
           \A n \in Nodes :
               \/ chan'[n] = chan[n]
               \/ chan'[n] = <<>>
               \/ chan[n] # <<>> /\ chan'[n] = Tail(chan[n]),
           NotSent' \subseteq NotSent,
           \A r \in Requests \ NotSent : call'[r].node = call[r].node,
           \A r \in Proposed' \ Proposed : r \notin NotSent /\ \A n \in Nodes : r \notin Items(chan'[n])
    PROVE  QueueInv'
<1>1. ASSUME NEW n \in Nodes
      PROVE  /\ Items(chan'[n]) \subseteq Items(chan[n])
             /\ \A i, j \in 1 .. Len(chan'[n]) : chan'[n][i] = chan'[n][j] => i = j
  <2>1. CASE chan'[n] = chan[n]
    BY <2>1 DEF QueueInv
  <2>2. CASE chan'[n] = <<>>
    BY <2>2 DEF Items
  <2>3. CASE chan[n] # <<>> /\ chan'[n] = Tail(chan[n])
    <3>1. chan[n] \in Seq(Requests)
      BY Types
    <3>2. \A i, j \in 1 .. Len(chan[n]) : chan[n][i] = chan[n][j] => i = j
      BY DEF QueueInv
    <3> QED BY <2>3, <3>1, <3>2, ItemsOfTail
  <2> QED BY <2>1, <2>2, <2>3
<1>2. NotSent' \cap Proposed' = {}
  BY DEF QueueInv
<1>3. ASSUME NEW n \in Nodes, NEW r \in Items(chan'[n])
      PROVE  call'[r].node = n /\ r \notin NotSent' \cup Proposed'
  <2>1. r \in Items(chan[n]) BY <1>1
  <2>2. r \in Requests
    <3>1. chan[n] \in Seq(Requests) BY Types
    <3> QED BY <2>1, <3>1 DEF Items
  <2>3. call[r].node = n /\ r \notin NotSent \cup Proposed
    BY <2>1 DEF QueueInv
  <2> QED BY <1>3, <2>2, <2>3
<1> QED BY <1>1, <1>2, <1>3 DEF QueueInv

-----------------------------------------------------------------------------
(* The induction. *)

\* The facts about elements that the steps below need.
LEMMA ElementTypes ==
    ASSUME TypeOK
    PROVE  /\ \A i \in 1 .. Len(log) : log[i] \in Entry
           /\ Floating \subseteq Entry
           /\ \A n \in Nodes : chan[n] \in Seq(Requests) /\ Items(chan[n]) \subseteq Requests
<1>1. /\ log \in Seq(Entry) /\ tail \in [Nodes -> Seq(Entry)] /\ chan \in [Nodes -> Seq(Requests)]
      /\ mail \subseteq [to : Nodes, entry : Entry]
  BY Types
<1>2. \A n \in Nodes : Items(tail[n]) \subseteq Entry
  BY <1>1 DEF Items
<1>3. \A n \in Nodes : Items(chan[n]) \subseteq Requests
  BY <1>1 DEF Items
<1>4. ASSUME NEW p \in mail PROVE p.entry \in Entry
  <2>1. p \in [to : Nodes, entry : Entry]
    BY <1>1
  <2> QED BY <2>1
<1>5. ASSUME NEW e \in Floating PROVE e \in Entry
  <2>1. (\E n \in Nodes : e \in Items(tail[n])) \/ \E p \in mail : e = p.entry
    BY DEF Floating
  <2> QED BY <1>2, <1>4, <2>1
<1>6. \A i \in 1 .. Len(log) : log[i] \in Entry
  BY <1>1
<1> QED BY <1>1, <1>3, <1>5, <1>6

\* The same when neither channels nor entries change.
LEMMA KeepsSameQueues ==
    ASSUME TypeOK, QueueInv, UNCHANGED chan, Proposed' = Proposed, NotSent' \subseteq NotSent,
           \A r \in Requests \ NotSent : call'[r].node = call[r].node
    PROVE  QueueInv'
<1>1. \A n \in Nodes : chan'[n] = chan[n]
  OBVIOUS
<1>2. \A r \in Proposed' \ Proposed : r \notin NotSent /\ \A n \in Nodes : r \notin Items(chan'[n])
  OBVIOUS
<1> QED BY <1>1, <1>2, KeepsQueues

\* The same log, tails and mail hold the same entries.
LEMMA SameEntries ==
    ASSUME UNCHANGED <<log, tail, mail>>
    PROVE  Floating' = Floating /\ Proposed' = Proposed
BY DEF Floating, Proposed

\* What a node has after an election, or after a commit, some node had before.
LEMMA SmallerTails ==
    ASSUME UNCHANGED mail,
           \A n \in Nodes : \E m \in Nodes : Items(tail'[n]) \subseteq Items(tail[m])
    PROVE  Floating' \subseteq Floating
<1> SUFFICES ASSUME NEW f \in Floating' PROVE f \in Floating
  OBVIOUS
<1>1. CASE \E n \in Nodes : f \in Items(tail'[n])
  <2>1. \E m \in Nodes : f \in Items(tail[m])
    BY <1>1
  <2> QED BY <2>1 DEF Floating
<1>2. CASE f \in {p.entry : p \in mail}
  BY <1>2 DEF Floating
<1> QED BY <1>1, <1>2 DEF Floating

\* Nothing that the invariant is about has changed.
LEMMA SameAnswerInv ==
    ASSUME AnswerInv, UNCHANGED <<call, slot, chan, resp, log, tail, mail, applied>>
    PROVE  AnswerInv'
<1>1. Floating' = Floating /\ Proposed' = Proposed /\ NotSent' = NotSent /\ Owned' = Owned
  BY SameEntries DEF NotSent, Owned
<1>2. OwnedInv'
  BY <1>1 DEF AnswerInv, OwnedInv
<1>3. QueueInv'
  BY <1>1 DEF AnswerInv, QueueInv
<1>4. AppliedIsAnswered'
  BY DEF AnswerInv, AppliedIsAnswered
<1> QED BY <1>2, <1>3, <1>4 DEF AnswerInv

\* One step per action.
LEMMA AnswerInvIsInductive ==
    ASSUME TypeOK, TypeOK', AnswerInv, [Next]_vars
    PROVE  AnswerInv'
<1> USE DEF AnswerInv
<1>S. slot \in [Requests -> {"open", "success", "dropped"}]
  BY DEF TypeOK
<1>1. ASSUME NEW r \in Requests, NEW n \in Nodes, NEW k \in Kinds, Call(r, n, k)
      PROVE  AnswerInv'
  <2>1. /\ r \in NotSent /\ r \notin Proposed /\ UNCHANGED <<slot, chan, resp, log, tail, mail, applied>>
        /\ \A q \in Requests : q # r => call'[q] = call[q]
        /\ call'[r].st = "sending"
    BY <1>1 DEF Call, queues, raft, NotSent, QueueInv, TypeOK
  <2>2. NotSent' = NotSent
    BY <2>1 DEF NotSent
  <2>3. \A q \in Requests \ NotSent : call'[q].node = call[q].node
    BY <2>1
  <2>4. \A e \in Entry : e.req \in Requests /\ slot'[e.req] = "open"
                             /\ e \in resp[call[e.req].node] => e \in resp'[call[e.req].node]
    BY <2>1
  <2>5. Floating' = Floating /\ Proposed' = Proposed
    BY <2>1, SameEntries
  <2>6. OwnedInv' /\ AppliedIsAnswered'
    BY <2>1, <2>4, <2>5, KeepsOwned
  <2>7. QueueInv'
    BY <2>1, <2>2, <2>3, <2>5, KeepsSameQueues
  <2> QED BY <2>6, <2>7
<1>2. ASSUME NEW r \in Requests, Send(r) PROVE AnswerInv'
  <2>1. /\ r \in NotSent /\ UNCHANGED <<resp, log, tail, mail, applied>>
        /\ call \in [Requests -> CallRecord] /\ call' = [call EXCEPT ![r].st = "waiting"]
    BY <1>2 DEF Send, InState, raft, NotSent, TypeOK, CallRecord, Progress
  <2>2. /\ NotSent' = NotSent \ {r} /\ \A q \in Requests : call'[q].node = call[q].node
    BY <2>1 DEF NotSent, CallRecord
  <2>3. \A q \in Requests : slot'[q] = "open" => slot[q] = "open"
    BY <1>2, DroppedType DEF Send
  <2>5. Floating' = Floating /\ Proposed' = Proposed
    BY <2>1, SameEntries
  <2>6. OwnedInv' /\ AppliedIsAnswered'
    BY <2>1, <2>2, <2>3, <2>5, KeepsOwned
  <2>7. CASE UNCHANGED chan
    <3>1. QueueInv'
      BY <2>2, <2>5, <2>7, KeepsSameQueues
    <3> QED BY <2>6, <3>1
  <2>8. CASE ~UNCHANGED chan
    <3>1. call[r].node \in Nodes /\ chan' = [chan EXCEPT ![call[r].node] = Append(@, r)]
      <4>1. chan' = [chan EXCEPT ![call[r].node] = Append(@, r)]
        BY <1>2, <2>8 DEF Send
      <4> QED BY <2>8, <4>1, Types
    <3>2. PICK n \in Nodes : n = call[r].node
      BY <3>1
    <3>3. /\ chan \in [Nodes -> Seq(Requests)]
          /\ chan'[n] = Append(chan[n], r)
          /\ \A m \in Nodes \ {n} : chan'[m] = chan[m]
      BY <3>1, <3>2, Types
    <3>4. Items(chan'[n]) = Items(chan[n]) \cup {r}
      BY <3>3, ItemsOfAppend
    <3>5. r \notin Proposed /\ \A m \in Nodes : r \notin Items(chan[m])
      BY <2>1 DEF QueueInv
    <3>6. ASSUME NEW m \in Nodes, NEW q \in Items(chan'[m])
          PROVE  call'[q].node = m /\ q \notin NotSent' \cup Proposed'
      <4>1. CASE q = r
        <5>1. m = n
          BY <3>3, <3>5, <3>6, <4>1
        <5> QED BY <2>2, <2>5, <3>2, <3>5, <4>1, <5>1
      <4>2. CASE q # r
        <5>1. q \in Items(chan[m]) BY <3>3, <3>4, <3>6, <4>2
        <5>2. q \in Requests BY <5>1, ElementTypes
        <5> QED BY <2>2, <2>5, <5>1, <5>2 DEF QueueInv
      <4> QED BY <4>1, <4>2
    <3>7. ASSUME NEW i \in 1 .. Len(chan'[n]), NEW j \in 1 .. Len(chan'[n]),
                 chan'[n][i] = chan'[n][j]
          PROVE  i = j
      <4>1. /\ chan[n] \in Seq(Requests) /\ Len(chan'[n]) = Len(chan[n]) + 1 /\ Len(chan[n]) \in Nat
            /\ chan'[n][Len(chan[n]) + 1] = r
            /\ \A x \in 1 .. Len(chan[n]) : chan'[n][x] = chan[n][x]
        BY <3>3
      <4>2. \A x \in 1 .. Len(chan[n]) : chan[n][x] # r
        BY <3>5 DEF Items
      <4>3. \A x \in 1 .. Len(chan[n]), y \in 1 .. Len(chan[n]) : chan[n][x] = chan[n][y] => x = y
        BY DEF QueueInv
      <4> DEFINE last == Len(chan[n]) + 1
      <4>4. \A x \in 1 .. Len(chan'[n]) : x \in 1 .. Len(chan[n]) \/ x = last
        BY <4>1
      <4> HIDE DEF last
      <4>5. CASE i \in 1 .. Len(chan[n]) /\ j \in 1 .. Len(chan[n])
        <5>1. chan[n][i] = chan[n][j]
          BY <3>7, <4>1, <4>5
        <5> QED BY <4>3, <4>5, <5>1
      <4>6. chan'[n][last] = r
        BY <4>1 DEF last
      <4>7. ~(i \in 1 .. Len(chan[n]) /\ j = last)
        BY <3>7, <4>1, <4>2, <4>6
      <4>8. ~(j \in 1 .. Len(chan[n]) /\ i = last)
        BY <3>7, <4>1, <4>2, <4>6
      <4> QED BY <4>4, <4>5, <4>7, <4>8
    <3>8. QueueInv'
      <4>1. \A m \in Nodes : \A i, j \in 1 .. Len(chan'[m]) : chan'[m][i] = chan'[m][j] => i = j
        BY <3>3, <3>7 DEF QueueInv
      <4>2. NotSent' \cap Proposed' = {}
        BY <2>2, <2>5 DEF QueueInv
      <4> QED BY <3>6, <4>1, <4>2 DEF QueueInv
    <3> QED BY <2>6, <3>8
  <2> QED BY <2>7, <2>8
<1>3. ASSUME NEW r \in Requests, Return(r) \/ Timeout(r) PROVE AnswerInv'
  <2>1. /\ UNCHANGED <<slot, chan, resp, log, tail, mail, applied>> /\ r \notin NotSent
        /\ call \in [Requests -> CallRecord]
        /\ \E s \in {"ok", "timeout"} : call' = [call EXCEPT ![r].st = s]
    BY <1>3 DEF Return, Timeout, InState, queues, raft, NotSent, TypeOK, CallRecord, Progress
  <2>2. /\ NotSent' = NotSent /\ \A q \in Requests : call'[q].node = call[q].node
    BY <2>1 DEF NotSent, CallRecord
  <2>5. Floating' = Floating /\ Proposed' = Proposed
    BY <2>1, SameEntries
  <2>6. OwnedInv' /\ AppliedIsAnswered'
    BY <2>1, <2>2, <2>5, KeepsOwned
  <2>7. QueueInv'
    BY <2>1, <2>2, <2>5, KeepsSameQueues
  <2> QED BY <2>6, <2>7
<1>4. ASSUME NEW n \in Nodes, TakeProposal(n) PROVE AnswerInv'
  <2>1. /\ chan \in [Nodes -> Seq(Requests)] /\ chan[n] # <<>> /\ chan' = [chan EXCEPT ![n] = Tail(@)]
        /\ UNCHANGED <<call, log, applied>> /\ tail \in [Nodes -> Seq(Entry)]
        /\ resp \in [Nodes -> SUBSET Parked]
    BY <1>4, Types DEF TakeProposal
  <2>2. /\ chan'[n] = Tail(chan[n]) /\ \A m \in Nodes \ {n} : chan'[m] = chan[m]
        /\ NotSent' = NotSent
    BY <2>1 DEF NotSent
  <2>3. PICK r \in Requests : /\ r = Head(chan[n]) /\ call[r].node = n
                              /\ r \notin NotSent \cup Proposed
                              /\ \A m \in Nodes : r \notin Items(chan'[m])
    <3> DEFINE h == Head(chan[n])
    <3>1. h \in Items(chan[n]) /\ h \notin Items(Tail(chan[n]))
      <4>1. \A i, j \in 1 .. Len(chan[n]) : chan[n][i] = chan[n][j] => i = j
        BY DEF QueueInv
      <4>2. chan[n] \in Seq(Requests)
        BY <2>1
      <4> QED BY <2>1, <4>1, <4>2, ItemsOfTail
    <3>2. h \in Requests
      BY <3>1, ElementTypes
    <3>3. call[h].node = n /\ h \notin NotSent \cup Proposed
      BY <3>1 DEF QueueInv
    <3>4. ASSUME NEW m \in Nodes, m # n PROVE h \notin Items(chan[m])
      BY <3>3, <3>4 DEF QueueInv
    <3> HIDE DEF h
    <3>5. \A m \in Nodes : h \notin Items(chan'[m])
      BY <2>2, <3>1, <3>4 DEF h
    <3> QED BY <3>2, <3>3, <3>5 DEF h
  <2>4. [req |-> r, seq |-> seqnum[n]] \in Entry
    BY Types DEF Entry
  <2>5. PICK e \in Entry : e = [req |-> r, seq |-> seqnum[n]]
    BY <2>4
  <2>6. e.req = r
    BY <2>5
  <2> DEFINE Same == {q \in resp[n] : q.seq = e.seq}
             Lost == {p.req : p \in Same}
             Park == /\ resp' = [resp EXCEPT ![n] = {p \in @ : p.seq # e.seq} \cup {e}]
                     /\ slot' = Dropped(Lost)
  <2>7. \/ /\ \E a \in Appended(n, e) : tail' = [tail EXCEPT ![n] = Append(@, a)]
           /\ Park /\ UNCHANGED mail
        \/ /\ view[n] \in Nodes
           /\ mail' = mail \cup {[to |-> view[n], entry |-> [req |-> r, seq |-> seqnum[n]]]}
           /\ Park /\ UNCHANGED tail
        \/ slot' = Dropped({r}) /\ UNCHANGED <<resp, tail, mail>>
    BY <1>4, <2>3, <2>5 DEF TakeProposal
  <2>8. \A q \in Requests : slot'[q] = "open" => slot[q] = "open"
    <3>1. slot' = Dropped(Lost) \/ slot' = Dropped({r})
      BY <2>7
    <3> QED BY <3>1, DroppedType
  <2>9. ASSUME NEW f \in Entry, f.req \in Requests, slot'[f.req] = "open",
               f \in resp[call[f.req].node]
        PROVE  f \in resp'[call[f.req].node]
    <3>1. CASE Park
      <4>1. CASE call[f.req].node = n
        <5>1. f \notin Same
          <6>1. ASSUME f \in Same PROVE FALSE
            <7>1. f.req \in Lost \cap Requests
              BY <2>9, <6>1
            <7> HIDE DEF Lost, Same
            <7> QED BY <2>9, <3>1, <7>1, DroppedType
          <6> QED BY <6>1
        <5>2. f \in {p \in resp[n] : p.seq # e.seq} \cup {e}
          BY <2>9, <4>1, <5>1
        <5>3. resp'[n] = {p \in resp[n] : p.seq # e.seq} \cup {e}
          BY <2>1, <3>1
        <5> QED BY <4>1, <5>2, <5>3
      <4>2. CASE call[f.req].node # n
        <5>1. call[f.req].node \in Nodes \cup {NoNode}
          BY <2>9 DEF TypeOK
        <5>2. resp'[call[f.req].node] = resp[call[f.req].node]
          BY <2>1, <3>1, <4>2, <5>1
        <5> QED BY <2>9, <5>2
      <4> QED BY <4>1, <4>2
    <3>2. CASE UNCHANGED resp
      BY <2>9, <3>2
    <3> QED BY <2>7, <3>1, <3>2
  <2>10. \A f \in Floating' : f \in Floating \/ (f.req \notin Requests /\ f \in Entry) \/ (f = e /\ Park)
    <3>1. CASE \E a \in Appended(n, e) : tail' = [tail EXCEPT ![n] = Append(@, a)] /\ Park /\ UNCHANGED mail
      <4>1. PICK a \in Appended(n, e) : tail' = [tail EXCEPT ![n] = Append(@, a)]
        BY <3>1
      <4>2. a \in Entry /\ (a = e \/ a.req \notin Requests)
        BY ConstantsAssumption DEF Appended, Entry
      <4>3. Items(tail'[n]) = Items(tail[n]) \cup {a} /\ \A m \in Nodes \ {n} : tail'[m] = tail[m]
        <5>1. tail[n] \in Seq(Entry) /\ tail'[n] = Append(tail[n], a)
          BY <2>1, <4>1
        <5> QED BY <2>1, <4>1, <4>2, <5>1, ItemsOfAppend
      <4>4. \A m \in Nodes : Items(tail'[m]) \subseteq Items(tail[m]) \cup {a}
        BY <4>3
      <4>5. \A f \in Floating' : f \in Floating \/ f = a
        BY <3>1, <4>4, SMTT(20) DEF Floating
      <4> HIDE DEF Park
      <4> QED BY <3>1, <4>2, <4>5
    <3>2. CASE mail' = mail \cup {[to |-> view[n], entry |-> [req |-> r, seq |-> seqnum[n]]]}
               /\ Park /\ UNCHANGED tail
      <4>1. mail' = mail \cup {[to |-> view[n], entry |-> e]}
        BY <2>5, <3>2
      <4>2. \A p \in mail' : p \in mail \/ p.entry = e
        BY <4>1
      <4>3. \A f \in Floating' : f \in Floating \/ f = e
        BY <3>2, <4>2 DEF Floating
      <4> HIDE DEF Park
      <4> QED BY <3>2, <4>3
    <3>3. CASE UNCHANGED <<tail, mail>>
      BY <3>3 DEF Floating
    <3> QED BY <2>7, <3>1, <3>2, <3>3
  <2>11. Floating' \subseteq Floating \cup Owned'
    <3>1. ASSUME Park PROVE e \in Owned'
      <4>1. e \in resp'[n] /\ call'[e.req].node = n
        BY <2>1, <2>3, <2>6, <3>1
      <4> QED BY <4>1 DEF Owned
    <3>2. ASSUME NEW f \in Entry, f.req \notin Requests PROVE f \in Owned'
      BY <3>2 DEF Owned
    <3> HIDE DEF Park
    <3> QED BY <2>10, <3>1, <3>2
  <2>12. OwnedInv' /\ AppliedIsAnswered'
    BY <2>1, <2>8, <2>9, <2>11, KeepsOwned
  <2>13. \A q \in Requests : q \in Proposed' \ Proposed => q = r
    <3>1. Items(log)' = Items(log)
      BY <2>1 DEF Items
    <3>2. ASSUME NEW q \in Requests, q \in Proposed', q \notin Proposed PROVE q = r
      <4>1. PICK f \in Items(log) \cup Floating' : f.req = q
        BY <3>1, <3>2 DEF Proposed
      <4>2. f \in Floating' /\ f \notin Floating
        BY <3>2, <4>1 DEF Proposed
      <4> HIDE DEF Park
      <4> QED BY <2>6, <2>10, <4>1, <4>2
    <3> QED BY <3>2
  <2>14. QueueInv'
    <3>1. \A m \in Nodes : \/ chan'[m] = chan[m]
                           \/ chan'[m] = <<>>
                           \/ chan[m] # <<>> /\ chan'[m] = Tail(chan[m])
      BY <2>1, <2>2
    <3>2. ASSUME NEW q \in Proposed' \ Proposed
          PROVE  q \notin NotSent /\ \A m \in Nodes : q \notin Items(chan'[m])
      <4>1. CASE q \in Requests
        BY <2>3, <2>13, <3>2, <4>1
      <4>2. CASE q \notin Requests
        <5>1. \A m \in Nodes : Items(chan'[m]) \subseteq Items(chan[m])
          BY <2>1, <2>2, ItemsOfTail
        <5> QED BY <4>2, <5>1, ElementTypes DEF NotSent
      <4> QED BY <4>1, <4>2
    <3> QED BY <2>1, <2>2, <3>1, <3>2, KeepsQueues
  <2> QED BY <2>12, <2>14
<1>5. ASSUME NEW n \in Nodes, TakeStep(n) PROVE AnswerInv'
  <2>1. /\ chan[n] # <<>> /\ chan \in [Nodes -> Seq(Requests)] /\ chan' = [chan EXCEPT ![n] = Tail(@)]
        /\ UNCHANGED <<call, resp, log, tail, mail, applied>>
    BY <1>5, Types DEF TakeStep, raft
  <2>2. \A q \in Requests : slot'[q] = "open" => slot[q] = "open"
    <3> DEFINE r == Head(chan[n])
    <3>1. slot' = [slot EXCEPT ![r] = "success"] \/ slot' = Dropped({r})
      BY <1>5 DEF TakeStep
    <3> HIDE DEF r
    <3> QED BY <1>S, <3>1, DroppedType
  <2>3. Floating' = Floating /\ Proposed' = Proposed /\ NotSent' = NotSent
    BY <2>1, SameEntries DEF NotSent
  <2>4. OwnedInv' /\ AppliedIsAnswered'
    BY <2>1, <2>2, <2>3, KeepsOwned
  <2>5. \A m \in Nodes : \/ chan'[m] = chan[m]
                         \/ chan'[m] = <<>>
                         \/ chan[m] # <<>> /\ chan'[m] = Tail(chan[m])
    BY <2>1
  <2>6. QueueInv'
    BY <2>1, <2>3, <2>5, KeepsQueues
  <2> QED BY <2>4, <2>6
<1>6. ASSUME NEW n \in Nodes, Apply(n) PROVE AnswerInv'
  <2>1. /\ UNCHANGED <<call, log, tail, mail>> /\ applied[n] < Len(log)
        /\ resp \in [Nodes -> SUBSET Parked] /\ chan \in [Nodes -> Seq(Requests)]
        /\ Len(log) \in Nat /\ applied \in [Nodes -> 0 .. Len(log)]
    <3>1. UNCHANGED <<call, log, tail, mail>> /\ applied[n] < Len(log)
      BY <1>6 DEF Apply
    <3>2. Len(log) \in Nat
      BY Types
    <3>3. applied \in [Nodes -> 0 .. Len(log)]
      BY DEF TypeOK
    <3> QED BY <3>1, <3>2, <3>3, Types
  <2>2. Floating' = Floating /\ Proposed' = Proposed /\ NotSent' = NotSent
    BY <2>1, SameEntries DEF NotSent
  <2>3. CASE UNCHANGED applied
    <3> DEFINE Lost == {p.req : p \in resp[n]} \cup {chan[n][i] : i \in 1 .. Len(chan[n])}
    <3>1. /\ slot' = Dropped(Lost)
          /\ chan' = [chan EXCEPT ![n] = <<>>] /\ resp' = [resp EXCEPT ![n] = {}]
      <4>1. applied' # [applied EXCEPT ![n] = @ + 1]
        <5>1. [applied EXCEPT ![n] = @ + 1][n] = applied[n] + 1
          BY <2>1
        <5>2. applied[n] + 1 # applied[n]
          BY <2>1
        <5> QED BY <2>3, <5>1, <5>2
      <4> QED BY <1>6, <4>1 DEF Apply
    <3>2. ASSUME NEW f \in Entry, f.req \in Requests, slot'[f.req] = "open",
                 f \in resp[call[f.req].node]
          PROVE  f \in resp'[call[f.req].node]
      <4>1. call[f.req].node # n
        <5>1. ASSUME call[f.req].node = n PROVE FALSE
          <6>1. f.req \in Lost \cap Requests
            BY <3>2, <5>1
          <6> HIDE DEF Lost
          <6> QED BY <3>1, <3>2, <6>1, DroppedType
        <5> QED BY <5>1
      <4>2. call[f.req].node \in Nodes \cup {NoNode}
        BY <3>2 DEF TypeOK
      <4>3. resp'[call[f.req].node] = resp[call[f.req].node]
        BY <2>1, <3>1, <4>1, <4>2
      <4> QED BY <3>2, <4>3
    <3>3. \A q \in Requests : slot'[q] = "open" => slot[q] = "open"
      <4> HIDE DEF Lost
      <4> QED BY <3>1, DroppedType
    <3>4. OwnedInv' /\ AppliedIsAnswered'
      BY <2>1, <2>2, <2>3, <3>2, <3>3, KeepsOwned
    <3>5. \A m \in Nodes : \/ chan'[m] = chan[m]
                           \/ chan'[m] = <<>>
                           \/ chan[m] # <<>> /\ chan'[m] = Tail(chan[m])
      BY <2>1, <3>1
    <3>6. QueueInv'
      BY <2>1, <2>2, <3>5, KeepsQueues
    <3> QED BY <3>4, <3>6
  <2>4. CASE ~UNCHANGED applied
    <3>1. PICK e \in Entry : e = log[applied[n] + 1]
      BY <2>1, Types
    <3> DEFINE Done == {p.req : p \in Answered(n, e)}
    <3>2. /\ applied' = [applied EXCEPT ![n] = @ + 1]
          /\ slot' = [r \in Requests |-> IF r \in Done THEN "success" ELSE slot[r]]
          /\ resp' = [resp EXCEPT ![n] = @ \ Answered(n, e)]
          /\ UNCHANGED chan
      BY <1>6, <2>4, <3>1 DEF Apply
    <3>3. \A q \in Requests : /\ q \in Done => slot'[q] = "success"
                              /\ q \notin Done => slot'[q] = slot[q]
      <4> HIDE DEF Done
      <4> QED BY <3>2
    <3>4. ASSUME NEW f \in Owned PROVE f \in Owned'
      <4>1. f \in Entry BY DEF Owned
      <4>2. CASE f.req \in Requests /\ slot'[f.req] = "open"
        <5>1. f.req \notin Done /\ slot[f.req] = "open"
          <6> HIDE DEF Done
          <6> QED BY <3>3, <4>2
        <5>2. f \in resp[call[f.req].node]
          BY <4>2, <5>1 DEF Owned
        <5>3. f \notin Answered(n, e)
          BY <5>1
        <5>4. f \in resp'[call[f.req].node]
          <6>1. CASE call[f.req].node = n
            BY <2>1, <3>2, <5>2, <5>3, <6>1
          <6>2. CASE call[f.req].node # n
            <7>1. call[f.req].node \in Nodes \cup {NoNode}
              BY <4>2 DEF TypeOK
            <7>2. resp'[call[f.req].node] = resp[call[f.req].node]
              BY <2>1, <3>2, <6>2, <7>1
            <7> QED BY <5>2, <7>2
          <6> QED BY <6>1, <6>2
        <5>5. call'[f.req] = call[f.req]
          BY <2>1
        <5> QED BY <4>1, <5>4, <5>5 DEF Owned
      <4>3. CASE ~(f.req \in Requests /\ slot'[f.req] = "open")
        BY <4>1, <4>3 DEF Owned
      <4> QED BY <4>2, <4>3
    <3>5. ASSUME e.req \in Requests, call[e.req].node = n PROVE slot'[e.req] # "open"
      <4>1. SUFFICES ASSUME slot[e.req] = "open" PROVE e.req \in Done
        BY <3>3, <3>5
      <4>2. e \in Owned
        <5>1. PICK i \in 1 .. Len(log) : i = applied[n] + 1
          BY <2>1
        <5>2. i > applied[n] /\ log[i] = e
          BY <2>1, <3>1, <5>1
        <5> QED BY <3>5, <5>2 DEF OwnedInv
      <4>3. e \in resp[n]
        BY <3>5, <4>1, <4>2 DEF Owned
      <4>4. e \in Answered(n, e)
        BY <4>3 DEF Answered
      <4> QED BY <4>4
    <3>6. /\ \A m \in Nodes : applied[m] <= applied'[m]
          /\ \A m \in Nodes \ {n} : applied'[m] = applied[m]
          /\ applied'[n] = applied[n] + 1
      BY <2>1, <3>2
    <3>7. OwnedInv'
      <4>1. Floating' \subseteq Owned'
        BY <2>2, <3>4 DEF OwnedInv
      <4>2. ASSUME NEW m \in Nodes, NEW i \in 1 .. Len(log),
                   log[i].req \in Requests, call[log[i].req].node = m, i > applied'[m]
            PROVE  log[i] \in Owned'
        <5>1. i > applied[m]
          <6>1. applied[m] \in Nat /\ applied'[m] \in Nat
            <7>1. applied[m] \in Nat BY <2>1
            <7>2. applied'[m] = applied[m] \/ applied'[m] = applied[m] + 1 BY <3>6
            <7> QED BY <7>1, <7>2
          <6>2. i \in Nat /\ applied[m] <= applied'[m] BY <3>6
          <6> QED BY <4>2, <6>1, <6>2
        <5>2. log[i] \in Owned
          BY <4>2, <5>1 DEF OwnedInv
        <5> QED BY <3>4, <5>2
      <4> QED BY <2>1, <4>1, <4>2 DEF OwnedInv
    <3>8. AppliedIsAnswered'
      <4>1. ASSUME NEW m \in Nodes, NEW i \in 1 .. applied'[m],
                   log[i].req # NoRequest, call[log[i].req].node = m
            PROVE  slot'[log[i].req] # "open"
        <5>1. CASE i \in 1 .. applied[m]
          <6>1. slot[log[i].req] # "open"
            BY <4>1, <5>1 DEF AppliedIsAnswered
          <6>2. log[i].req \in Requests
            <7>1. applied[m] \in 0 .. Len(log)
              BY <2>1
            <7>2. i \in 1 .. Len(log)
              BY <2>1, <5>1, <7>1
            <7>3. log[i] \in Entry
              BY <7>2, ElementTypes
            <7> QED BY <4>1, <7>3 DEF Entry
          <6> HIDE DEF Done
          <6> QED BY <3>3, <6>1, <6>2
        <5>2. CASE i \notin 1 .. applied[m]
          <6>1. m = n /\ i = applied[n] + 1
            BY <2>1, <3>6, <5>2
          <6>2. log[i] = e /\ e.req \in Requests
            BY <3>1, <4>1, <6>1 DEF Entry
          <6> QED BY <3>5, <4>1, <6>1, <6>2
        <5> QED BY <5>1, <5>2
      <4> QED BY <2>1, <4>1 DEF AppliedIsAnswered
    <3>9. QueueInv'
      BY <2>1, <2>2, <3>2, KeepsSameQueues
    <3> QED BY <3>7, <3>8, <3>9
  <2> QED BY <2>3, <2>4
<1>7. ASSUME NEW n \in Nodes, Elect(n) PROVE AnswerInv'
  <2>1. /\ UNCHANGED <<call, slot, chan, resp, log, mail, applied>>
        /\ tail \in [Nodes -> Seq(Entry)]
    BY <1>7, Types DEF Elect, calls, queues
  <2>2. PICK m \in Nodes : \E k \in 0 .. Len(tail[m]) : tail' = [tail EXCEPT ![n] = SubSeq(tail[m], 1, k)]
    BY <1>7 DEF Elect
  <2>3. Items(tail'[n]) \subseteq Items(tail[m]) /\ \A x \in Nodes \ {n} : tail'[x] = tail[x]
    <3>1. PICK k \in 0 .. Len(tail[m]) : tail' = [tail EXCEPT ![n] = SubSeq(tail[m], 1, k)]
      BY <2>2
    <3>2. tail[m] \in Seq(Entry) /\ tail'[n] = SubSeq(tail[m], 1, k)
      BY <2>1, <3>1
    <3> QED BY <2>1, <3>1, <3>2, ItemsOfSubSeq
  <2>4. \A x \in Nodes : \E y \in Nodes : Items(tail'[x]) \subseteq Items(tail[y])
    BY <2>3
  <2>5. Floating' \subseteq Floating
    BY <2>1, <2>4, SmallerTails
  <2>6. Proposed' \subseteq Proposed /\ NotSent' = NotSent
    BY <2>1, <2>5 DEF Proposed, NotSent
  <2>7. OwnedInv' /\ AppliedIsAnswered'
    BY <2>1, <2>5, KeepsOwned
  <2>8. QueueInv'
    BY <2>1, <2>6, KeepsQueues
  <2> QED BY <2>7, <2>8
<1>8. ASSUME NEW n \in Nodes, NEW m \in Nodes \cup {NoNode}, Learn(n, m) PROVE AnswerInv'
  <2>1. UNCHANGED <<call, slot, chan, resp, log, tail, mail, applied>>
    BY <1>8 DEF Learn, calls, queues
  <2> QED BY <2>1, SameAnswerInv
<1>9. CASE Commit
  <2>1. /\ leader \in Nodes /\ tail[leader] # <<>>
        /\ UNCHANGED <<call, slot, chan, resp, mail, applied>>
    BY <1>9 DEF Commit, TypeOK, calls, queues
  <2>2. PICK e \in Entry : /\ e = Head(tail[leader]) /\ e \in Floating
    <3>1. tail[leader] \in Seq(Entry)
      BY <2>1, Types
    <3>2. Head(tail[leader]) \in Items(tail[leader]) /\ Head(tail[leader]) \in Entry
      BY <2>1, <3>1, ItemsOfTail
    <3>3. Head(tail[leader]) \in Floating
      BY <2>1, <3>2 DEF Floating
    <3> QED BY <3>2, <3>3
  <2>3. /\ log' = Append(log, e)
        /\ \A n \in Nodes : \/ tail'[n] = tail[n]
                            \/ tail[n] # <<>> /\ tail'[n] = Tail(tail[n])
    BY <1>9, <2>2 DEF Commit
  <2>4. Floating' \subseteq Floating
    <3>1. tail \in [Nodes -> Seq(Entry)] BY Types
    <3>2. \A n \in Nodes : Items(tail'[n]) \subseteq Items(tail[n])
      BY <2>3, <3>1, ItemsOfTail
    <3> QED BY <2>1, <3>2, SmallerTails
  <2>5. log \in Seq(Entry) /\ Len(log) \in Nat /\ Len(log') = Len(log) + 1 /\ log'[Len(log) + 1] = e
        /\ \A i \in 1 .. Len(log) : log'[i] = log[i]
    BY <2>3, Types
  <2>6. Owned' = Owned
    BY <2>1 DEF Owned
  <2>7. Items(log') = Items(log) \cup {e}
    BY <2>3, <2>5, ItemsOfAppend
  <2>8. Proposed' \subseteq Proposed /\ NotSent' = NotSent
    BY <2>1, <2>2, <2>4, <2>7 DEF Proposed, NotSent
  <2>9. OwnedInv'
    <3>1. Floating' \subseteq Owned'
      BY <2>4, <2>6 DEF OwnedInv
    <3>2. ASSUME NEW n \in Nodes, NEW i \in 1 .. Len(log'),
                 log'[i].req \in Requests, call[log'[i].req].node = n, i > applied[n]
          PROVE  log'[i] \in Owned'
      <4>1. CASE i \in 1 .. Len(log)
        BY <2>5, <2>6, <3>2, <4>1 DEF OwnedInv
      <4>2. CASE i \notin 1 .. Len(log)
        <5>1. i = Len(log) + 1 BY <2>5, <4>2
        <5> QED BY <2>2, <2>5, <2>6, <5>1 DEF OwnedInv
      <4> QED BY <4>1, <4>2
    <3> QED BY <2>1, <3>1, <3>2 DEF OwnedInv
  <2>10. AppliedIsAnswered'
    <3>1. ASSUME NEW n \in Nodes, NEW i \in 1 .. applied[n] PROVE log'[i] = log[i]
      <4>1. applied[n] \in 0 .. Len(log) BY DEF TypeOK
      <4>2. i \in 1 .. Len(log) BY <2>5, <4>1
      <4> QED BY <2>5, <4>2
    <3> QED BY <2>1, <3>1 DEF AppliedIsAnswered
  <2>11. QueueInv'
    BY <2>1, <2>8, KeepsQueues
  <2> QED BY <2>9, <2>10, <2>11
<1>10. ASSUME NEW p \in mail, Deliver(p) PROVE AnswerInv'
  <2>1. /\ UNCHANGED <<call, slot, chan, resp, log, applied>> /\ tail \in [Nodes -> Seq(Entry)]
        /\ p.to \in Nodes /\ p.entry \in Entry /\ p \in [to : Nodes, entry : Entry]
    <3>1. UNCHANGED <<call, slot, chan, resp, log, applied>>
      BY <1>10 DEF Deliver, calls, queues
    <3>2. p \in [to : Nodes, entry : Entry] /\ tail \in [Nodes -> Seq(Entry)]
      BY Types
    <3> QED BY <3>1, <3>2
  <2>2. \A f \in Floating' : f \in Floating \/ (f.req \notin Requests /\ f \in Entry)
    <3>0. p.entry \in Floating
      BY DEF Floating
    <3>1. CASE /\ \E a \in Appended(p.to, p.entry) : tail' = [tail EXCEPT ![p.to] = Append(@, a)]
               /\ mail' = mail \ {p}
      <4>1. PICK a \in Appended(p.to, p.entry) : tail' = [tail EXCEPT ![p.to] = Append(@, a)]
        BY <3>1
      <4>2. a \in Entry /\ (a = p.entry \/ a.req \notin Requests)
        BY <2>1, ConstantsAssumption DEF Appended, Entry
      <4>3. \A m \in Nodes : Items(tail'[m]) \subseteq Items(tail[m]) \cup {a}
        <5>1. \A m \in Nodes \ {p.to} : tail'[m] = tail[m]
          BY <2>1, <4>1
        <5>2. tail[p.to] \in Seq(Entry) /\ tail'[p.to] = Append(tail[p.to], a)
          BY <2>1, <4>1
        <5>3. Items(tail'[p.to]) = Items(tail[p.to]) \cup {a}
          BY <4>2, <5>2, ItemsOfAppend
        <5> QED BY <5>1, <5>3
      <4>4. ASSUME NEW f \in Floating' PROVE f \in Floating \/ f = a
        <5>1. (\E m \in Nodes : f \in Items(tail'[m])) \/ \E q \in mail' : f = q.entry
          BY DEF Floating
        <5>2. ASSUME NEW m \in Nodes, f \in Items(tail'[m]) PROVE f \in Floating \/ f = a
          BY <4>3, <5>2 DEF Floating
        <5>3. ASSUME NEW q \in mail', f = q.entry PROVE f \in Floating
          BY <3>1, <5>3 DEF Floating
        <5> QED BY <5>1, <5>2, <5>3
      <4> QED BY <3>0, <4>2, <4>4
    <3>2. CASE /\ UNCHANGED tail
               /\ \A q \in mail' : q \in mail \/ q.entry = p.entry
      BY <3>0, <3>2 DEF Floating
    <3>3. UNCHANGED tail => \A q \in mail' : q \in mail \/ q.entry = p.entry
      BY <1>10, <2>1 DEF Deliver
    <3> QED BY <1>10, <3>1, <3>2, <3>3 DEF Deliver
  <2>3. Floating' \subseteq Floating \cup Owned'
    <3>1. ASSUME NEW f \in Entry, f.req \notin Requests PROVE f \in Owned'
      BY <3>1 DEF Owned
    <3> QED BY <2>2, <3>1
  <2>4. OwnedInv' /\ AppliedIsAnswered'
    BY <2>1, <2>3, KeepsOwned
  <2>5. ASSUME NEW q \in Proposed' \ Proposed
        PROVE  q \notin Requests
    <3>1. Items(log)' = Items(log)
      BY <2>1 DEF Items
    <3>2. PICK f \in Items(log) \cup Floating' : f.req = q
      BY <2>5, <3>1 DEF Proposed
    <3>3. f \in Floating' /\ f \notin Floating
      BY <2>5, <3>2 DEF Proposed
    <3> QED BY <2>2, <3>2, <3>3
  <2>6. \A q \in Proposed' \ Proposed : q \notin NotSent /\ \A m \in Nodes : q \notin Items(chan'[m])
    BY <2>1, <2>5, ElementTypes DEF NotSent
  <2>7. NotSent' = NotSent
    BY <2>1 DEF NotSent
  <2>8. QueueInv'
    BY <2>1, <2>6, <2>7, KeepsQueues
  <2> QED BY <2>4, <2>8
<1>11. ASSUME NEW n \in Nodes, Crash(n) PROVE AnswerInv'
  <2> DEFINE Here == {r \in Requests : call[r].node = n}
  <2>1. /\ UNCHANGED <<log, tail, mail, applied>> /\ slot' = Dropped(Here)
        /\ chan \in [Nodes -> Seq(Requests)] /\ resp \in [Nodes -> SUBSET Parked]
        /\ chan' = [chan EXCEPT ![n] = <<>>] /\ resp' = [resp EXCEPT ![n] = {}]
    <3>1. /\ UNCHANGED <<log, tail, mail, applied>> /\ slot' = Dropped(Here)
          /\ chan' = [chan EXCEPT ![n] = <<>>] /\ resp' = [resp EXCEPT ![n] = {}]
      BY <1>11 DEF Crash
    <3> HIDE DEF Here
    <3> QED BY <3>1, Types
  <2>2. \A r \in Requests : /\ call'[r].node = call[r].node
                            /\ call'[r].st = call[r].st \/ call'[r].st = "cut"
    <3>1. \A r \in Requests : call[r] \in CallRecord
      BY DEF TypeOK, CallRecord, Progress
    <3>2. \A r \in Requests : call'[r] = call[r] \/ call'[r] = [call[r] EXCEPT !.st = "cut"]
      BY <1>11 DEF Crash
    <3> QED BY <3>1, <3>2 DEF CallRecord
  <2>3. NotSent' \subseteq NotSent
    BY <2>2 DEF NotSent
  <2>4. Floating' = Floating /\ Proposed' = Proposed
    BY <2>1, SameEntries
  <2>5. \A q \in Requests : slot'[q] = "open" => slot[q] = "open" /\ call[q].node # n
    <3>1. \A q \in Here \cap Requests : slot'[q] # "open"
      <4> HIDE DEF Here
      <4> QED BY <2>1, DroppedType
    <3>2. \A q \in Requests : slot'[q] = "open" => slot[q] = "open"
      <4> HIDE DEF Here
      <4> QED BY <2>1, DroppedType
    <3> QED BY <3>1, <3>2
  <2>6. ASSUME NEW f \in Entry, f.req \in Requests, slot'[f.req] = "open", f \in resp[call[f.req].node]
        PROVE  f \in resp'[call[f.req].node]
    <3>1. call[f.req].node # n /\ call[f.req].node \in Nodes \cup {NoNode}
      BY <2>5, <2>6 DEF TypeOK
    <3>2. resp'[call[f.req].node] = resp[call[f.req].node]
      BY <2>1, <3>1
    <3> QED BY <2>6, <3>2
  <2>7. OwnedInv' /\ AppliedIsAnswered'
    BY <2>1, <2>2, <2>4, <2>5, <2>6, KeepsOwned
  <2>8. \A m \in Nodes : \/ chan'[m] = chan[m]
                         \/ chan'[m] = <<>>
                         \/ chan[m] # <<>> /\ chan'[m] = Tail(chan[m])
    BY <2>1
  <2>9. QueueInv'
    BY <2>2, <2>3, <2>4, <2>8, KeepsQueues
  <2> QED BY <2>7, <2>9
<1>12. ASSUME NEW n \in Nodes, Restart(n) PROVE AnswerInv'
  <2>1. UNCHANGED <<call, slot, chan, resp, log, tail, mail, applied>>
    BY <1>12 DEF Restart, calls, raft
  <2> QED BY <2>1, SameAnswerInv
<1>13. CASE UNCHANGED vars
  <2>1. UNCHANGED <<call, slot, chan, resp, log, tail, mail, applied>>
    BY <1>13 DEF vars, calls, queues, raft
  <2> QED BY <2>1, SameAnswerInv
<1> QED BY <1>1, <1>2, <1>3, <1>4, <1>5, <1>6, <1>7, <1>8, <1>9, <1>10, <1>11, <1>12, <1>13
        DEF Next, Turn

\* An entry that was applied on the node that proposed it leaves no caller
\* waiting (resp_channel), whatever elections, forwards, lost proposals, panics
\* and crashes came between, and though a later message of the same sequence
\* number may take the place of an earlier one (handle_committed_entries).
THEOREM AppliedCallIsAnswered == Spec => []AppliedIsAnswered
<1>1. Init => AnswerInv
  <2> SUFFICES ASSUME Init PROVE AnswerInv OBVIOUS
  <2>1. /\ log = <<>> /\ mail = {} /\ \A n \in Nodes : tail[n] = <<>> /\ chan[n] = <<>>
        /\ \A n \in Nodes : applied[n] = 0
    BY DEF Init
  <2>2. Floating = {} /\ Items(log) = {} /\ \A n \in Nodes : Items(chan[n]) = {}
    BY <2>1 DEF Floating, Items
  <2>3. Proposed = {}
    BY <2>2 DEF Proposed
  <2> QED BY <2>1, <2>2, <2>3 DEF AnswerInv, OwnedInv, QueueInv, AppliedIsAnswered
<1>2. TypeOK /\ TypeOK' /\ AnswerInv /\ [Next]_vars => AnswerInv'
  BY AnswerInvIsInductive
<1>3. AnswerInv => AppliedIsAnswered
  BY DEF AnswerInv
<1> QED BY <1>1, <1>2, <1>3, CallTypeCorrect, PTL DEF Spec

-----------------------------------------------------------------------------
(***************************************************************************)
(* Whose answer it is.  Until a node crashes its sequence numbers are its  *)
(* own: every entry and every parked sender carries one that it has given  *)
(* out, no two calls of a node the same.  With all calls at one node, an   *)
(* applied entry then answers the call that proposed it.                   *)
(***************************************************************************)

\* Everything that carries a sequence number.
Numbered == Items(log) \cup Floating \cup UNION {resp[n] : n \in Nodes}

Empty == [req |-> NoRequest, seq |-> 0]

\* A number that the node of the call has given out; none in place of a
\* membership change.
HasNumber(e) ==
    IF e.req = NoRequest THEN e.seq = 0
    ELSE /\ e.req \notin NotSent /\ call[e.req].node \in Nodes
         /\ e.seq \in 1 .. seqnum[call[e.req].node] - 1

OwnNumber(e, f) ==
    /\ e.req # NoRequest /\ f.req # NoRequest
    /\ call[e.req].node = call[f.req].node /\ e.seq = f.seq
    => e.req = f.req

NumberInv ==
    /\ \A n \in Nodes : machine[n] # "down" /\ seqnum[n] >= 1
    /\ \A r \in Requests : call[r].st = "idle" => slot[r] = "open" /\ call[r].node = NoNode
    /\ \A r \in Requests : call[r].st # "idle" => call[r].node \in Nodes
    /\ \A n \in Nodes : \A p \in resp[n] : call[p.req].node = n
    /\ \A e \in Numbered : HasNumber(e)
    /\ \A e, f \in Numbered : OwnNumber(e, f)

OneNode == \E n \in Nodes : \A r \in Requests : call[r].node \in {n, NoNode}

SequenceInv == crashes = 0 => NumberInv /\ (OneNode => AnswerIsForOwnEntry)

\* Every request that carries a number is one, or none.
LEMMA NumberedTypes ==
    ASSUME TypeOK
    PROVE  /\ Numbered \subseteq Entry
           /\ \A e \in Numbered : e.req = NoRequest \/ e.req \in Requests
           /\ \A n \in Nodes : \A p \in resp[n] : p \in Numbered /\ p.req \in Requests
           /\ \A i \in 1 .. Len(log) : log[i] \in Numbered
           /\ Floating \subseteq Numbered
<1>1. Items(log) \subseteq Entry /\ \A i \in 1 .. Len(log) : log[i] \in Items(log)
  BY ElementTypes DEF Items
<1>2. resp \in [Nodes -> SUBSET Parked] /\ Parked \subseteq Entry
  BY Types DEF Parked, Entry
<1>3. \A n \in Nodes : \A p \in resp[n] : p \in Parked
  BY <1>2
<1>4. \A p \in Parked : p.req \in Requests
  BY DEF Parked
<1>5. \A e \in Entry : e.req = NoRequest \/ e.req \in Requests
  BY DEF Entry
<1>6. Numbered \subseteq Entry
  BY <1>1, <1>2, <1>3, ElementTypes DEF Numbered
<1> QED BY <1>1, <1>3, <1>4, <1>5, <1>6 DEF Numbered

\* A step that gives out no number: nothing new carries one, and calls that were
\* sent stay where they are.
LEMMA KeepsNumbers ==
    ASSUME TypeOK, NumberInv, UNCHANGED seqnum,
           Floating' \subseteq Floating \cup {Empty},
           Items(log)' \subseteq Items(log) \cup Floating,
           \A n \in Nodes : machine'[n] # "down" /\ resp'[n] \subseteq resp[n],
           NotSent' \subseteq NotSent,
           \A r \in Requests \ NotSent : call'[r].node = call[r].node,
           \A r \in Requests : call'[r].st = "idle" =>
               call[r].st = "idle" /\ call'[r].node = call[r].node /\ slot'[r] = slot[r],
           \A r \in Requests : call'[r].st # "idle" => call'[r].node \in Nodes
    PROVE  NumberInv'
<1>1. Numbered' \subseteq Numbered \cup {Empty}
  BY DEF Numbered
<1>2. ASSUME NEW e \in Numbered, e.req # NoRequest
      PROVE  /\ e.req \in Requests \ NotSent /\ call'[e.req].node = call[e.req].node
             /\ HasNumber(e)
  <2>1. e.req \in Requests /\ HasNumber(e)
    BY <1>2, NumberedTypes DEF NumberInv
  <2> QED BY <1>2, <2>1 DEF HasNumber
<1>3. ASSUME NEW e \in Numbered' PROVE HasNumber(e)'
  <2>1. CASE e.req = NoRequest
    <3>1. CASE e = Empty
      BY <3>1 DEF HasNumber, Empty
    <3>2. CASE e # Empty
      BY <1>1, <2>1, <3>2 DEF HasNumber, NumberInv
    <3> QED BY <3>1, <3>2
  <2>2. CASE e.req # NoRequest
    <3>1. e \in Numbered
      BY <1>1, <2>2 DEF Empty
    <3> QED BY <1>2, <2>2, <3>1 DEF HasNumber
  <2> QED BY <2>1, <2>2
<1>4. ASSUME NEW e \in Numbered', NEW f \in Numbered' PROVE OwnNumber(e, f)'
  <2> SUFFICES ASSUME e.req # NoRequest, f.req # NoRequest,
                      call'[e.req].node = call'[f.req].node, e.seq = f.seq
               PROVE  e.req = f.req
    BY DEF OwnNumber
  <2>1. e \in Numbered /\ f \in Numbered
    BY <1>1 DEF Empty
  <2>2. OwnNumber(e, f)
    BY <2>1 DEF NumberInv
  <2> QED BY <1>2, <2>1, <2>2 DEF OwnNumber
<1>5. ASSUME NEW n \in Nodes, NEW p \in resp'[n] PROVE call'[p.req].node = n
  <2>1. p \in resp[n] /\ p \in Numbered /\ p.req # NoRequest
    BY <1>5, NumberedTypes
  <2> QED BY <1>2, <2>1 DEF NumberInv
<1>6. \A n \in Nodes : machine'[n] # "down" /\ seqnum'[n] >= 1
  BY DEF NumberInv
<1>7. \A r \in Requests : call'[r].st = "idle" => slot'[r] = "open" /\ call'[r].node = NoNode
  BY DEF NumberInv
<1> QED BY <1>3, <1>4, <1>5, <1>6, <1>7 DEF NumberInv

\* A step that answers nobody but run's own calls: nobody moves to another node,
\* and what was applied stays so.
LEMMA KeepsAnswers ==
    ASSUME NumberInv, OneNode => AnswerIsForOwnEntry,
           \A r \in Requests :
               /\ call'[r].node = call[r].node \/ call[r].node = NoNode
               /\ slot'[r] = "success" /\ call'[r].kind # "step" =>
                      slot[r] = "success" /\ call'[r].kind = call[r].kind
                          /\ call'[r].node = call[r].node,
           \A n \in Nodes : \A i \in 1 .. applied[n] :
               i \in 1 .. applied'[n] /\ log'[i] = log[i]
    PROVE  OneNode' => AnswerIsForOwnEntry'
<1> SUFFICES ASSUME OneNode', NEW r \in Requests, slot'[r] = "success", call'[r].kind # "step"
             PROVE  \E i \in 1 .. applied'[call'[r].node] : log'[i].req = r
  BY DEF AnswerIsForOwnEntry
<1>1. OneNode
  BY DEF OneNode
<1>2. PICK i \in 1 .. applied[call[r].node] : log[i].req = r
  BY <1>1 DEF AnswerIsForOwnEntry
<1>3. call[r].node \in Nodes /\ call'[r].node = call[r].node
  BY DEF NumberInv
<1>4. i \in 1 .. applied'[call[r].node] /\ log'[i] = log[i]
  BY <1>3
<1> QED BY <1>2, <1>3, <1>4

\* Dropped senders: none turns into a success, and only those in S change.
LEMMA DroppedSlots ==
    ASSUME NEW S
    PROVE  \A r \in Requests : /\ Dropped(S)[r] = "success" => slot[r] = "success"
                               /\ r \notin S => Dropped(S)[r] = slot[r]
BY DEF Dropped

\* What a leader appends for a proposal is that entry or an empty one.
LEMMA AppendedEntries ==
    ASSUME TypeOK, NEW n \in Nodes, NEW e \in Entry, NEW a \in Appended(n, e),
           tail' = [tail EXCEPT ![n] = Append(@, a)], mail' \subseteq mail
    PROVE  \A f \in Floating' : f \in Floating \cup {e, Empty}
<1>1. a \in Entry /\ a \in {e, Empty}
  BY DEF Appended, Entry, Empty
<1>2. tail \in [Nodes -> Seq(Entry)]
  BY Types
<1>3. \A m \in Nodes : Items(tail'[m]) \subseteq Items(tail[m]) \cup {a}
  <2>1. \A m \in Nodes \ {n} : tail'[m] = tail[m]
    BY <1>2
  <2>2. tail[n] \in Seq(Entry) /\ tail'[n] = Append(tail[n], a)
    BY <1>2
  <2>3. Items(tail'[n]) = Items(tail[n]) \cup {a}
    BY <1>1, <2>2, ItemsOfAppend
  <2> QED BY <2>1, <2>3
<1>4. ASSUME NEW f \in Floating' PROVE f \in Floating \cup {a}
  <2>1. (\E m \in Nodes : f \in Items(tail'[m])) \/ \E q \in mail' : f = q.entry
    BY DEF Floating
  <2>2. ASSUME NEW m \in Nodes, f \in Items(tail'[m]) PROVE f \in Floating \cup {a}
    BY <1>3, <2>2 DEF Floating
  <2>3. ASSUME NEW q \in mail', f = q.entry PROVE f \in Floating
    BY <2>3 DEF Floating
  <2> QED BY <2>1, <2>2, <2>3
<1> QED BY <1>1, <1>4

\* A forwarded proposal is that entry.
LEMMA MailedEntries ==
    ASSUME UNCHANGED tail, NEW e, \A q \in mail' : q \in mail \/ q.entry = e
    PROVE  \A f \in Floating' : f \in Floating \cup {e}
BY DEF Floating

\* What taking a proposal off the channel does to senders, numbers and entries.
LEMMA ProposalTaken ==
    ASSUME TypeOK, QueueInv, NEW n \in Nodes, TakeProposal(n)
    PROVE  \E e \in Entry :
               /\ e.req \in Requests \ NotSent /\ call[e.req].node = n /\ e.seq = seqnum[n]
               /\ seqnum' = [seqnum EXCEPT ![n] = seqnum[n] + 1]
               /\ \A f \in Floating' : f \in Floating \cup {e, Empty}
               /\ \A m \in Nodes : resp'[m] \subseteq resp[m] \cup {e}
               /\ \A m \in Nodes \ {n} : resp'[m] = resp[m]
               /\ \A q \in Requests :
                      /\ slot'[q] = "success" => slot[q] = "success"
                      /\ slot'[q] # slot[q] => q = e.req \/ \E p \in resp[n] : p.req = q
               /\ UNCHANGED <<call, machine, log, applied, crashes>>
<1>1. /\ chan[n] # <<>> /\ chan[n] \in Seq(Requests) /\ resp \in [Nodes -> SUBSET Parked]
      /\ seqnum' = [seqnum EXCEPT ![n] = seqnum[n] + 1]
      /\ UNCHANGED <<call, machine, log, applied, crashes>>
  BY Types DEF TakeProposal, NextSeq, bounds
<1>2. PICK r \in Requests : r = Head(chan[n]) /\ call[r].node = n /\ r \notin NotSent
  <2>1. Head(chan[n]) \in Items(chan[n])
    BY <1>1, ItemsOfTail
  <2> QED BY <2>1, ElementTypes DEF QueueInv
<1>3. PICK e \in Entry : e = [req |-> r, seq |-> seqnum[n]]
  BY <1>2, Types DEF Entry
<1> DEFINE Lost == {p.req : p \in {q \in resp[n] : q.seq = e.seq}}
           Park == /\ resp' = [resp EXCEPT ![n] = {p \in @ : p.seq # e.seq} \cup {e}]
                   /\ slot' = Dropped(Lost)
<1>4. \/ /\ \E a \in Appended(n, e) : tail' = [tail EXCEPT ![n] = Append(@, a)]
         /\ Park /\ UNCHANGED mail
      \/ /\ mail' = mail \cup {[to |-> view[n], entry |-> e]}
         /\ Park /\ UNCHANGED tail
      \/ slot' = Dropped({r}) /\ UNCHANGED <<resp, tail, mail>>
  BY <1>2, <1>3 DEF TakeProposal
<1>5. \A f \in Floating' : f \in Floating \cup {e, Empty}
  <2> HIDE DEF Park
  <2>1. CASE (\E a \in Appended(n, e) : tail' = [tail EXCEPT ![n] = Append(@, a)]) /\ UNCHANGED mail
    <3>1. PICK a \in Appended(n, e) : tail' = [tail EXCEPT ![n] = Append(@, a)]
      BY <2>1
    <3> QED BY <2>1, <3>1, AppendedEntries
  <2>2. CASE mail' = mail \cup {[to |-> view[n], entry |-> e]} /\ UNCHANGED tail
    <3>1. \A q \in mail' : q \in mail \/ q.entry = e
      BY <2>2
    <3> QED BY <2>2, <3>1, MailedEntries
  <2>3. CASE UNCHANGED <<tail, mail>>
    BY <2>3 DEF Floating
  <2> QED BY <1>4, <2>1, <2>2, <2>3
<1>6. /\ \A m \in Nodes : resp'[m] \subseteq resp[m] \cup {e}
      /\ \A m \in Nodes \ {n} : resp'[m] = resp[m]
  <2>1. CASE Park
    BY <1>1, <2>1
  <2>2. CASE UNCHANGED resp
    BY <2>2
  <2> QED BY <1>4, <2>1, <2>2
<1>7. ASSUME NEW q \in Requests
      PROVE  /\ slot'[q] = "success" => slot[q] = "success"
             /\ slot'[q] # slot[q] => q = e.req \/ \E p \in resp[n] : p.req = q
  <2>1. CASE slot' = Dropped(Lost)
    <3>1. q \in Lost => \E p \in resp[n] : p.req = q
      OBVIOUS
    <3> HIDE DEF Lost
    <3> QED BY <2>1, <3>1, DroppedSlots
  <2>2. CASE slot' = Dropped({r})
    BY <1>3, <2>2, DroppedSlots
  <2> QED BY <1>4, <2>1, <2>2
<1>8. e.req = r /\ e.seq = seqnum[n]
  BY <1>3
<1> QED BY <1>1, <1>2, <1>5, <1>6, <1>7, <1>8

\* A number given out is the node's next one, so it is new there.
LEMMA ProposalIsNumbered ==
    ASSUME TypeOK, NumberInv, QueueInv, NEW n \in Nodes, TakeProposal(n)
    PROVE  NumberInv'
<1>1. PICK e \in Entry :
          /\ e.req \in Requests \ NotSent /\ call[e.req].node = n /\ e.seq = seqnum[n]
          /\ seqnum' = [seqnum EXCEPT ![n] = seqnum[n] + 1]
          /\ \A f \in Floating' : f \in Floating \cup {e, Empty}
          /\ \A m \in Nodes : resp'[m] \subseteq resp[m] \cup {e}
          /\ \A m \in Nodes \ {n} : resp'[m] = resp[m]
          /\ \A q \in Requests :
                 /\ slot'[q] = "success" => slot[q] = "success"
                 /\ slot'[q] # slot[q] => q = e.req \/ \E p \in resp[n] : p.req = q
          /\ UNCHANGED <<call, machine, log, applied, crashes>>
  BY ProposalTaken
<1>2. Numbered' \subseteq Numbered \cup {e, Empty}
  <2>1. Items(log)' = Items(log)
    BY <1>1 DEF Items
  <2>2. UNION {resp'[m] : m \in Nodes} \subseteq (UNION {resp[m] : m \in Nodes}) \cup {e}
    BY <1>1
  <2> QED BY <1>1, <2>1, <2>2 DEF Numbered
<1>3. /\ seqnum \in [Nodes -> Nat] /\ seqnum' \in [Nodes -> Nat]
      /\ seqnum[n] \in Nat \ {0} /\ seqnum'[n] = seqnum[n] + 1
      /\ \A m \in Nodes \ {n} : seqnum'[m] = seqnum[m]
  <2>1. seqnum \in [Nodes -> Nat] BY Types
  <2>2. seqnum[n] >= 1 BY DEF NumberInv
  <2> QED BY <1>1, <2>1, <2>2
<1>4. \A m \in Nodes : seqnum[m] \in Nat /\ seqnum'[m] \in Nat /\ seqnum[m] <= seqnum'[m]
                       /\ seqnum[m] >= 1
  BY <1>3 DEF NumberInv
<1>5. e.req \in Requests /\ e.req # NoRequest /\ NotSent' = NotSent /\ e.seq \in Nat \ {0}
  BY <1>1, <1>3, ConstantsAssumption DEF NotSent
<1>6. ASSUME NEW f \in Numbered, f.req # NoRequest
      PROVE  /\ f.req \in Requests \ NotSent /\ call[f.req].node \in Nodes
             /\ f.seq \in Nat \ {0} /\ f.seq < seqnum[call[f.req].node]
  <2>1. HasNumber(f) /\ f.req \in Requests
    BY <1>6, NumberedTypes DEF NumberInv
  <2>2. call[f.req].node \in Nodes /\ f.req \notin NotSent
        /\ f.seq \in 1 .. seqnum[call[f.req].node] - 1
    BY <1>6, <2>1 DEF HasNumber
  <2>3. seqnum[call[f.req].node] \in Nat
    BY <1>4, <2>2
  <2> QED BY <2>1, <2>2, <2>3
<1>7. ASSUME NEW f \in Numbered' PROVE HasNumber(f)'
  <2>1. CASE f = Empty
    BY <2>1 DEF HasNumber, Empty
  <2>2. CASE f = e
    <3>1. e.seq \in 1 .. seqnum'[n] - 1
      BY <1>1, <1>3
    <3> QED BY <1>1, <1>5, <2>2, <3>1 DEF HasNumber
  <2>3. CASE f \in Numbered /\ f.req = NoRequest
    BY <2>3 DEF HasNumber, NumberInv
  <2>4. CASE f \in Numbered /\ f.req # NoRequest
    <3> DEFINE m == call[f.req].node
    <3>1. m \in Nodes /\ f.seq \in Nat \ {0} /\ f.seq < seqnum[m] /\ f.req \notin NotSent
      BY <1>6, <2>4
    <3>2. seqnum[m] \in Nat /\ seqnum'[m] \in Nat /\ seqnum[m] <= seqnum'[m]
      BY <1>4, <3>1
    <3> HIDE DEF m
    <3>3. f.seq \in 1 .. seqnum'[m] - 1
      BY <3>1, <3>2
    <3> QED BY <1>1, <1>5, <2>4, <3>1, <3>3 DEF HasNumber, m
  <2> QED BY <1>2, <2>1, <2>2, <2>3, <2>4
<1>8. ASSUME NEW f \in Numbered, f.req # NoRequest, call[f.req].node = n PROVE f.seq # e.seq
  <2>1. f.seq \in Nat /\ f.seq < seqnum[n]
    BY <1>6, <1>8
  <2> QED BY <1>1, <1>3, <2>1
<1>9. ASSUME NEW f \in Numbered', NEW g \in Numbered' PROVE OwnNumber(f, g)'
  <2> SUFFICES ASSUME f.req # NoRequest, g.req # NoRequest,
                      call[f.req].node = call[g.req].node, f.seq = g.seq
               PROVE  f.req = g.req
    BY <1>1 DEF OwnNumber
  <2>1. f \in Numbered \cup {e} /\ g \in Numbered \cup {e}
    BY <1>2 DEF Empty
  <2>2. CASE f \in Numbered /\ g \in Numbered
    BY <2>2 DEF NumberInv, OwnNumber
  <2>3. CASE f = e \/ g = e
    BY <1>1, <1>8, <2>1, <2>3
  <2> QED BY <2>1, <2>2, <2>3
<1>10. \A m \in Nodes : \A p \in resp'[m] : call'[p.req].node = m
  BY <1>1 DEF NumberInv
<1>11. \A r \in Requests : /\ call'[r].st = "idle" => slot'[r] = "open" /\ call'[r].node = NoNode
                           /\ call'[r].st # "idle" => call'[r].node \in Nodes
  <2>1. ASSUME NEW r \in Requests, call[r].st = "idle" PROVE slot'[r] = slot[r]
    <3>1. r \in NotSent
      BY <2>1 DEF NotSent
    <3>2. \A p \in resp[n] : p.req # r
      <4>1. \A p \in resp[n] : p \in Numbered /\ p.req # NoRequest
        BY NumberedTypes
      <4> QED BY <1>6, <3>1, <4>1
    <3> QED BY <1>1, <3>1, <3>2
  <2> QED BY <1>1, <2>1 DEF NumberInv
<1>12. \A m \in Nodes : machine'[m] # "down" /\ seqnum'[m] >= 1
  <2>1. ASSUME NEW m \in Nodes PROVE seqnum'[m] >= 1
    BY <1>4
  <2> QED BY <1>1, <2>1 DEF NumberInv
<1> QED BY <1>7, <1>9, <1>10, <1>11, <1>12 DEF NumberInv

\* With all calls at one node, the sender parked under an applied entry's number
\* is that of the call that proposed the entry.
LEMMA AnswersOwnEntry ==
    ASSUME TypeOK, NumberInv, OneNode, NEW n \in Nodes, applied[n] < Len(log),
           NEW p \in Answered(n, log[applied[n] + 1])
    PROVE  log[applied[n] + 1].req = p.req
<1>1. applied[n] \in Nat /\ Len(log) \in Nat
  BY DEF TypeOK
<1>2. PICK e \in Numbered : e = log[applied[n] + 1]
  BY <1>1, NumberedTypes
<1>3. p \in resp[n] /\ p.seq = e.seq /\ p \in Numbered /\ p.req \in Requests /\ p.req # NoRequest
  BY <1>2, NumberedTypes, ConstantsAssumption DEF Answered
<1>4. HasNumber(p) /\ HasNumber(e) /\ OwnNumber(e, p) /\ call[p.req].node = n
  BY <1>2, <1>3 DEF NumberInv
<1>5. e.req # NoRequest
  <2>1. seqnum[n] \in Nat
    BY Types
  <2>2. p.seq \in 1 .. seqnum[n] - 1
    BY <1>3, <1>4 DEF HasNumber
  <2>3. p.seq # 0
    BY <2>1, <2>2
  <2> QED BY <1>3, <1>4, <2>3 DEF HasNumber
<1>6. e.req \in Requests /\ call[e.req].node \in Nodes
  BY <1>2, <1>4, <1>5, NumberedTypes DEF HasNumber
<1>7. call[e.req].node = n
  BY <1>3, <1>4, <1>6, ConstantsAssumption DEF OneNode
<1> QED BY <1>2, <1>3, <1>4, <1>5, <1>7 DEF OwnNumber

\* One step per action; a restart needs a crash before it.
LEMMA SequenceInvIsInductive ==
    ASSUME TypeOK, TypeOK', AnswerInv, SequenceInv, [Next]_vars
    PROVE  SequenceInv'
<1> SUFFICES ASSUME crashes' = 0
             PROVE  NumberInv' /\ (OneNode' => AnswerIsForOwnEntry')
  BY DEF SequenceInv
<1>0. /\ QueueInv
      /\ UNCHANGED crashes => NumberInv /\ (OneNode => AnswerIsForOwnEntry)
  BY DEF AnswerInv, SequenceInv
<1>S. \A r \in Requests : call[r] \in CallRecord
  BY DEF TypeOK, CallRecord, Progress
<1>A. UNCHANGED <<log, applied>> =>
          \A n \in Nodes : \A i \in 1 .. applied[n] : i \in 1 .. applied'[n] /\ log'[i] = log[i]
  OBVIOUS
<1>M. UNCHANGED <<log, machine, resp>> /\ NumberInv =>
          /\ Items(log)' \subseteq Items(log) \cup Floating
          /\ \A n \in Nodes : machine'[n] # "down" /\ resp'[n] \subseteq resp[n]
  BY DEF Items, NumberInv
<1>C. UNCHANGED call /\ NumberInv =>
          /\ NotSent' \subseteq NotSent
          /\ \A r \in Requests \ NotSent : call'[r].node = call[r].node
          /\ \A r \in Requests : call'[r].st # "idle" => call'[r].node \in Nodes
  BY DEF NotSent, NumberInv
<1>1. ASSUME NEW r \in Requests, NEW n \in Nodes, NEW k \in Kinds, Call(r, n, k)
      PROVE  NumberInv' /\ (OneNode' => AnswerIsForOwnEntry')
  <2>1. /\ call[r].st = "idle"
        /\ UNCHANGED <<slot, chan, seqnum, resp, machine, log, tail, mail, applied, crashes>>
        /\ \A q \in Requests : q # r => call'[q] = call[q]
        /\ call'[r].st = "sending" /\ call'[r].node = n
    BY <1>1 DEF Call, queues, raft, bounds, TypeOK
  <2>2. NumberInv /\ (OneNode => AnswerIsForOwnEntry) /\ slot[r] = "open" /\ call[r].node = NoNode
    BY <1>0, <2>1 DEF NumberInv
  <2>3. NotSent' \subseteq NotSent /\ r \in NotSent
    BY <2>1 DEF NotSent
  <2>4. Floating' = Floating
    BY <2>1, SameEntries
  <2>5. \A q \in Requests \ NotSent : call'[q].node = call[q].node
    BY <2>1, <2>3
  <2>6. \A q \in Requests : /\ call'[q].st = "idle" => call[q].st = "idle" /\ call'[q] = call[q]
                            /\ call'[q].st # "idle" => call'[q].node \in Nodes
    BY <2>1, <2>2 DEF NumberInv
  <2>7. NumberInv'
    BY <1>M, <2>1, <2>2, <2>3, <2>4, <2>5, <2>6, KeepsNumbers
  <2>8. OneNode' => AnswerIsForOwnEntry'
    BY <1>A, <2>1, <2>2, KeepsAnswers
  <2> QED BY <2>7, <2>8
<1>2. ASSUME NEW r \in Requests, Send(r) PROVE NumberInv' /\ (OneNode' => AnswerIsForOwnEntry')
  <2>1. /\ call[r].st = "sending" /\ call' = [call EXCEPT ![r].st = "waiting"]
        /\ UNCHANGED <<seqnum, resp, machine, log, tail, mail, applied, crashes>>
        /\ slot' = slot \/ slot' = Dropped({r})
        /\ call \in [Requests -> CallRecord]
    BY <1>2 DEF Send, InState, raft, bounds, TypeOK, CallRecord, Progress
  <2>2. NumberInv /\ (OneNode => AnswerIsForOwnEntry)
    BY <1>0, <2>1
  <2>3. \A q \in Requests : /\ call'[q].node = call[q].node /\ call'[q].kind = call[q].kind
                            /\ q # r => call'[q] = call[q] /\ slot'[q] = slot[q]
                            /\ slot'[q] = "success" => slot[q] = "success"
                            /\ q = r => call'[q].st = "waiting"
    BY <2>1, DroppedSlots DEF CallRecord
  <2>4. NotSent' \subseteq NotSent
    BY <2>1, <2>3 DEF NotSent
  <2>5. Floating' = Floating
    BY <2>1, SameEntries
  <2>6. \A q \in Requests : /\ call'[q].st = "idle" => call[q].st = "idle" /\ slot'[q] = slot[q]
                            /\ call'[q].st # "idle" => call'[q].node \in Nodes
    BY <2>1, <2>2, <2>3 DEF NumberInv
  <2>7. NumberInv'
    BY <1>M, <2>1, <2>2, <2>3, <2>4, <2>5, <2>6, KeepsNumbers
  <2>8. OneNode' => AnswerIsForOwnEntry'
    BY <1>A, <2>1, <2>2, <2>3, KeepsAnswers
  <2> QED BY <2>7, <2>8
<1>3. ASSUME NEW r \in Requests, Return(r) \/ Timeout(r)
      PROVE  NumberInv' /\ (OneNode' => AnswerIsForOwnEntry')
  <2>1. /\ call[r].st = "waiting"
        /\ UNCHANGED <<slot, seqnum, resp, machine, log, tail, mail, applied, crashes>>
        /\ call \in [Requests -> CallRecord]
        /\ \E s \in {"ok", "timeout"} : call' = [call EXCEPT ![r].st = s]
    BY <1>3 DEF Return, Timeout, InState, queues, raft, bounds, TypeOK, CallRecord, Progress
  <2>2. NumberInv /\ (OneNode => AnswerIsForOwnEntry)
    BY <1>0, <2>1
  <2>3. \A q \in Requests : /\ call'[q].node = call[q].node /\ call'[q].kind = call[q].kind
                            /\ q # r => call'[q] = call[q]
                            /\ q = r => call'[q].st \in {"ok", "timeout"}
    BY <2>1 DEF CallRecord
  <2>4. NotSent' \subseteq NotSent
    BY <2>1, <2>3 DEF NotSent
  <2>5. Floating' = Floating
    BY <2>1, SameEntries
  <2>6. \A q \in Requests : /\ call'[q].st = "idle" => call[q].st = "idle"
                            /\ call'[q].st # "idle" => call'[q].node \in Nodes
    BY <2>1, <2>2, <2>3 DEF NumberInv
  <2>7. NumberInv'
    BY <1>M, <2>1, <2>2, <2>3, <2>4, <2>5, <2>6, KeepsNumbers
  <2>8. OneNode' => AnswerIsForOwnEntry'
    BY <1>A, <2>1, <2>2, <2>3, KeepsAnswers
  <2> QED BY <2>7, <2>8
<1>4. ASSUME NEW n \in Nodes, TakeProposal(n)
      PROVE  NumberInv' /\ (OneNode' => AnswerIsForOwnEntry')
  <2>1. /\ \A q \in Requests : slot'[q] = "success" => slot[q] = "success"
        /\ UNCHANGED <<call, log, applied, crashes>>
    BY <1>0, <1>4, ProposalTaken
  <2>2. NumberInv /\ (OneNode => AnswerIsForOwnEntry)
    BY <1>0, <2>1
  <2>3. NumberInv'
    BY <1>0, <1>4, <2>2, ProposalIsNumbered
  <2>4. OneNode' => AnswerIsForOwnEntry'
    BY <1>A, <2>1, <2>2, KeepsAnswers
  <2> QED BY <2>3, <2>4
<1>5. ASSUME NEW n \in Nodes, TakeStep(n)
      PROVE  NumberInv' /\ (OneNode' => AnswerIsForOwnEntry')
  <2>1. /\ chan[n] # <<>> /\ chan[n] \in Seq(Requests)
        /\ UNCHANGED <<call, seqnum, resp, machine, log, tail, mail, applied, crashes>>
    BY <1>5, Types DEF TakeStep, raft, bounds
  <2>2. PICK r \in Requests : r = Head(chan[n]) /\ r \notin NotSent
    <3>1. Head(chan[n]) \in Items(chan[n])
      BY <2>1, ItemsOfTail
    <3> QED BY <1>0, <3>1, ElementTypes DEF QueueInv
  <2>3. call[r].kind = "step" /\ slot' \in {[slot EXCEPT ![r] = "success"], Dropped({r})}
    BY <1>5, <2>2 DEF TakeStep
  <2>4. /\ slot \in [Requests -> {"open", "success", "dropped"}]
        /\ \A q \in Requests : q # r => slot'[q] = slot[q]
    BY <2>3, DroppedSlots, Types
  <2>5. NumberInv /\ (OneNode => AnswerIsForOwnEntry) /\ Floating' = Floating
    BY <1>0, <2>1, SameEntries
  <2>6. \A q \in Requests : call'[q].st = "idle" => call[q].st = "idle" /\ slot'[q] = slot[q]
    BY <2>1, <2>2, <2>4 DEF NotSent
  <2>7. NumberInv'
    BY <1>C, <1>M, <2>1, <2>5, <2>6, KeepsNumbers
  <2>8. \A q \in Requests : slot'[q] = "success" /\ call[q].kind # "step" => slot[q] = "success"
    BY <2>3, <2>4
  <2>9. OneNode' => AnswerIsForOwnEntry'
    BY <1>A, <2>1, <2>5, <2>8, KeepsAnswers
  <2> QED BY <2>7, <2>9
<1>6. ASSUME NEW n \in Nodes, Apply(n) PROVE NumberInv' /\ (OneNode' => AnswerIsForOwnEntry')
  <2>1. /\ UNCHANGED <<call, seqnum, log, tail, mail, crashes>> /\ applied[n] < Len(log)
        /\ resp \in [Nodes -> SUBSET Parked] /\ chan \in [Nodes -> Seq(Requests)]
        /\ Len(log) \in Nat /\ applied \in [Nodes -> 0 .. Len(log)]
    <3>1. UNCHANGED <<call, seqnum, log, tail, mail, crashes>> /\ applied[n] < Len(log)
      BY <1>6 DEF Apply, bounds
    <3>2. applied \in [Nodes -> 0 .. Len(log)]
      BY DEF TypeOK
    <3> QED BY <3>1, <3>2, Types
  <2>2. NumberInv /\ (OneNode => AnswerIsForOwnEntry) /\ Floating' = Floating
        /\ Items(log)' = Items(log) /\ \A m \in Nodes : machine[m] # "down"
    BY <1>0, <2>1, SameEntries DEF Items, NumberInv
  \* whoever the node answers, or drops, was sent
  <2>3. /\ \A p \in resp[n] : p.req \in Requests \ NotSent /\ call[p.req].node = n
        /\ \A i \in 1 .. Len(chan[n]) : chan[n][i] \notin NotSent
    <3>1. \A p \in resp[n] : /\ p \in Numbered /\ p.req \in Requests /\ p.req # NoRequest
                             /\ HasNumber(p) /\ call[p.req].node = n
      BY <2>2, NumberedTypes, ConstantsAssumption DEF NumberInv
    <3>2. \A i \in 1 .. Len(chan[n]) : chan[n][i] \in Items(chan[n])
      BY DEF Items
    <3> QED BY <1>0, <3>1, <3>2 DEF HasNumber, QueueInv
  <2>4. CASE UNCHANGED applied
    <3> DEFINE Lost == {p.req : p \in resp[n]} \cup {chan[n][i] : i \in 1 .. Len(chan[n])}
    <3>1. /\ slot' = Dropped(Lost) /\ machine' = [machine EXCEPT ![n] = "failed"]
          /\ resp' = [resp EXCEPT ![n] = {}]
      <4>1. applied' # [applied EXCEPT ![n] = @ + 1]
        <5>1. [applied EXCEPT ![n] = @ + 1][n] = applied[n] + 1
          BY <2>1
        <5>2. applied[n] + 1 # applied[n]
          BY <2>1
        <5> QED BY <2>4, <5>1, <5>2
      <4> QED BY <1>6, <4>1 DEF Apply
    <3>2. \A m \in Nodes : machine'[m] # "down" /\ resp'[m] \subseteq resp[m]
      <4>1. machine \in [Nodes -> {"absent", "running", "failed", "down"}]
        BY DEF TypeOK
      <4> QED BY <2>1, <2>2, <3>1, <4>1
    <3>3. Lost \cap NotSent = {}
      BY <2>3
    <3>4. \A q \in Requests : /\ q \in NotSent => slot'[q] = slot[q]
                              /\ slot'[q] = "success" => slot[q] = "success"
      <4> HIDE DEF Lost
      <4> QED BY <3>1, <3>3, DroppedSlots
    <3>5. \A q \in Requests : call'[q].st = "idle" => call[q].st = "idle" /\ slot'[q] = slot[q]
      BY <2>1, <3>4 DEF NotSent
    <3>6. NumberInv'
      BY <1>C, <2>1, <2>2, <3>2, <3>5, KeepsNumbers
    <3>7. OneNode' => AnswerIsForOwnEntry'
      BY <1>A, <2>1, <2>2, <2>4, <3>4, KeepsAnswers
    <3> QED BY <3>6, <3>7
  <2>5. CASE ~UNCHANGED applied
    <3>1. PICK e \in Entry : e = log[applied[n] + 1]
      BY <2>1, Types
    <3> DEFINE Done == {p.req : p \in Answered(n, e)}
    <3>2. /\ applied' = [applied EXCEPT ![n] = @ + 1]
          /\ slot' = [r \in Requests |-> IF r \in Done THEN "success" ELSE slot[r]]
          /\ resp' = [resp EXCEPT ![n] = @ \ Answered(n, e)]
          /\ UNCHANGED machine
      BY <1>6, <2>5, <3>1 DEF Apply
    <3>3. \A q \in Requests : q \notin Done => slot'[q] = slot[q]
      <4> HIDE DEF Done
      <4> QED BY <3>2
    <3>4. \A m \in Nodes : machine'[m] # "down" /\ resp'[m] \subseteq resp[m]
      BY <2>1, <2>2, <3>2
    <3>5. ASSUME NEW q \in Done PROVE q \in Requests \ NotSent /\ call[q].node = n
      BY <2>3 DEF Answered
    <3>6. \A q \in Requests : call'[q].st = "idle" => call[q].st = "idle" /\ slot'[q] = slot[q]
      <4> HIDE DEF Done
      <4> QED BY <2>1, <3>3, <3>5 DEF NotSent
    <3>7. NumberInv'
      BY <1>C, <2>1, <2>2, <3>4, <3>6, KeepsNumbers
    <3>8. /\ \A m \in Nodes \ {n} : applied'[m] = applied[m]
          /\ applied'[n] = applied[n] + 1 /\ applied[n] \in Nat
      BY <2>1, <3>2
    <3>9. \A m \in Nodes : \A i \in 1 .. applied[m] : i \in 1 .. applied'[m]
      <4>1. \A i \in 1 .. applied[n] : i \in 1 .. applied'[n]
        BY <3>8
      <4> QED BY <3>8, <4>1
    <3>10. ASSUME OneNode', NEW q \in Requests, slot'[q] = "success", call[q].kind # "step"
           PROVE  \E i \in 1 .. applied'[call[q].node] : log[i].req = q
      <4>1. OneNode
        BY <2>1, <3>10 DEF OneNode
      <4>2. CASE q \in Done
        <5>1. PICK p \in Answered(n, e) : p.req = q
          BY <4>2
        <5>2. e.req = q
          BY <2>1, <2>2, <3>1, <4>1, <5>1, AnswersOwnEntry
        <5>3. applied[n] + 1 \in 1 .. applied'[n]
          BY <3>8
        <5> QED BY <3>1, <3>5, <4>2, <5>2, <5>3
      <4>3. CASE q \notin Done
        <5>1. slot[q] = "success"
          BY <3>3, <3>10, <4>3
        <5>2. PICK i \in 1 .. applied[call[q].node] : log[i].req = q
          BY <2>2, <3>10, <4>1, <5>1 DEF AnswerIsForOwnEntry
        <5>3. call[q].node \in Nodes
          BY <2>2, <5>1 DEF NumberInv
        <5> QED BY <3>9, <5>2, <5>3
      <4> QED BY <4>2, <4>3
    <3>11. OneNode' => AnswerIsForOwnEntry'
      BY <2>1, <3>10 DEF AnswerIsForOwnEntry
    <3> QED BY <3>7, <3>11
  <2> QED BY <2>4, <2>5
<1>7. ASSUME NEW n \in Nodes, Elect(n) PROVE NumberInv' /\ (OneNode' => AnswerIsForOwnEntry')
  <2>1. /\ UNCHANGED <<call, slot, seqnum, resp, machine, log, mail, applied, crashes>>
        /\ tail \in [Nodes -> Seq(Entry)]
    BY <1>7, Types DEF Elect, calls, queues
  <2>2. PICK m \in Nodes : \E k \in 0 .. Len(tail[m]) : tail' = [tail EXCEPT ![n] = SubSeq(tail[m], 1, k)]
    BY <1>7 DEF Elect
  <2>3. Items(tail'[n]) \subseteq Items(tail[m]) /\ \A x \in Nodes \ {n} : tail'[x] = tail[x]
    <3>1. PICK k \in 0 .. Len(tail[m]) : tail' = [tail EXCEPT ![n] = SubSeq(tail[m], 1, k)]
      BY <2>2
    <3>2. tail[m] \in Seq(Entry) /\ tail'[n] = SubSeq(tail[m], 1, k)
      BY <2>1, <3>1
    <3> QED BY <2>1, <3>1, <3>2, ItemsOfSubSeq
  <2>4. \A x \in Nodes : \E y \in Nodes : Items(tail'[x]) \subseteq Items(tail[y])
    BY <2>3
  <2>5. Floating' \subseteq Floating
    BY <2>1, <2>4, SmallerTails
  <2>6. NumberInv /\ (OneNode => AnswerIsForOwnEntry)
    BY <1>0, <2>1
  <2>7. NumberInv'
    BY <1>C, <1>M, <2>1, <2>5, <2>6, KeepsNumbers
  <2>8. OneNode' => AnswerIsForOwnEntry'
    BY <1>A, <2>1, <2>6, KeepsAnswers
  <2> QED BY <2>7, <2>8
<1>8. ASSUME UNCHANGED <<call, slot, seqnum, resp, machine, log, tail, mail, applied, crashes>>
      PROVE  NumberInv' /\ (OneNode' => AnswerIsForOwnEntry')
  <2>1. NumberInv /\ (OneNode => AnswerIsForOwnEntry) /\ Floating' = Floating
    BY <1>0, <1>8, SameEntries
  <2>2. NumberInv'
    BY <1>C, <1>M, <1>8, <2>1, KeepsNumbers
  <2>3. OneNode' => AnswerIsForOwnEntry'
    BY <1>A, <1>8, <2>1, KeepsAnswers
  <2> QED BY <2>2, <2>3
<1>9. CASE Commit
  <2>1. /\ leader \in Nodes /\ tail[leader] # <<>>
        /\ UNCHANGED <<call, slot, seqnum, resp, machine, mail, applied, crashes>>
    BY <1>9 DEF Commit, TypeOK, calls, queues, bounds
  <2>2. PICK e \in Entry : e = Head(tail[leader]) /\ e \in Floating
    <3>1. tail[leader] \in Seq(Entry)
      BY <2>1, Types
    <3>2. Head(tail[leader]) \in Items(tail[leader]) /\ Head(tail[leader]) \in Entry
      BY <2>1, <3>1, ItemsOfTail
    <3> QED BY <2>1, <3>2 DEF Floating
  <2>3. /\ log' = Append(log, e)
        /\ \A n \in Nodes : \/ tail'[n] = tail[n]
                            \/ tail[n] # <<>> /\ tail'[n] = Tail(tail[n])
    BY <1>9, <2>2 DEF Commit
  <2>4. Floating' \subseteq Floating
    <3>1. tail \in [Nodes -> Seq(Entry)] BY Types
    <3>2. \A n \in Nodes : Items(tail'[n]) \subseteq Items(tail[n])
      BY <2>3, <3>1, ItemsOfTail
    <3> QED BY <2>1, <3>2, SmallerTails
  <2>5. log \in Seq(Entry) /\ Len(log) \in Nat /\ \A i \in 1 .. Len(log) : log'[i] = log[i]
    BY <2>3, Types
  <2>6. Items(log)' = Items(log) \cup {e}
    BY <2>3, <2>5, ItemsOfAppend
  <2>7. NumberInv /\ (OneNode => AnswerIsForOwnEntry)
    BY <1>0, <2>1
  <2>8. \A n \in Nodes : machine'[n] # "down" /\ resp'[n] \subseteq resp[n]
    BY <2>1, <2>7 DEF NumberInv
  <2>9. NumberInv'
    BY <1>C, <2>1, <2>2, <2>4, <2>6, <2>7, <2>8, KeepsNumbers
  <2>10. ASSUME NEW n \in Nodes, NEW i \in 1 .. applied[n]
         PROVE  i \in 1 .. applied'[n] /\ log'[i] = log[i]
    <3>1. applied[n] \in 0 .. Len(log) BY DEF TypeOK
    <3>2. i \in 1 .. Len(log) BY <2>5, <3>1
    <3> QED BY <2>1, <2>5, <3>2
  <2>11. OneNode' => AnswerIsForOwnEntry'
    BY <2>1, <2>7, <2>10, KeepsAnswers
  <2> QED BY <2>9, <2>11
<1>10. ASSUME NEW p \in mail, Deliver(p)
       PROVE  NumberInv' /\ (OneNode' => AnswerIsForOwnEntry')
  <2>1. /\ UNCHANGED <<call, slot, seqnum, resp, machine, log, applied, crashes>>
        /\ p.to \in Nodes /\ p.entry \in Entry /\ p \in [to : Nodes, entry : Entry]
    <3>1. UNCHANGED <<call, slot, seqnum, resp, machine, log, applied, crashes>>
      BY <1>10 DEF Deliver, calls, queues, bounds
    <3>2. p \in [to : Nodes, entry : Entry]
      BY Types
    <3> QED BY <3>1, <3>2
  <2>2. p.entry \in Floating
    BY DEF Floating
  <2>3. Floating' \subseteq Floating \cup {Empty}
    <3>1. CASE UNCHANGED tail
      <4>1. \A q \in mail' : q \in mail \/ q.entry = p.entry
        BY <1>10, <2>1, <3>1 DEF Deliver
      <4> QED BY <2>2, <3>1, <4>1, MailedEntries
    <3>2. CASE ~UNCHANGED tail
      <4>1. PICK a \in Appended(p.to, p.entry) : tail' = [tail EXCEPT ![p.to] = Append(@, a)]
        BY <1>10, <3>2 DEF Deliver
      <4>2. mail' \subseteq mail
        BY <1>10, <3>2 DEF Deliver
      <4> QED BY <2>1, <2>2, <4>1, <4>2, AppendedEntries, ZenonT(30)
    <3> QED BY <3>1, <3>2
  <2>4. NumberInv /\ (OneNode => AnswerIsForOwnEntry)
    BY <1>0, <2>1
  <2>5. NumberInv'
    BY <1>C, <1>M, <2>1, <2>3, <2>4, KeepsNumbers
  <2>6. OneNode' => AnswerIsForOwnEntry'
    BY <1>A, <2>1, <2>4, KeepsAnswers
  <2> QED BY <2>5, <2>6
<1>11. ASSUME NEW n \in Nodes, Crash(n) PROVE FALSE
  <2>1. crashes' = crashes + 1 /\ crashes \in Nat
    BY <1>11 DEF Crash, TypeOK
  <2> QED BY <2>1
<1>12. ASSUME NEW n \in Nodes, Restart(n) PROVE FALSE
  <2>1. machine[n] = "down" /\ UNCHANGED crashes
    BY <1>12 DEF Restart, bounds
  <2> QED BY <1>0, <2>1 DEF NumberInv
<1>13. ASSUME NEW n \in Nodes, NEW m \in Nodes \cup {NoNode}, Learn(n, m)
       PROVE  NumberInv' /\ (OneNode' => AnswerIsForOwnEntry')
  <2>1. UNCHANGED <<call, slot, seqnum, resp, machine, log, tail, mail, applied, crashes>>
    BY <1>13 DEF Learn, calls, queues, bounds
  <2> QED BY <1>8, <2>1
<1>14. CASE UNCHANGED vars
  <2>1. UNCHANGED <<call, slot, seqnum, resp, machine, log, tail, mail, applied, crashes>>
    BY <1>14 DEF vars, calls, queues, raft, bounds
  <2> QED BY <1>8, <2>1
<1> QED BY <1>1, <1>2, <1>3, <1>4, <1>5, <1>6, <1>7, <1>9, <1>10, <1>11, <1>12, <1>13, <1>14
        DEF Next, Turn

\* With all calls at one node and no crash, whoever leads, an answer of success
\* means that the call's own entry was applied on that node: the node's sequence
\* numbers never answer one call with another's entry, though entries are
\* forwarded, replaced, lost and reordered (handle_committed_entries).
THEOREM AnswerIsOwnAtOneNode == Spec => []AnswerAtOneNodeIsForOwnEntry
<1>1. Init => SequenceInv /\ AnswerInv
  <2> SUFFICES ASSUME Init PROVE SequenceInv /\ AnswerInv OBVIOUS
  <2>1. /\ log = <<>> /\ mail = {} /\ \A n \in Nodes : tail[n] = <<>> /\ chan[n] = <<>>
        /\ \A n \in Nodes : resp[n] = {} /\ seqnum[n] = 1 /\ applied[n] = 0 /\ machine[n] # "down"
        /\ \A r \in Requests : slot[r] = "open" /\ call[r].st = "idle" /\ call[r].node = NoNode
    BY DEF Init
  <2>2. Floating = {} /\ Items(log) = {} /\ \A n \in Nodes : Items(chan[n]) = {}
    BY <2>1 DEF Floating, Items
  <2>3. Proposed = {} /\ Numbered = {}
    BY <2>1, <2>2 DEF Proposed, Numbered
  <2>4. AnswerInv
    BY <2>1, <2>2, <2>3 DEF AnswerInv, OwnedInv, QueueInv, AppliedIsAnswered
  <2>5. NumberInv
    BY <2>1, <2>3 DEF NumberInv
  <2> QED BY <2>1, <2>4, <2>5 DEF SequenceInv, AnswerIsForOwnEntry
<1>2. TypeOK /\ TypeOK' /\ SequenceInv /\ AnswerInv /\ [Next]_vars => SequenceInv' /\ AnswerInv'
  BY AnswerInvIsInductive, SequenceInvIsInductive
<1>3. SequenceInv => AnswerAtOneNodeIsForOwnEntry
  BY DEF SequenceInv, AnswerAtOneNodeIsForOwnEntry, OneNode
<1> QED BY <1>1, <1>2, <1>3, CallTypeCorrect, PTL DEF Spec

=============================================================================

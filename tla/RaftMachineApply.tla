-------------------------- MODULE RaftMachineApply --------------------------
(***************************************************************************)
(* How a call on the self-built Raft path gets its answer: a gRPC handler  *)
(* sends a RaftMessage with a oneshot sender into the bounded channel of   *)
(* its node and waits up to 30 seconds; RaftMachine::run takes messages    *)
(* off the channel, proposes them under a sequence number, parks the       *)
(* sender in resp_channel and answers it when an entry that carries that   *)
(* sequence number is applied.                                             *)
(*                                                                         *)
(* Every node has its own channel, its own sequence numbers and its own    *)
(* resp_channel; the entries of all of them meet in one Raft log.  raft-rs *)
(* is external: elections, which entries a new leader keeps, commits, and  *)
(* that a follower forwards a proposal to the leader it knows.  The empty  *)
(* entry of a new leader carries no sequence number and is left out.       *)
(***************************************************************************)
EXTENDS Naturals, Sequences

CONSTANTS
    Nodes, Requests,
    NoNode, NoRequest,  \* no leader is known; an entry without a request
    Kinds,              \* the calls that are made, see Kind
    Capacity,           \* of a node's mpsc channel (1000 in lib.rs)
    Running,            \* whether start_server spawns RaftMachine::run
    RoutePanics,        \* whether routing a KV command panics
    MaxElections, MaxCrashes  \* bounds: leaders elected, nodes that crash

(* set: services_kv's writes; conf: send_raft_conf_change, learner: with a  *)
(* change that adds a learner; step: the calls that the run loop answers at *)
(* once, send_raft_message and transfer_leader.                             *)
Kind == {"set", "conf", "learner", "step"}

ASSUME ConstantsAssumption ==
    /\ NoNode \notin Nodes /\ NoRequest \notin Requests
    /\ Kinds \subseteq Kind
    /\ Capacity \in Nat \ {0} /\ MaxElections \in Nat /\ MaxCrashes \in Nat
    /\ Running \in BOOLEAN /\ RoutePanics \in BOOLEAN

VARIABLES
    call,       \* each call: its state, node and kind
    slot,       \* each call's oneshot sender: "open", "success" or "dropped"
    chan,       \* raft_message channel of each node
    seqnum,     \* next sequence number of each node
    resp,       \* resp_channel of each node: parked senders by sequence number
    machine,    \* RaftMachine of each node: "absent", "running", "failed" or "down"
    view,       \* the leader each node's RawNode knows
    leader,     \* ghost: the leader of the latest term
    log,        \* committed entries
    tail,       \* entries a node appended after them, as a leader
    stale,      \* ghost: nodes whose tail conflicts with a committed entry
    mail,       \* forwarded proposals on their way
    applied,    \* each node's applied index
    elections, crashes

calls == <<call, slot>>
queues == <<chan, seqnum, resp>>
raft == <<view, leader, log, tail, stale, mail, applied>>
bounds == <<elections, crashes>>
vars == <<calls, queues, machine, raft, bounds>>

Entry == [req : Requests \cup {NoRequest}, seq : Nat]
Parked == [req : Requests, seq : Nat]

TypeOK ==
    /\ call \in [Requests -> [st : {"idle", "sending", "waiting", "ok", "timeout", "cut"},
                              node : Nodes \cup {NoNode}, kind : Kind]]
    /\ slot \in [Requests -> {"open", "success", "dropped"}]
    /\ chan \in [Nodes -> Seq(Requests)] /\ \A n \in Nodes : Len(chan[n]) <= Capacity
    /\ seqnum \in [Nodes -> Nat]
    /\ resp \in [Nodes -> SUBSET Parked]
    /\ machine \in [Nodes -> {"absent", "running", "failed", "down"}]
    /\ view \in [Nodes -> Nodes \cup {NoNode}] /\ leader \in Nodes \cup {NoNode}
    /\ log \in Seq(Entry) /\ tail \in [Nodes -> Seq(Entry)] /\ stale \subseteq Nodes
    /\ mail \subseteq [to : Nodes, entry : Entry]
    /\ applied \in [Nodes -> 0 .. Len(log)]
    /\ elections \in 0 .. MaxElections /\ crashes \in 0 .. MaxCrashes

Init ==
    /\ call = [r \in Requests |-> [st |-> "idle", node |-> NoNode, kind |-> "step"]]
    /\ slot = [r \in Requests |-> "open"]
    /\ chan = [n \in Nodes |-> <<>>]
    /\ seqnum = [n \in Nodes |-> 1]
    /\ resp = [n \in Nodes |-> {}]
    /\ machine = [n \in Nodes |-> IF Running THEN "running" ELSE "absent"]
    /\ view = [n \in Nodes |-> NoNode] /\ leader = NoNode
    /\ log = <<>> /\ tail = [n \in Nodes |-> <<>>] /\ stale = {} /\ mail = {}
    /\ applied = [n \in Nodes |-> 0]
    /\ elections = 0 /\ crashes = 0

-----------------------------------------------------------------------------
(* The calls. *)

InState(r, s) == call' = [call EXCEPT ![r].st = s]

\* A sender is dropped: its receiver sees an error.
Dropped(S) == [r \in Requests |-> IF r \in S /\ slot[r] = "open" THEN "dropped" ELSE slot[r]]

\* A handler starts.  KV writes are only proposed where the node takes itself
\* for the leader; the other services do not ask.
Call(r, n, k) ==
    /\ call[r].st = "idle" /\ machine[n] # "down"
    /\ k = "set" => view[n] = n
    /\ call' = [call EXCEPT ![r] = [st |-> "sending", node |-> n, kind |-> k]]
    /\ UNCHANGED <<slot, queues, machine, raft, bounds>>

BadRoom(n) == Len(chan[n]) <= Capacity
Room(n) == Len(chan[n]) < Capacity

\* sender.send(message).await, its result ignored: it waits while the channel
\* is full; once the receiver is gone it returns at once and drops the message.
Send(r) ==
    LET n == call[r].node IN
    /\ call[r].st = "sending"
    /\ IF machine[n] = "failed"
       THEN slot' = Dropped({r}) /\ UNCHANGED chan
       ELSE /\ Room(n)
            /\ chan' = [chan EXCEPT ![n] = Append(@, r)]
            /\ UNCHANGED slot
    /\ InState(r, "waiting")
    /\ UNCHANGED <<seqnum, resp, machine, raft, bounds>>

\* wait_recv_chan_resp: any outcome of the oneshot within the timeout is true.
Return(r) ==
    /\ call[r].st = "waiting" /\ slot[r] \in {"success", "dropped"}
    /\ InState(r, "ok")
    /\ UNCHANGED <<slot, queues, machine, raft, bounds>>

\* 30 seconds have passed since the message was sent.
Expired(r) == slot[r] = "open"
Timeout(r) ==
    /\ call[r].st = "waiting" /\ Expired(r)
    /\ InState(r, "timeout")
    /\ UNCHANGED <<slot, queues, machine, raft, bounds>>

-----------------------------------------------------------------------------
(* RaftMachine::run, one message per turn. *)

Serving(n) == machine[n] = "running"

Unapplied(n) == {log[i] : i \in applied[n] + 1 .. Len(log)}
                    \cup {tail[n][i] : i \in 1 .. Len(tail[n])}

BadNextSeq(n) == seqnum[n]
NextSeq(n) == seqnum[n] + 1

\* What a leader appends for a proposal.  A membership change that comes while
\* another is not applied yet is replaced by an empty entry.
Appended(n, e) ==
    {e} \cup IF /\ call[e.req].kind \in {"conf", "learner"}
                /\ \E u \in Unapplied(n) : u.req # NoRequest
             THEN {[req |-> NoRequest, seq |-> 0]} ELSE {}

\* A leader that hands its leadership over, or whose removal it has applied,
\* refuses proposals: some transfer was asked for, or some change proposed.
MayRefuse == \E r \in Requests :
    \/ call[r].kind = "step" /\ slot[r] = "success"
    \/ call[r].kind = "conf" /\ \E i \in 1 .. Len(log) : log[i].req = r

\* propose and propose_conf_change: accepted, forwarded or refused.
TakeProposal(n) ==
    LET r == Head(chan[n])
        e == [req |-> r, seq |-> seqnum[n]]
        Park == resp' = [resp EXCEPT ![n] = {p \in @ : p.seq # e.seq} \cup {e}]
                /\ slot' = Dropped({p.req : p \in {q \in resp[n] : q.seq = e.seq}})
    IN
    /\ Serving(n) /\ chan[n] # <<>> /\ call[r].kind # "step"
    /\ chan' = [chan EXCEPT ![n] = Tail(@)]
    /\ seqnum' = [seqnum EXCEPT ![n] = NextSeq(n)]
    /\ \/ /\ view[n] = n
          /\ \E a \in Appended(n, e) : tail' = [tail EXCEPT ![n] = Append(@, a)]
          /\ Park /\ UNCHANGED mail
       \/ /\ view[n] \in Nodes \ {n}
          /\ mail' = mail \cup {[to |-> view[n], entry |-> e]}
          /\ Park /\ UNCHANGED tail
       \/ /\ view[n] = NoNode \/ (view[n] = n /\ MayRefuse)
          /\ slot' = Dropped({r}) /\ UNCHANGED <<resp, tail, mail>>
    /\ UNCHANGED <<call, machine, view, leader, log, stale, applied, bounds>>

\* A Raft message or a leader transfer: answered as soon as step accepts it.
TakeStep(n) ==
    LET r == Head(chan[n]) IN
    /\ Serving(n) /\ chan[n] # <<>> /\ call[r].kind = "step"
    /\ chan' = [chan EXCEPT ![n] = Tail(@)]
    /\ slot' \in {[slot EXCEPT ![r] = "success"], Dropped({r})}
    /\ UNCHANGED <<call, seqnum, resp, machine, raft, bounds>>

\* The calls an applied entry answers: those parked under its sequence number.
BadAnswered(n, e) == {p \in resp[n] : p.seq = e.seq /\ view[n] = n}
Answered(n, e) == {p \in resp[n] : p.seq = e.seq}

\* handle_committed_entries, one entry; its panic ends the run task, drops the
\* receiver and every sender it held, and leaves the process and the role it
\* last published in place.
Apply(n) ==
    LET e == log[applied[n] + 1]
        Panics == /\ e.req # NoRequest
                  /\ \/ call[e.req].kind = "set" /\ RoutePanics
                     \/ call[e.req].kind = "learner"
        Lost == {p.req : p \in resp[n]} \cup {chan[n][i] : i \in 1 .. Len(chan[n])}
        Done == {p.req : p \in Answered(n, e)}
    IN
    /\ Serving(n) /\ applied[n] < Len(log)
    /\ IF Panics
       THEN /\ machine' = [machine EXCEPT ![n] = "failed"]
            /\ slot' = Dropped(Lost)
            /\ chan' = [chan EXCEPT ![n] = <<>>] /\ resp' = [resp EXCEPT ![n] = {}]
            /\ UNCHANGED applied
       ELSE /\ applied' = [applied EXCEPT ![n] = @ + 1]
            /\ slot' = [r \in Requests |-> IF r \in Done THEN "success" ELSE slot[r]]
            /\ resp' = [resp EXCEPT ![n] = @ \ Answered(n, e)]
            /\ UNCHANGED <<machine, chan>>
    /\ UNCHANGED <<call, seqnum, view, leader, log, tail, stale, mail, bounds>>

-----------------------------------------------------------------------------
(* raft-rs and the network. *)

\* n wins an election; its log is what it has from one of the leaders so far.
Elect(n) ==
    /\ Serving(n) /\ elections < MaxElections
    /\ \E m \in Nodes \ stale : \E k \in 0 .. Len(tail[m]) :
           tail' = [tail EXCEPT ![n] = SubSeq(tail[m], 1, k)]
    /\ stale' = stale \ {n}
    /\ leader' = n /\ view' = [view EXCEPT ![n] = n]
    /\ elections' = elections + 1
    /\ UNCHANGED <<calls, queues, machine, log, mail, applied, crashes>>

\* n hears of the leader, or of a newer term with no leader yet.
Learn(n, m) ==
    /\ Serving(n) /\ m \in {leader, NoNode} \ {n, view[n]}
    /\ view' = [view EXCEPT ![n] = m]
    /\ UNCHANGED <<calls, queues, machine, leader, log, tail, stale, mail, applied, bounds>>

\* The leader's next entry is committed; a tail that begins otherwise is stale.
Commit ==
    /\ leader # NoNode /\ Serving(leader) /\ view[leader] = leader /\ tail[leader] # <<>>
    /\ LET e == Head(tail[leader])
           With == {n \in Nodes : tail[n] # <<>> /\ Head(tail[n]) = e}
       IN /\ log' = Append(log, e)
          /\ tail' = [n \in Nodes |-> IF n \in With THEN Tail(tail[n]) ELSE tail[n]]
          /\ stale' = stale \cup (Nodes \ With)
    /\ UNCHANGED <<calls, queues, machine, view, leader, mail, applied, bounds>>

\* A forwarded proposal arrives where the leader is, or was thought to be.
Deliver(p) ==
    /\ p \in mail /\ Serving(p.to)
    /\ \/ /\ view[p.to] = p.to
          /\ \E a \in Appended(p.to, p.entry) :
                 tail' = [tail EXCEPT ![p.to] = Append(@, a)]
          /\ mail' = mail \ {p}
       \/ /\ view[p.to] \in Nodes \ {p.to}
          /\ mail' = (mail \ {p}) \cup {[p EXCEPT !.to = view[p.to]]}
          /\ UNCHANGED tail
       \/ /\ view[p.to] = NoNode \/ (view[p.to] = p.to /\ MayRefuse)
          /\ mail' = mail \ {p} /\ UNCHANGED tail
    /\ UNCHANGED <<calls, queues, machine, view, leader, log, stale, applied, bounds>>

\* The process ends: its callers see the connection close.
Crash(n) ==
    LET S == {r \in Requests : call[r].node = n /\ call[r].st \in {"sending", "waiting"}} IN
    /\ machine[n] # "down" /\ crashes < MaxCrashes
    /\ crashes' = crashes + 1
    /\ machine' = [machine EXCEPT ![n] = "down"]
    /\ call' = [r \in Requests |-> IF r \in S THEN [call[r] EXCEPT !.st = "cut"] ELSE call[r]]
    /\ slot' = Dropped({r \in Requests : call[r].node = n})
    /\ chan' = [chan EXCEPT ![n] = <<>>] /\ resp' = [resp EXCEPT ![n] = {}]
    /\ view' = [view EXCEPT ![n] = NoNode]
    /\ UNCHANGED <<seqnum, leader, log, tail, stale, mail, applied, elections>>

\* RaftMachine::new: sequence numbers start at 1 again.
Restart(n) ==
    /\ machine[n] = "down"
    /\ machine' = [machine EXCEPT ![n] = IF Running THEN "running" ELSE "absent"]
    /\ seqnum' = [seqnum EXCEPT ![n] = 1]
    /\ UNCHANGED <<calls, chan, resp, raft, bounds>>

-----------------------------------------------------------------------------
Turn(n) == TakeProposal(n) \/ TakeStep(n) \/ Apply(n)

Next ==
    \/ \E r \in Requests, n \in Nodes, k \in Kinds : Call(r, n, k)
    \/ \E r \in Requests : Send(r) \/ Return(r) \/ Timeout(r)
    \/ \E n \in Nodes : Turn(n) \/ Elect(n) \/ Crash(n) \/ Restart(n)
    \/ \E n \in Nodes, m \in Nodes \cup {NoNode} : Learn(n, m)
    \/ Commit
    \/ \E p \in mail : Deliver(p)

Spec == Init /\ [][Next]_vars

(* Timers fire, a supervisor restarts the process, and the channel serves    *)
(* waiting senders in the order they came (tokio's semaphore), so none is    *)
(* overtaken for ever.  Nothing is assumed of the run loop, which            *)
(* start_server does not spawn.                                              *)
Fairness ==
    /\ \A n \in Nodes : WF_vars(Restart(n))
    /\ \A r \in Requests : SF_vars(Send(r)) /\ WF_vars(Return(r)) /\ WF_vars(Timeout(r))

FairSpec == Spec /\ Fairness

-----------------------------------------------------------------------------
(* Properties. *)

\* A call is answered with success only once its own entry was applied on the
\* node it waits at (handle_committed_entries answers by sequence number).
AnswerIsForOwnEntry ==
    \A r \in Requests : slot[r] = "success" /\ call[r].kind # "step" =>
        \E i \in 1 .. applied[call[r].node] : log[i].req = r

\* The same while all calls go to one node and nothing crashed, whoever leads:
\* a node's own sequence numbers never answer one call with another's entry.
AnswerAtOneNodeIsForOwnEntry ==
    crashes = 0 /\ (\E n \in Nodes : \A r \in Requests : call[r].node \in {n, NoNode})
        => AnswerIsForOwnEntry

\* A proposal that was applied on the node that proposed it leaves no caller
\* waiting (resp_channel, whatever elections came between).
AppliedIsAnswered ==
    \A n \in Nodes : \A i \in 1 .. applied[n] :
        LET r == log[i].req IN
        r # NoRequest /\ call[r].node = n => slot[r] # "open"

\* Every call returns, at the latest with RaftLogCommitTimeout after its 30
\* seconds, unless its node stops.  As shipped (Running = FALSE) it does not:
\* nobody empties the channel, and send().await comes before the timeout.
EveryCallReturns == \A r \in Requests :
    call[r].st = "sending" ~> call[r].st \in {"ok", "timeout", "cut"}

=============================================================================

--------------------------- MODULE PlacementClient ---------------------------
(***************************************************************************)
(* The gRPC client side of a node: ClientPool (poll.rs), the calls made    *)
(* through it with retries (retry_call and the placement_... functions)    *)
(* and without (the openraft network).                                     *)
(*                                                                         *)
(* Tasks run on the few worker threads of a tokio runtime.  A task gives   *)
(* its thread up at an await only, so the code between two awaits          *)
(* (contains_key, insert, get) occupies one; a DashMap lock is not an      *)
(* await.  mobc, DashMap, tokio and the called servers are external: a     *)
(* pool hands out at most max_open connections, insert waits for the read  *)
(* guards on its shard, a connection may be refused, an answer may be      *)
(* lost, and a server may execute a request its caller has given up.       *)
(***************************************************************************)
EXTENDS Naturals, Sequences, FiniteSets

CONSTANTS
    Tasks,       \* each makes one call
    Addrs,
    Calls,       \* what the tasks may call: service, address list, with retry or not
    Shards,      \* of each DashMap
    Workers,     \* worker threads of the runtime
    MaxOpen,     \* connections of one pool (ClientPool::new(3))
    RetryTimes   \* retry_times(), which is 3

Service == {"kv", "openraft"}

ASSUME ConstantsAssumption ==
    /\ IsFiniteSet(Tasks)
    /\ \A c \in Calls :
          /\ c \in [Tasks -> [svc : Service, addrs : Seq(Addrs) \ {<<>>}, retry : BOOLEAN]]
          /\ \A t \in Tasks : ~c[t].retry => c[t].svc = "openraft" /\ Len(c[t].addrs) = 1
    /\ Shards # {}
    /\ Workers \in Nat \ {0} /\ MaxOpen \in Nat \ {0} /\ RetryTimes \in Nat

Key == Service \X Addrs

VARIABLES
    at,       \* each task: where its call is
    call,     \* what it calls
    times,    \* its attempt, counted from 1 (retry_call's times)
    pool,     \* which of the pools built for its key it took
    built,    \* how many pools were built for a key; the last is in the map
    shard,    \* the shard of a key in the DashMap of its service
    tried,    \* ghost: the indexes of its list a call has tried
    executed, \* ghost: how often servers executed its request
    flight    \* requests given up by their callers and not executed yet

calls == <<at, times, pool>>
ghosts == <<tried, executed, flight>>
fixed == <<call, shard>>
vars == <<calls, built, ghosts, fixed>>

State == {"idle", "check", "insert", "get", "wait", "rpc", "done", "sleep", "ok", "err"}

TypeOK ==
    /\ at \in [Tasks -> State] /\ call \in Calls
    /\ times \in [Tasks -> 1 .. RetryTimes + 1]
    /\ pool \in [Tasks -> Nat]
    /\ built \in [Key -> Nat]
    /\ shard \in [Key -> Shards]
    /\ tried \in [Tasks -> SUBSET Nat]
    /\ executed \in [Tasks -> Nat] /\ flight \in [Tasks -> Nat]

Init ==
    /\ at = [t \in Tasks |-> "idle"] /\ call \in Calls
    /\ times = [t \in Tasks |-> 1]
    /\ pool = [t \in Tasks |-> 0]
    /\ built = [k \in Key |-> 0]
    /\ shard \in [Key -> Shards]
    /\ tried = [t \in Tasks |-> {}]
    /\ executed = [t \in Tasks |-> 0] /\ flight = [t \in Tasks |-> 0]

-----------------------------------------------------------------------------
At(t, s) == at[t] = s
Goto(t, s) == at' = [at EXCEPT ![t] = s]

BadIndex(t) == IF times[t] < Len(call[t].addrs) THEN times[t] ELSE Len(call[t].addrs) - 1
\* times % addrs.len(), where the first attempt is number 1.
Index(t) == times[t] % Len(call[t].addrs)
KeyOf(t) == <<call[t].svc, call[t].addrs[Index(t) + 1]>>

\* Between two awaits a task is on a thread, also while a lock makes it wait.
OnThread == {t \in Tasks : At(t, "insert") \/ At(t, "get")}
FreeThread == Cardinality(OnThread) < Workers

BadHoldsGuard(t) == at[t] \in {"wait", "rpc", "done", "sleep"} \/ (times[t] > 1 /\ At(t, "insert"))
\* The map's read guard is held across poll.get().await.
HoldsGuard(t) == At(t, "wait")
Guarded(k) ==
    \E t \in Tasks : HoldsGuard(t) /\ KeyOf(t)[1] = k[1] /\ shard[KeyOf(t)] = shard[k]

\* The connections that a pool has handed out.
InUse(k, p) == {t \in Tasks : (At(t, "rpc") \/ At(t, "done")) /\ KeyOf(t) = k /\ pool[t] = p}

-----------------------------------------------------------------------------
(* ClientPool::placement_center_..._services_client *)

\* placement_set and its like: any number of addresses, through retry_call.
Start(t) ==
    /\ At(t, "idle") /\ call[t].retry
    /\ Goto(t, "check")
    /\ UNCHANGED <<times, pool, built, fixed, ghosts>>

\* NetworkConnection::c: the one address of its target.
StartNetwork(t) ==
    /\ At(t, "idle") /\ ~call[t].retry
    /\ Goto(t, "check")
    /\ UNCHANGED <<times, pool, built, fixed, ghosts>>

BadCheck(t) ==
    /\ At(t, "check") /\ FreeThread /\ Goto(t, "insert")
    /\ tried' = [tried EXCEPT ![t] = @ \cup {Index(t)}]
    /\ UNCHANGED <<times, pool, built, fixed, executed, flight>>

\* contains_key
Check(t) ==
    /\ At(t, "check") /\ FreeThread
    /\ Goto(t, IF built[KeyOf(t)] = 0 THEN "insert" ELSE "get")
    /\ tried' = [tried EXCEPT ![t] = @ \cup {Index(t)}]
    /\ UNCHANGED <<times, pool, built, fixed, executed, flight>>

\* insert replaces a pool that another task put there since contains_key.
Insert(t) ==
    /\ At(t, "insert") /\ ~Guarded(KeyOf(t))
    /\ built' = [built EXCEPT ![KeyOf(t)] = @ + 1]
    /\ Goto(t, "get")
    /\ UNCHANGED <<times, pool, fixed, ghosts>>

\* get: the pool that is in the map now; its get() is awaited under the guard.
Get(t) ==
    /\ At(t, "get")
    /\ pool' = [pool EXCEPT ![t] = built[KeyOf(t)]]
    /\ Goto(t, "wait")
    /\ UNCHANGED <<times, built, fixed, ghosts>>

\* The pool hands out an idle connection or a new one.
Connect(t) ==
    /\ At(t, "wait") /\ FreeThread
    /\ Cardinality(InUse(KeyOf(t), pool[t])) < MaxOpen
    /\ Goto(t, "rpc")
    /\ UNCHANGED <<times, pool, built, fixed, ghosts>>

-----------------------------------------------------------------------------
(* retry_call and the openraft network's calls *)

\* After an error: sleep and try again, or return it.
BadLast(t) == times[t] > RetryTimes + 1
Last(t) == times[t] > RetryTimes
NextTimes(t) == times[t] + 1
Failed(t) ==
    IF call[t].retry /\ ~Last(t)
    THEN Goto(t, "sleep") /\ times' = [times EXCEPT ![t] = NextTimes(t)]
    ELSE Goto(t, "err") /\ UNCHANGED times

\* The address refuses, or mobc's own timeout of poll.get() passes.
ConnectFails(t) ==
    /\ At(t, "wait") /\ FreeThread /\ Failed(t)
    /\ UNCHANGED <<pool, built, fixed, ghosts>>

\* The server executes the request.
Serve(t) ==
    /\ At(t, "rpc") /\ Goto(t, "done")
    /\ executed' = [executed EXCEPT ![t] = @ + 1]
    /\ UNCHANGED <<times, pool, built, fixed, tried, flight>>

\* The server refuses, or the connection breaks before the request is there.
Refused(t) ==
    /\ At(t, "rpc") /\ FreeThread /\ Failed(t)
    /\ UNCHANGED <<pool, built, fixed, ghosts>>

\* The connection breaks behind the request, which the server may still execute.
Abandoned(t) ==
    /\ At(t, "rpc") /\ FreeThread /\ Failed(t)
    /\ flight' = [flight EXCEPT ![t] = @ + 1]
    /\ UNCHANGED <<pool, built, fixed, tried, executed>>

BadAnswerLost(t) ==
    /\ At(t, "done") /\ FreeThread /\ Goto(t, "check")
    /\ UNCHANGED <<times, pool, built, fixed, ghosts>>

\* The connection breaks before the answer of an executed request is back.
AnswerLost(t) ==
    /\ At(t, "done") /\ FreeThread /\ Failed(t)
    /\ UNCHANGED <<pool, built, fixed, ghosts>>

Answer(t) ==
    /\ At(t, "done") /\ FreeThread /\ Goto(t, "ok")
    /\ UNCHANGED <<times, pool, built, fixed, ghosts>>

\* sleep(retry_sleep_time(times)) ends.
Wake(t) ==
    /\ At(t, "sleep") /\ FreeThread /\ Goto(t, "check")
    /\ UNCHANGED <<times, pool, built, fixed, ghosts>>

\* A server executes a request whose caller no longer waits for it.
ServeLate(t) ==
    /\ flight[t] > 0
    /\ flight' = [flight EXCEPT ![t] = @ - 1]
    /\ executed' = [executed EXCEPT ![t] = @ + 1]
    /\ UNCHANGED <<calls, built, fixed, tried>>

-----------------------------------------------------------------------------
Step(t) ==
    \/ Check(t) \/ Insert(t) \/ Get(t) \/ Connect(t) \/ ConnectFails(t)
    \/ Answer(t) \/ AnswerLost(t) \/ Refused(t) \/ Abandoned(t) \/ Wake(t)

Next == \E t \in Tasks : Start(t) \/ StartNetwork(t) \/ Step(t) \/ Serve(t) \/ ServeLate(t)

Spec == Init /\ [][Next]_vars

(* A task that can go on does: threads poll ready tasks, sleeps and mobc's   *)
(* timeout end, and a server answers or its connection breaks.  Threads are  *)
(* given out in the order in which tasks became ready, hence SF.             *)
Fairness == \A t \in Tasks : SF_vars(Step(t))

FairSpec == Spec /\ Fairness

-----------------------------------------------------------------------------
(* Properties. *)

\* Every thread is in an insert that waits for a guard, and every holder of a
\* guard waits for a thread: nothing in the runtime runs again.
Wedged == ~FreeThread /\ \A t \in OnThread : At(t, "insert") /\ Guarded(KeyOf(t))

\* Tasks of one runtime do not stop each other for good.
NeverWedged == ~Wedged

\* However the check and the insert of several tasks interleave (poll.rs:44-50),
\* an address gets no more connections than max_open for every worker thread.
ConnectionsBounded == \A k \in Key :
    Cardinality({t \in Tasks : (At(t, "rpc") \/ At(t, "done")) /\ KeyOf(t) = k})
        <= Workers * MaxOpen

\* A call that retries gives up only after it tried every address, if there are
\* no more of them than attempts (times starts at 1, placement/mod.rs:53-55).
GivesUpAfterEveryAddress == \A t \in Tasks :
    At(t, "err") /\ call[t].retry /\ Len(call[t].addrs) <= RetryTimes + 1 =>
        tried[t] = 0 .. Len(call[t].addrs) - 1

\* A request is executed at most once for every attempt, and an attempt that
\* may still be executed is one that failed: a call answered at its first
\* attempt was executed once and leaves nothing behind.
AtMostOncePerAttempt == \A t \in Tasks :
    /\ executed[t] + flight[t] <= times[t]
    /\ At(t, "ok") => executed[t] >= 1
    /\ At(t, "ok") /\ times[t] = 1 => flight[t] = 0

\* Every call ends, unless the runtime is wedged.
EveryCallEnds == \A t \in Tasks :
    At(t, "check") ~> At(t, "ok") \/ At(t, "err") \/ Wedged

=============================================================================

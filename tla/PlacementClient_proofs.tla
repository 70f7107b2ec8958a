------------------------ MODULE PlacementClient_proofs ------------------------
(***************************************************************************)
(* PlacementClient for every set of tasks, addresses and calls, any number *)
(* of worker threads, pool sizes and retries: the types, the bound on the  *)
(* connections of an address, and how often a request is executed.         *)
(***************************************************************************)
EXTENDS PlacementClient, FiniteSetTheorems, FunctionTheorems, TLAPS

-----------------------------------------------------------------------------
(* Types. *)

\* The index that an attempt takes is one of its list's.
LEMMA IndexType ==
    ASSUME TypeOK, NEW t \in Tasks
    PROVE  Index(t) \in 0 .. Len(call[t].addrs) - 1 /\ KeyOf(t) \in Key
<1>1. /\ call[t].addrs \in Seq(Addrs) /\ call[t].addrs # <<>> /\ call[t].svc \in Service
      /\ times[t] \in Nat
  BY ConstantsAssumption DEF ConstantsAssumption, TypeOK
<1>2. Len(call[t].addrs) \in Nat \ {0}
  BY <1>1
<1>3. Index(t) \in 0 .. Len(call[t].addrs) - 1
  BY <1>1, <1>2 DEF Index
<1>4. call[t].addrs[Index(t) + 1] \in Addrs
  BY <1>1, <1>2, <1>3
<1> QED BY <1>1, <1>3, <1>4 DEF KeyOf, Key

\* An error leads to a sleep or an end, and times stays within its bound.
LEMMA FailedType ==
    ASSUME TypeOK, NEW t \in Tasks, Failed(t)
    PROVE  /\ at' \in [Tasks -> State] /\ times' \in [Tasks -> 1 .. RetryTimes + 1]
           /\ at' = [at EXCEPT ![t] = at'[t]] /\ at'[t] \in {"sleep", "err"}
           /\ \A u \in Tasks \ {t} : times'[u] = times[u]
           /\ at'[t] = "sleep" => times'[t] = times[t] + 1
           /\ at'[t] = "err" => times'[t] = times[t]
<1>1. RetryTimes \in Nat /\ at \in [Tasks -> State] /\ times \in [Tasks -> 1 .. RetryTimes + 1]
  BY ConstantsAssumption DEF ConstantsAssumption, TypeOK
<1>2. CASE call[t].retry /\ ~Last(t)
  <2>1. at' = [at EXCEPT ![t] = "sleep"] /\ times' = [times EXCEPT ![t] = times[t] + 1]
    BY <1>2 DEF Failed, Goto, NextTimes
  <2>2. times[t] + 1 \in 1 .. RetryTimes + 1
    BY <1>1, <1>2 DEF Last
  <2>3. "sleep" \in State
    BY DEF State
  <2> QED BY <1>1, <2>1, <2>2, <2>3
<1>3. CASE ~(call[t].retry /\ ~Last(t))
  BY <1>1, <1>3 DEF Failed, Goto, State
<1> QED BY <1>2, <1>3

\* Every variable keeps its type, whatever interleaves.
THEOREM ClientTypes == Spec => []TypeOK
<1> USE DEF TypeOK
<1>1. Init => TypeOK
  <2> SUFFICES ASSUME Init PROVE TypeOK OBVIOUS
  <2>1. at \in [Tasks -> State] /\ times \in [Tasks -> 1 .. RetryTimes + 1]
    BY ConstantsAssumption DEF Init, State, ConstantsAssumption
  <2> QED BY <2>1 DEF Init
<1>2. TypeOK /\ [Next]_vars => TypeOK'
  <2> SUFFICES ASSUME TypeOK, [Next]_vars PROVE TypeOK' OBVIOUS
  <2>1. ASSUME NEW t \in Tasks, Start(t) \/ StartNetwork(t) \/ Connect(t) \/ Answer(t) \/ Wake(t)
        PROVE  TypeOK'
    BY <2>1 DEF Start, StartNetwork, Connect, Answer, Wake, Goto, State, ghosts, fixed
  <2>2. ASSUME NEW t \in Tasks, Check(t) PROVE TypeOK'
    <3>1. Index(t) \in Nat 
      <4>1. Index(t) \in 0 .. Len(call[t].addrs) - 1 BY IndexType
      <4>2. Len(call[t].addrs) \in Nat BY ConstantsAssumption DEF ConstantsAssumption
      <4> QED BY <4>1, <4>2
    <3>2. tried' \in [Tasks -> SUBSET Nat] BY <2>2, <3>1 DEF Check
    <3>3. at' \in [Tasks -> State] BY <2>2 DEF Check, Goto, State
    <3> QED BY <2>2, <3>2, <3>3 DEF Check, fixed
  <2>3. ASSUME NEW t \in Tasks, Insert(t) PROVE TypeOK'
    <3>0. KeyOf(t) \in Key BY IndexType
    <3>1. built' \in [Key -> Nat] BY <2>3, <3>0 DEF Insert
    <3>2. at' \in [Tasks -> State] BY <2>3 DEF Insert, Goto, State
    <3> QED BY <2>3, <3>1, <3>2 DEF Insert, ghosts, fixed
  <2>4. ASSUME NEW t \in Tasks, Get(t) PROVE TypeOK'
    <3>0. KeyOf(t) \in Key BY IndexType
    <3>1. pool' \in [Tasks -> Nat] BY <2>4, <3>0 DEF Get
    <3>2. at' \in [Tasks -> State] BY <2>4 DEF Get, Goto, State
    <3> QED BY <2>4, <3>1, <3>2 DEF Get, ghosts, fixed
  <2>5. ASSUME NEW t \in Tasks, ConnectFails(t) \/ Refused(t) \/ AnswerLost(t) \/ Abandoned(t)
        PROVE  TypeOK'
    <3>1. at' \in [Tasks -> State] /\ times' \in [Tasks -> 1 .. RetryTimes + 1]
      BY <2>5, FailedType DEF ConnectFails, Refused, AnswerLost, Abandoned
    <3>2. flight' \in [Tasks -> Nat]
      BY <2>5 DEF ConnectFails, Refused, AnswerLost, Abandoned, ghosts
    <3>3. UNCHANGED <<pool, built, fixed, tried, executed>>
      BY <2>5 DEF ConnectFails, Refused, AnswerLost, Abandoned, ghosts
    <3> QED BY <3>1, <3>2, <3>3 DEF fixed
  <2>6. ASSUME NEW t \in Tasks, Serve(t) PROVE TypeOK'
    BY <2>6 DEF Serve, Goto, State, fixed
  <2>7. ASSUME NEW t \in Tasks, ServeLate(t) PROVE TypeOK'
    BY <2>7 DEF ServeLate, calls, fixed
  <2>8. CASE UNCHANGED vars
    BY <2>8 DEF vars, calls, ghosts, fixed
  <2> QED BY <2>1, <2>2, <2>3, <2>4, <2>5, <2>6, <2>7, <2>8 DEF Next, Step
<1> QED BY <1>1, <1>2, PTL DEF Spec

-----------------------------------------------------------------------------
(* How many pools are built for an address, and how many connections it gets. *)

Inserting(k) == {t \in Tasks : At(t, "insert") /\ KeyOf(t) = k}

(* A task that builds a pool for k found none when it looked, and has kept   *)
(* its thread since; once one is in the map, no further task will.           *)
PoolInv ==
    /\ Cardinality(OnThread) <= Workers
    /\ \A k \in Key : built[k] + Cardinality(Inserting(k)) <= Workers
    /\ \A t \in Tasks : at[t] \in {"wait", "rpc", "done"} => pool[t] \in 1 .. built[KeyOf(t)]
    /\ \A t \in Tasks : At(t, "get") => built[KeyOf(t)] >= 1
    /\ \A k \in Key, p \in Nat : Cardinality(InUse(k, p)) <= MaxOpen

\* Sets of tasks are finite, and a smaller one has no more members.
LEMMA TaskSets ==
    ASSUME NEW S \in SUBSET Tasks, NEW T \in SUBSET S
    PROVE  /\ IsFiniteSet(S) /\ IsFiniteSet(T)
           /\ Cardinality(S) \in Nat /\ Cardinality(T) \in Nat
           /\ Cardinality(T) <= Cardinality(S)
<1>1. IsFiniteSet(S) BY ConstantsAssumption, FS_Subset DEF ConstantsAssumption
<1>2. IsFiniteSet(T) BY <1>1, FS_Subset
<1> QED BY <1>1, <1>2, FS_Subset, FS_CardinalityType

\* Adding one task adds at most one.
LEMMA OneMore ==
    ASSUME NEW S \in SUBSET Tasks, NEW t \in Tasks
    PROVE  /\ Cardinality(S \cup {t}) \in Nat /\ Cardinality(S) \in Nat
           /\ Cardinality(S \cup {t}) <= Cardinality(S) + 1
           /\ t \in S => Cardinality(S \ {t}) + 1 = Cardinality(S)
<1>1. IsFiniteSet(S) /\ Cardinality(S) \in Nat BY TaskSets
<1>2. S \cup {t} \in SUBSET Tasks OBVIOUS
<1>3. Cardinality(S \cup {t}) \in Nat BY <1>2, TaskSets
<1>4. Cardinality(S \cup {t}) = IF t \in S THEN Cardinality(S) ELSE Cardinality(S) + 1
  BY <1>1, FS_AddElement
<1>5. Cardinality(S \ {t}) = IF t \in S THEN Cardinality(S) - 1 ELSE Cardinality(S)
  BY <1>1, FS_RemoveElement
<1> QED BY <1>1, <1>3, <1>4, <1>5

\* A step of one task that builds nothing, starts no insert and takes no
\* connection keeps PoolInv, if the task leaves its thread or had none.
LEMMA QuietStep ==
    ASSUME TypeOK, PoolInv, NEW t \in Tasks, NEW s \in State, Goto(t, s),
           s \notin {"insert", "get", "wait", "rpc", "done"},
           UNCHANGED <<pool, built, fixed>>,
           \A u \in Tasks \ {t} : times'[u] = times[u]
    PROVE  PoolInv'
<1>1. at' = [at EXCEPT ![t] = s] /\ at \in [Tasks -> State]
  BY DEF Goto, TypeOK
<1>2. \A u \in Tasks \ {t} : at'[u] = at[u] /\ KeyOf(u)' = KeyOf(u)
  BY <1>1 DEF KeyOf, Index, fixed
<1>3. at'[t] = s
  BY <1>1
<1>4. OnThread' \subseteq OnThread
  BY <1>2, <1>3 DEF OnThread, At
<1>5. Cardinality(OnThread') <= Workers
  <2>1. OnThread \in SUBSET Tasks BY DEF OnThread
  <2>2. Cardinality(OnThread') <= Cardinality(OnThread) BY <1>4, <2>1, TaskSets
  <2>3. Cardinality(OnThread') \in Nat /\ Cardinality(OnThread) \in Nat BY <1>4, <2>1, TaskSets
  <2> QED BY <2>2, <2>3, ConstantsAssumption DEF PoolInv, ConstantsAssumption
<1>6. ASSUME NEW k \in Key
      PROVE  built'[k] + Cardinality(Inserting(k)') <= Workers
  <2>1. Inserting(k)' \subseteq Inserting(k)
    BY <1>2, <1>3 DEF Inserting, At
  <2>2. Inserting(k) \in SUBSET Tasks BY DEF Inserting
  <2>3. Cardinality(Inserting(k)') <= Cardinality(Inserting(k))
    BY <2>1, <2>2, TaskSets
  <2>4. Cardinality(Inserting(k)') \in Nat /\ Cardinality(Inserting(k)) \in Nat
    BY <2>1, <2>2, TaskSets
  <2>5. built'[k] = built[k] /\ built[k] \in Nat BY DEF TypeOK
  <2> QED BY <2>3, <2>4, <2>5, ConstantsAssumption DEF PoolInv, ConstantsAssumption
<1>7. \A u \in Tasks : at'[u] \in {"wait", "rpc", "done"} => pool'[u] \in 1 .. built'[KeyOf(u)']
  <2> SUFFICES ASSUME NEW u \in Tasks, at'[u] \in {"wait", "rpc", "done"}
               PROVE  pool'[u] \in 1 .. built'[KeyOf(u)']
    OBVIOUS
  <2>1. u # t BY <1>3
  <2>2. at[u] \in {"wait", "rpc", "done"} /\ KeyOf(u)' = KeyOf(u) BY <2>1, <1>2
  <2> QED BY <2>2 DEF PoolInv
<1>8. \A u \in Tasks : At(u, "get")' => built'[KeyOf(u)'] >= 1
  <2> SUFFICES ASSUME NEW u \in Tasks, At(u, "get")' PROVE built'[KeyOf(u)'] >= 1
    OBVIOUS
  <2>1. u # t BY <1>3 DEF At
  <2>2. At(u, "get") /\ KeyOf(u)' = KeyOf(u) BY <2>1, <1>2 DEF At
  <2> QED BY <2>2 DEF PoolInv
<1>9. ASSUME NEW k \in Key, NEW p \in Nat
      PROVE  Cardinality(InUse(k, p)') <= MaxOpen
  <2>1. InUse(k, p)' \subseteq InUse(k, p)
    BY <1>2, <1>3 DEF InUse, At
  <2>2. InUse(k, p) \in SUBSET Tasks BY DEF InUse
  <2>3. Cardinality(InUse(k, p)') <= Cardinality(InUse(k, p))
    BY <2>1, <2>2, TaskSets
  <2>4. Cardinality(InUse(k, p)') \in Nat /\ Cardinality(InUse(k, p)) \in Nat
    BY <2>1, <2>2, TaskSets
  <2> QED BY <2>3, <2>4, ConstantsAssumption DEF PoolInv, ConstantsAssumption
<1> QED BY <1>5, <1>6, <1>7, <1>8, <1>9 DEF PoolInv

\* contains_key: the task takes a thread; an insert follows only where the map
\* has no pool yet.
LEMMA CheckStep == ASSUME TypeOK, PoolInv, NEW t \in Tasks, Check(t) PROVE PoolInv'
<1>1. /\ at' = [at EXCEPT ![t] = at'[t]] /\ at \in [Tasks -> State]
      /\ at'[t] = IF built[KeyOf(t)] = 0 THEN "insert" ELSE "get"
      /\ \A u \in Tasks \ {t} : at'[u] = at[u]
      /\ UNCHANGED <<times, call, pool, built>>
  BY DEF Check, Goto, TypeOK, fixed
<1>2. \A u \in Tasks : KeyOf(u)' = KeyOf(u) /\ KeyOf(u) \in Key
  BY <1>1, IndexType DEF KeyOf, Index
<1>3. built \in [Key -> Nat] /\ Workers \in Nat
  BY ConstantsAssumption DEF TypeOK, ConstantsAssumption
<1>4. OnThread \in SUBSET Tasks /\ OnThread' = OnThread \cup {t}
  BY <1>1 DEF OnThread, At
<1>5. Cardinality(OnThread') <= Workers /\ Cardinality(OnThread') \in Nat
  <2>1. Cardinality(OnThread) < Workers
    BY DEF Check, FreeThread
  <2>2. /\ Cardinality(OnThread \cup {t}) \in Nat /\ Cardinality(OnThread) \in Nat
        /\ Cardinality(OnThread \cup {t}) <= Cardinality(OnThread) + 1
    BY <1>4, OneMore
  <2> QED BY <1>3, <1>4, <2>1, <2>2
<1>6. ASSUME NEW k \in Key PROVE built'[k] + Cardinality(Inserting(k)') <= Workers
  <2>1. CASE built[KeyOf(t)] = 0 /\ KeyOf(t) = k
    <3>1. Inserting(k)' \in SUBSET OnThread' /\ OnThread' \in SUBSET Tasks
      BY <1>4 DEF Inserting, OnThread
    <3>2. /\ Cardinality(Inserting(k)') <= Cardinality(OnThread')
          /\ Cardinality(Inserting(k)') \in Nat
      BY <3>1, TaskSets
    <3> QED BY <1>1, <1>3, <1>5, <2>1, <3>2
  <2>2. CASE ~(built[KeyOf(t)] = 0 /\ KeyOf(t) = k)
    <3>1. Inserting(k) \in SUBSET Tasks /\ Inserting(k)' \in SUBSET Inserting(k)
      BY <1>1, <1>2, <2>2 DEF Inserting, At
    <3>2. /\ Cardinality(Inserting(k)') <= Cardinality(Inserting(k))
          /\ Cardinality(Inserting(k)') \in Nat /\ Cardinality(Inserting(k)) \in Nat
      BY <3>1, TaskSets
    <3>3. built[k] + Cardinality(Inserting(k)) <= Workers
      BY DEF PoolInv
    <3> QED BY <1>1, <1>3, <3>2, <3>3
  <2> QED BY <2>1, <2>2
<1>7. \A u \in Tasks : at'[u] \in {"wait", "rpc", "done"} => pool'[u] \in 1 .. built'[KeyOf(u)']
  BY <1>1, <1>2 DEF PoolInv
<1>8. \A u \in Tasks : At(u, "get")' => built'[KeyOf(u)'] >= 1
  <2> SUFFICES ASSUME NEW u \in Tasks, At(u, "get")' PROVE built[KeyOf(u)] >= 1
    BY <1>1, <1>2
  <2>1. CASE u = t
    BY <1>1, <1>2, <1>3, <2>1 DEF At
  <2>2. CASE u # t
    BY <1>1, <2>2 DEF At, PoolInv
  <2> QED BY <2>1, <2>2
<1>9. \A k \in Key, p \in Nat : InUse(k, p)' = InUse(k, p)
  <2>1. At(t, "check") BY DEF Check
  <2> QED BY <1>1, <1>2, <2>1 DEF InUse, At
<1> QED BY <1>5, <1>6, <1>7, <1>8, <1>9 DEF PoolInv

\* insert: one pool more, one task less that would build one.
LEMMA InsertStep == ASSUME TypeOK, PoolInv, NEW t \in Tasks, Insert(t) PROVE PoolInv'
<1>1. /\ at' = [at EXCEPT ![t] = "get"] /\ at \in [Tasks -> State] /\ at[t] = "insert"
      /\ at'[t] = "get" /\ \A u \in Tasks \ {t} : at'[u] = at[u]
      /\ UNCHANGED <<times, call, pool>>
  BY DEF Insert, Goto, TypeOK, fixed, At
<1>2. \A u \in Tasks : KeyOf(u)' = KeyOf(u) /\ KeyOf(u) \in Key
  BY <1>1, IndexType DEF KeyOf, Index
<1>3. /\ built \in [Key -> Nat] /\ Workers \in Nat
      /\ built' = [built EXCEPT ![KeyOf(t)] = built[KeyOf(t)] + 1]
  BY ConstantsAssumption DEF TypeOK, ConstantsAssumption, Insert
<1>4. \A k \in Key : built'[k] = IF k = KeyOf(t) THEN built[k] + 1 ELSE built[k]
  BY <1>2, <1>3
<1>5. OnThread' = OnThread
  BY <1>1 DEF OnThread, At
<1>6. ASSUME NEW k \in Key PROVE built'[k] + Cardinality(Inserting(k)') <= Workers
  <2>0. built[k] + Cardinality(Inserting(k)) <= Workers /\ Inserting(k) \in SUBSET Tasks
    BY DEF PoolInv, Inserting
  <2>1. CASE KeyOf(t) = k
    <3>1. t \in Inserting(k) /\ Inserting(k)' = Inserting(k) \ {t}
      BY <1>1, <1>2, <2>1 DEF Inserting, At
    <3>2. Inserting(k) \ {t} \in SUBSET Inserting(k)
      OBVIOUS
    <3>3. Cardinality(Inserting(k) \ {t}) \in Nat /\ Cardinality(Inserting(k)) \in Nat
      BY <2>0, <3>2, TaskSets
    <3>4. Cardinality(Inserting(k) \ {t}) + 1 = Cardinality(Inserting(k))
      BY <2>0, <3>1, OneMore
    <3> QED BY <1>3, <1>4, <2>0, <2>1, <3>1, <3>3, <3>4
  <2>2. CASE KeyOf(t) # k
    <3>1. Inserting(k)' = Inserting(k)
      BY <1>1, <1>2, <2>2 DEF Inserting, At
    <3> QED BY <1>4, <2>0, <2>2, <3>1
  <2> QED BY <2>1, <2>2
<1>7. \A u \in Tasks : at'[u] \in {"wait", "rpc", "done"} => pool'[u] \in 1 .. built'[KeyOf(u)']
  <2> SUFFICES ASSUME NEW u \in Tasks, at'[u] \in {"wait", "rpc", "done"}
               PROVE  pool[u] \in 1 .. built'[KeyOf(u)]
    BY <1>1, <1>2
  <2>1. pool[u] \in 1 .. built[KeyOf(u)]
    BY <1>1 DEF PoolInv
  <2> QED BY <1>2, <1>3, <1>4, <2>1
<1>8. \A u \in Tasks : At(u, "get")' => built'[KeyOf(u)'] >= 1
  <2> SUFFICES ASSUME NEW u \in Tasks, At(u, "get")' PROVE built'[KeyOf(u)] >= 1
    BY <1>1, <1>2
  <2>1. CASE u = t
    BY <1>2, <1>3, <1>4, <2>1
  <2>2. CASE u # t
    <3>1. built[KeyOf(u)] >= 1 BY <1>1, <2>2 DEF At, PoolInv
    <3> QED BY <1>2, <1>3, <1>4, <3>1
  <2> QED BY <2>1, <2>2
<1>9. \A k \in Key, p \in Nat : InUse(k, p)' = InUse(k, p)
  BY <1>1, <1>2 DEF InUse, At
<1> QED BY <1>5, <1>6, <1>7, <1>8, <1>9 DEF PoolInv

\* get: the task takes one of the pools built so far and leaves its thread.
LEMMA GetStep == ASSUME TypeOK, PoolInv, NEW t \in Tasks, Get(t) PROVE PoolInv'
<1>1. /\ at \in [Tasks -> State] /\ at[t] = "get"
      /\ at'[t] = "wait" /\ \A u \in Tasks \ {t} : at'[u] = at[u]
      /\ UNCHANGED <<times, call, built>>
  BY DEF Get, Goto, TypeOK, fixed, At
<1>2. \A u \in Tasks : KeyOf(u)' = KeyOf(u) /\ KeyOf(u) \in Key
  BY <1>1, IndexType DEF KeyOf, Index
<1>3. /\ pool'[t] = built[KeyOf(t)] /\ \A u \in Tasks \ {t} : pool'[u] = pool[u]
      /\ built \in [Key -> Nat] /\ Workers \in Nat
  BY ConstantsAssumption DEF Get, TypeOK, ConstantsAssumption
<1>4. Cardinality(OnThread') <= Workers
  <2>1. OnThread \in SUBSET Tasks /\ OnThread' \in SUBSET OnThread
    BY <1>1 DEF OnThread, At
  <2>2. /\ Cardinality(OnThread') <= Cardinality(OnThread)
        /\ Cardinality(OnThread') \in Nat /\ Cardinality(OnThread) \in Nat
    BY <2>1, TaskSets
  <2> QED BY <1>3, <2>2 DEF PoolInv
<1>5. \A k \in Key : Inserting(k)' = Inserting(k)
  BY <1>1, <1>2 DEF Inserting, At
<1>6. \A u \in Tasks : at'[u] \in {"wait", "rpc", "done"} => pool'[u] \in 1 .. built'[KeyOf(u)']
  <2> SUFFICES ASSUME NEW u \in Tasks, at'[u] \in {"wait", "rpc", "done"}
               PROVE  pool'[u] \in 1 .. built[KeyOf(u)]
    BY <1>1, <1>2
  <2>1. CASE u = t
    <3>1. built[KeyOf(t)] >= 1 /\ built[KeyOf(t)] \in Nat
      BY <1>1, <1>2, <1>3 DEF PoolInv, At
    <3> QED BY <1>3, <2>1, <3>1
  <2>2. CASE u # t
    BY <1>1, <1>3, <2>2 DEF PoolInv
  <2> QED BY <2>1, <2>2
<1>7. \A u \in Tasks : At(u, "get")' => built'[KeyOf(u)'] >= 1
  BY <1>1, <1>2 DEF At, PoolInv
<1>8. \A k \in Key, p \in Nat : InUse(k, p)' = InUse(k, p)
  BY <1>1, <1>2, <1>3 DEF InUse, At
<1> QED BY <1>1, <1>4, <1>5, <1>6, <1>7, <1>8 DEF PoolInv

\* The pool hands out a connection only while fewer than max_open are out.
LEMMA ConnectStep == ASSUME TypeOK, PoolInv, NEW t \in Tasks, Connect(t) PROVE PoolInv'
<1>1. /\ at \in [Tasks -> State] /\ at[t] = "wait"
      /\ at'[t] = "rpc" /\ \A u \in Tasks \ {t} : at'[u] = at[u]
      /\ UNCHANGED <<times, call, built, pool>>
  BY DEF Connect, Goto, TypeOK, fixed, At
<1>2. \A u \in Tasks : KeyOf(u)' = KeyOf(u) /\ KeyOf(u) \in Key
  BY <1>1, IndexType DEF KeyOf, Index
<1>3. OnThread' = OnThread
  BY <1>1 DEF OnThread, At
<1>4. \A k \in Key : Inserting(k)' = Inserting(k)
  BY <1>1, <1>2 DEF Inserting, At
<1>5. \A u \in Tasks : at'[u] \in {"wait", "rpc", "done"} => pool'[u] \in 1 .. built'[KeyOf(u)']
  BY <1>1, <1>2 DEF PoolInv
<1>6. \A u \in Tasks : At(u, "get")' => built'[KeyOf(u)'] >= 1
  BY <1>1, <1>2 DEF At, PoolInv
<1>7. ASSUME NEW k \in Key, NEW p \in Nat PROVE Cardinality(InUse(k, p)') <= MaxOpen
  <2>1. CASE k = KeyOf(t) /\ p = pool[t]
    <3>1. InUse(k, p) \in SUBSET Tasks /\ InUse(k, p)' = InUse(k, p) \cup {t}
      BY <1>1, <1>2, <2>1 DEF InUse, At
    <3>2. Cardinality(InUse(k, p)) < MaxOpen
      BY <2>1 DEF Connect
    <3>3. /\ Cardinality(InUse(k, p) \cup {t}) \in Nat /\ Cardinality(InUse(k, p)) \in Nat
          /\ Cardinality(InUse(k, p) \cup {t}) <= Cardinality(InUse(k, p)) + 1
      BY <3>1, OneMore
    <3>4. MaxOpen \in Nat
      BY ConstantsAssumption DEF ConstantsAssumption
    <3> QED BY <3>1, <3>2, <3>3, <3>4
  <2>2. CASE ~(k = KeyOf(t) /\ p = pool[t])
    <3>1. InUse(k, p)' = InUse(k, p)
      BY <1>1, <1>2, <2>2 DEF InUse, At
    <3> QED BY <3>1 DEF PoolInv
  <2> QED BY <2>1, <2>2
<1> QED BY <1>1, <1>3, <1>4, <1>5, <1>6, <1>7 DEF PoolInv

\* A server that executes a request leaves its connection where it is.
LEMMA ServeStep == ASSUME TypeOK, PoolInv, NEW t \in Tasks, Serve(t) PROVE PoolInv'
<1>1. /\ at \in [Tasks -> State] /\ at[t] = "rpc"
      /\ at'[t] = "done" /\ \A u \in Tasks \ {t} : at'[u] = at[u]
      /\ UNCHANGED <<times, call, built, pool>>
  BY DEF Serve, Goto, TypeOK, fixed, At
<1>2. \A u \in Tasks : KeyOf(u)' = KeyOf(u)
  BY <1>1 DEF KeyOf, Index
<1>3. OnThread' = OnThread
  BY <1>1 DEF OnThread, At
<1>4. \A k \in Key : Inserting(k)' = Inserting(k)
  BY <1>1, <1>2 DEF Inserting, At
<1>5. \A u \in Tasks : at'[u] \in {"wait", "rpc", "done"} => pool'[u] \in 1 .. built'[KeyOf(u)']
  BY <1>1, <1>2 DEF PoolInv
<1>6. \A u \in Tasks : At(u, "get")' => built'[KeyOf(u)'] >= 1
  BY <1>1, <1>2 DEF At, PoolInv
<1>7. \A k \in Key, p \in Nat : InUse(k, p)' = InUse(k, p)
  BY <1>1, <1>2 DEF InUse, At
<1> QED BY <1>1, <1>3, <1>4, <1>5, <1>6, <1>7 DEF PoolInv

\* PoolInv holds in every state.
THEOREM PoolInvHolds == Spec => []PoolInv
<1>1. Init => PoolInv
  <2> SUFFICES ASSUME Init PROVE PoolInv OBVIOUS
  <2>1. OnThread = {} /\ \A k \in Key : Inserting(k) = {} /\ \A p \in Nat : InUse(k, p) = {}
    BY DEF Init, OnThread, Inserting, InUse, At
  <2>2. Cardinality({}) = 0
    BY FS_EmptySet
  <2>3. Workers \in Nat \ {0} /\ MaxOpen \in Nat \ {0}
    BY ConstantsAssumption DEF ConstantsAssumption
  <2>4. Cardinality(OnThread) <= Workers
    BY <2>1, <2>2, <2>3
  <2>5. \A k \in Key : built[k] + Cardinality(Inserting(k)) <= Workers
    BY <2>1, <2>2, <2>3 DEF Init
  <2>6. \A k \in Key, p \in Nat : Cardinality(InUse(k, p)) <= MaxOpen
    BY <2>1, <2>2, <2>3
  <2>7. \A t \in Tasks : at[t] = "idle"
    BY DEF Init
  <2> QED BY <2>4, <2>5, <2>6, <2>7 DEF PoolInv, At
<1>2. TypeOK /\ PoolInv /\ [Next]_vars => PoolInv'
  <2> SUFFICES ASSUME TypeOK, PoolInv, [Next]_vars PROVE PoolInv' OBVIOUS
  <2>1. ASSUME NEW t \in Tasks, Start(t) \/ StartNetwork(t) \/ Answer(t) \/ Wake(t)
        PROVE  PoolInv'
    <3>1. PICK s \in {"check", "ok"} : Goto(t, s) /\ UNCHANGED <<times, pool, built, fixed>>
      BY <2>1 DEF Start, StartNetwork, Answer, Wake
    <3>2. s \in State /\ s \notin {"insert", "get", "wait", "rpc", "done"}
      BY DEF State
    <3>3. \A u \in Tasks \ {t} : times'[u] = times[u]
      BY <3>1
    <3>4. UNCHANGED <<pool, built, fixed>>
      BY <3>1
    <3> QED BY <3>1, <3>2, <3>3, <3>4, QuietStep
  <2>2. ASSUME NEW t \in Tasks, ConnectFails(t) \/ Refused(t) \/ AnswerLost(t) \/ Abandoned(t)
        PROVE  PoolInv'
    <3>1. Failed(t) /\ UNCHANGED <<pool, built, fixed>>
      BY <2>2 DEF ConnectFails, Refused, AnswerLost, Abandoned
    <3>2. /\ Goto(t, at'[t]) /\ at'[t] \in {"sleep", "err"}
          /\ \A u \in Tasks \ {t} : times'[u] = times[u]
      BY <3>1, FailedType DEF Goto
    <3>3. at'[t] \in State /\ at'[t] \notin {"insert", "get", "wait", "rpc", "done"}
      BY <3>2 DEF State
    <3> QED BY <3>1, <3>2, <3>3, QuietStep
  <2>3. ASSUME NEW t \in Tasks, ServeLate(t) \/ UNCHANGED vars PROVE PoolInv'
    <3>1. UNCHANGED <<at, times, pool, built, call>>
      BY <2>3 DEF ServeLate, vars, calls, fixed
    <3>2. \A u \in Tasks : KeyOf(u)' = KeyOf(u)
      BY <3>1 DEF KeyOf, Index
    <3>3. /\ OnThread' = OnThread /\ \A k \in Key : Inserting(k)' = Inserting(k)
          /\ \A k \in Key, p \in Nat : InUse(k, p)' = InUse(k, p)
      BY <3>1, <3>2 DEF OnThread, Inserting, InUse, At
    <3>4. \A u \in Tasks : at'[u] \in {"wait", "rpc", "done"} => pool'[u] \in 1 .. built'[KeyOf(u)']
      BY <3>1, <3>2 DEF PoolInv
    <3>5. \A u \in Tasks : At(u, "get")' => built'[KeyOf(u)'] >= 1
      BY <3>1, <3>2 DEF PoolInv, At
    <3> QED BY <3>1, <3>3, <3>4, <3>5 DEF PoolInv
  <2>4. CASE UNCHANGED vars
    <3>1. UNCHANGED <<at, times, pool, built, call>>
      BY <2>4 DEF vars, calls, fixed
    <3> QED BY <3>1 DEF PoolInv, OnThread, Inserting, InUse, At, KeyOf, Index
  <2> QED BY <2>1, <2>2, <2>3, <2>4, CheckStep, InsertStep, GetStep, ConnectStep, ServeStep
          DEF Next, Step
<1> QED BY <1>1, <1>2, ClientTypes, PTL DEF Spec

\* The connections of one pool can be numbered up to max_open.
LEMMA Numbered ==
    ASSUME TypeOK, PoolInv, NEW k \in Key, NEW p \in Nat
    PROVE  \E f : f \in Injection(InUse(k, p), 1 .. MaxOpen)
<1> DEFINE S == InUse(k, p)
           c == Cardinality(S)
<1>1. S \in SUBSET Tasks
  BY DEF InUse
<1>2. IsFiniteSet(S)
  BY <1>1, TaskSets
<1>3. c \in Nat /\ \E g : g \in Bijection(1 .. c, S)
  BY <1>2, FS_CardinalityType DEF ExistsBijection
<1>4. c <= MaxOpen /\ MaxOpen \in Nat
  BY ConstantsAssumption DEF PoolInv, ConstantsAssumption
<1>5. PICK g : g \in Bijection(1 .. c, S)
  BY <1>3
<1>6. PICK f : f \in Bijection(S, 1 .. c)
  BY <1>5, Fun_BijInverse
<1>7. f \in [S -> 1 .. c] /\ \A a, b \in S : f[a] = f[b] => a = b
  BY <1>6 DEF Bijection, Injection, IsInjective
<1>8. f \in [S -> 1 .. MaxOpen]
  <2>1. 1 .. c \subseteq 1 .. MaxOpen
    BY <1>3, <1>4
  <2> QED BY <1>7, <2>1
<1>9. f \in Injection(S, 1 .. MaxOpen)
  BY <1>7, <1>8, Fun_IsInj
<1> QED BY <1>9

\* ClientPool::new(3) is kept to the number of worker threads times, for every
\* address, although a pool may be replaced while its connections are in use.
THEOREM ConnectionsAreBounded == Spec => []ConnectionsBounded
<1>1. TypeOK /\ PoolInv => ConnectionsBounded
  <2> SUFFICES ASSUME TypeOK, PoolInv, NEW k \in Key
               PROVE  Cardinality({t \in Tasks : (At(t, "rpc") \/ At(t, "done")) /\ KeyOf(t) = k})
                          <= Workers * MaxOpen
    BY DEF ConnectionsBounded
  <2> DEFINE H == {t \in Tasks : (At(t, "rpc") \/ At(t, "done")) /\ KeyOf(t) = k}
             J(p) == CHOOSE f : f \in Injection(InUse(k, p), 1 .. MaxOpen)
             F == [t \in H |-> <<pool[t], J(pool[t])[t]>>]
             T == (1 .. Workers) \X (1 .. MaxOpen)
  <2>1. Workers \in Nat /\ MaxOpen \in Nat
    BY ConstantsAssumption DEF ConstantsAssumption
  <2>2. built[k] <= Workers /\ built[k] \in Nat
    <3>1. Inserting(k) \in SUBSET Tasks BY DEF Inserting
    <3>2. Cardinality(Inserting(k)) \in Nat BY <3>1, TaskSets
    <3>3. built[k] + Cardinality(Inserting(k)) <= Workers /\ built[k] \in Nat
      BY DEF PoolInv, TypeOK
    <3> QED BY <2>1, <3>2, <3>3
  <2>3. ASSUME NEW t \in H
        PROVE  /\ pool[t] \in 1 .. Workers /\ pool[t] \in Nat /\ t \in InUse(k, pool[t])
    <3>1. pool[t] \in 1 .. built[k]
      BY DEF PoolInv, At
    <3>2. t \in InUse(k, pool[t])
      BY DEF InUse
    <3> QED BY <2>1, <2>2, <3>1, <3>2
  <2>4. \A p \in Nat : J(p) \in Injection(InUse(k, p), 1 .. MaxOpen)
    BY Numbered
  <2>5. \A p \in Nat : /\ J(p) \in [InUse(k, p) -> 1 .. MaxOpen]
                       /\ \A a, b \in InUse(k, p) : J(p)[a] = J(p)[b] => a = b
    BY <2>4 DEF Injection, IsInjective
  <2> HIDE DEF J
  <2>6. F \in [H -> T]
    BY <2>3, <2>5
  <2>7. ASSUME NEW a \in H, NEW b \in H, F[a] = F[b] PROVE a = b
    <3>1. pool[a] = pool[b] /\ J(pool[a])[a] = J(pool[b])[b]
      BY <2>7
    <3> QED BY <2>3, <2>5, <3>1
  <2> HIDE DEF F
  <2>8. F \in Injection(H, T)
    BY <2>6, <2>7, Fun_IsInj
  <2>9. IsFiniteSet(T) /\ Cardinality(T) = Workers * MaxOpen
    <3>2. ASSUME NEW A, NEW B, IsFiniteSet(A), IsFiniteSet(B)
          PROVE  IsFiniteSet(A \X B) /\ Cardinality(A \X B) = Cardinality(A) * Cardinality(B)
      BY <3>2, FS_Product
    <3>1. /\ IsFiniteSet(1 .. Workers) /\ Cardinality(1 .. Workers) = Workers
          /\ IsFiniteSet(1 .. MaxOpen) /\ Cardinality(1 .. MaxOpen) = MaxOpen
      BY <2>1, FS_Interval
    <3>3. Cardinality(T) = Cardinality(1 .. Workers) * Cardinality(1 .. MaxOpen) /\ IsFiniteSet(T)
      BY <3>1, <3>2, Zenon
    <3> QED BY <3>1, <3>3
  <2>10. Cardinality(H) <= Cardinality(T)
    BY <2>8, <2>9, FS_Injection
  <2> QED BY <2>9, <2>10
<1> QED BY <1>1, ClientTypes, PoolInvHolds, PTL

-----------------------------------------------------------------------------
(* How often a request is executed. *)

(* An attempt that has not ended in an execution leaves one fewer than its  *)
(* number; one that failed may leave one more, and times goes up with it.    *)
OnceInv == \A t \in Tasks :
    /\ executed[t] + flight[t] <= times[t]
    /\ at[t] \notin {"done", "ok", "err"} => executed[t] + flight[t] <= times[t] - 1
    /\ at[t] \in {"done", "ok"} => executed[t] >= 1

\* A retry never executes a request more often than it was sent, even if the
\* servers execute it after the caller has gone on.
THEOREM ExecutedAtMostOncePerAttempt == Spec => []AtMostOncePerAttempt
<1>1. Init => OnceInv
  BY DEF Init, OnceInv
<1>2. TypeOK /\ OnceInv /\ [Next]_vars => OnceInv'
  <2> SUFFICES ASSUME TypeOK, OnceInv, [Next]_vars PROVE OnceInv' OBVIOUS
  <2>0. /\ at \in [Tasks -> State] /\ \A u \in Tasks : times[u] \in Nat
        /\ executed \in [Tasks -> Nat] /\ flight \in [Tasks -> Nat]
    BY ConstantsAssumption DEF TypeOK, ConstantsAssumption
  <2>1. ASSUME NEW t \in Tasks,
               Start(t) \/ StartNetwork(t) \/ Check(t) \/ Insert(t) \/ Get(t) \/ Connect(t) \/ Wake(t)
        PROVE  OnceInv'
    <3>1. /\ UNCHANGED <<times, executed, flight>>
          /\ at[t] \notin {"done", "ok", "err"} /\ at'[t] \notin {"done", "ok", "err"}
          /\ \A u \in Tasks \ {t} : at'[u] = at[u]
      BY <2>0, <2>1 DEF Start, StartNetwork, Check, Insert, Get, Connect, Wake, Goto, At, ghosts
    <3> QED BY <3>1 DEF OnceInv
  <2>2. ASSUME NEW t \in Tasks, ConnectFails(t) \/ Refused(t) \/ AnswerLost(t) \/ Abandoned(t)
        PROVE  OnceInv'
    <3>1. /\ Failed(t) /\ UNCHANGED executed
          /\ \A u \in Tasks \ {t} : flight'[u] = flight[u]
      BY <2>0, <2>2 DEF ConnectFails, Refused, AnswerLost, Abandoned, ghosts
    <3>2. /\ at'[t] \in {"sleep", "err"}
          /\ at' = [at EXCEPT ![t] = at'[t]]
          /\ \A u \in Tasks \ {t} : times'[u] = times[u]
          /\ at'[t] = "sleep" => times'[t] = times[t] + 1
          /\ at'[t] = "err" => times'[t] = times[t]
      BY <3>1, FailedType
    <3>3. \A u \in Tasks \ {t} : at'[u] = at[u]
      BY <2>0, <3>2
    <3>4. executed[t] + flight'[t] <= times[t]
      <4>1. CASE UNCHANGED flight
        BY <4>1 DEF OnceInv
      <4>2. CASE Abandoned(t)
        <5>1. at[t] = "rpc" /\ flight'[t] = flight[t] + 1
          BY <2>0, <4>2 DEF Abandoned, At
        <5>2. executed[t] + flight[t] <= times[t] - 1
          BY <5>1 DEF OnceInv
        <5> QED BY <2>0, <5>1, <5>2
      <4> QED BY <2>2, <4>1, <4>2 DEF ConnectFails, Refused, AnswerLost, ghosts
    <3>5. flight'[t] \in Nat
      BY <2>0, <2>2 DEF ConnectFails, Refused, AnswerLost, Abandoned, ghosts
    <3>6. ASSUME NEW u \in Tasks
          PROVE  /\ executed'[u] + flight'[u] <= times'[u]
                 /\ at'[u] \notin {"done", "ok", "err"} => executed'[u] + flight'[u] <= times'[u] - 1
                 /\ at'[u] \in {"done", "ok"} => executed'[u] >= 1
      <4>1. CASE u = t
        <5>1. CASE at'[t] = "sleep" BY <2>0, <3>1, <3>2, <3>4, <3>5, <4>1, <5>1
        <5>2. CASE at'[t] = "err" BY <2>0, <3>1, <3>2, <3>4, <3>5, <4>1, <5>2
        <5> QED BY <3>2, <5>1, <5>2
      <4>2. CASE u # t
        BY <3>1, <3>2, <3>3, <4>2 DEF OnceInv
      <4> QED BY <4>1, <4>2
    <3> QED BY <3>6 DEF OnceInv
  <2>3. ASSUME NEW t \in Tasks, Serve(t) PROVE OnceInv'
    <3>1. /\ UNCHANGED <<times, flight>> /\ at[t] = "rpc" /\ at'[t] = "done"
          /\ executed'[t] = executed[t] + 1
          /\ \A u \in Tasks \ {t} : at'[u] = at[u] /\ executed'[u] = executed[u]
      BY <2>0, <2>3 DEF Serve, Goto, At
    <3>2. executed[t] + flight[t] <= times[t] - 1
      BY <3>1 DEF OnceInv
    <3>3. executed'[t] + flight'[t] <= times'[t] /\ executed'[t] >= 1
      BY <2>0, <3>1, <3>2
    <3> QED BY <3>1, <3>3 DEF OnceInv
  <2>4. ASSUME NEW t \in Tasks, Answer(t) PROVE OnceInv'
    <3>1. /\ UNCHANGED <<times, executed, flight>> /\ at[t] = "done" /\ at'[t] = "ok"
          /\ \A u \in Tasks \ {t} : at'[u] = at[u]
      BY <2>0, <2>4 DEF Answer, Goto, At, ghosts
    <3> QED BY <3>1 DEF OnceInv
  <2>5. ASSUME NEW t \in Tasks, ServeLate(t) PROVE OnceInv'
    <3>1. /\ UNCHANGED <<times, at>> /\ flight[t] > 0
          /\ executed'[t] = executed[t] + 1 /\ flight'[t] = flight[t] - 1
          /\ \A u \in Tasks \ {t} : flight'[u] = flight[u] /\ executed'[u] = executed[u]
      BY <2>0, <2>5 DEF ServeLate, calls
    <3>2. executed'[t] + flight'[t] = executed[t] + flight[t] /\ executed'[t] >= 1
      BY <2>0, <3>1
    <3> QED BY <3>1, <3>2 DEF OnceInv
  <2>6. CASE UNCHANGED vars
    BY <2>6 DEF OnceInv, vars, calls, ghosts
  <2> QED BY <2>1, <2>2, <2>3, <2>4, <2>5, <2>6 DEF Next, Step
<1>3. TypeOK /\ OnceInv => AtMostOncePerAttempt
  <2> SUFFICES ASSUME TypeOK, OnceInv, NEW t \in Tasks
               PROVE  /\ executed[t] + flight[t] <= times[t]
                      /\ At(t, "ok") => executed[t] >= 1
                      /\ At(t, "ok") /\ times[t] = 1 => flight[t] = 0
    BY DEF AtMostOncePerAttempt
  <2>1. executed[t] \in Nat /\ flight[t] \in Nat
    BY DEF TypeOK
  <2> QED BY <2>1 DEF OnceInv, At
<1> QED BY <1>1, <1>2, <1>3, ClientTypes, PTL DEF Spec

-----------------------------------------------------------------------------
(* What a call that gave up has behind it.                                   *)

\* Numbers below the length are their own remainder, and the length's is 0.
LEMMA Remainders ==
    ASSUME NEW L \in Nat \ {0}
    PROVE  L % L = 0 /\ \A i \in 0 .. L - 1 : i % L = i
<1>1. \A i \in 0 .. L - 1 : i % L = i
  OBVIOUS
<1>2. L % L = 0
  OBVIOUS
<1> QED BY <1>1, <1>2

\* Every attempt so far has taken the index of its number, and a call that
\* retries ends with an error only at its last attempt.
TriedInv == \A t \in Tasks :
    /\ tried[t] \subseteq 0 .. Len(call[t].addrs) - 1
    /\ \A i \in 1 .. times[t] :
          i < times[t] \/ at[t] \notin {"idle", "check", "sleep"} =>
              i % Len(call[t].addrs) \in tried[t]
    /\ At(t, "err") /\ call[t].retry => times[t] = RetryTimes + 1

\* A retried call that gives up has asked every address it was given, if the
\* attempts suffice: the rotation skips none although it starts at the second.
THEOREM RetriesReachEveryAddress == Spec => []GivesUpAfterEveryAddress
<1>1. TypeOK /\ Init => TriedInv
  <2> SUFFICES ASSUME TypeOK, Init, NEW t \in Tasks
               PROVE  /\ tried[t] \subseteq 0 .. Len(call[t].addrs) - 1
                      /\ \A i \in 1 .. times[t] : ~(i < times[t])
                      /\ at[t] = "idle"
    BY DEF TriedInv, At
  <2> QED BY DEF Init
<1>2. TypeOK /\ TriedInv /\ [Next]_vars => TriedInv'
  <2> SUFFICES ASSUME TypeOK, TriedInv, [Next]_vars PROVE TriedInv' OBVIOUS
  <2>0. /\ at \in [Tasks -> State] /\ tried \in [Tasks -> SUBSET Nat] /\ RetryTimes \in Nat
        /\ \A u \in Tasks : times[u] \in Nat \ {0} /\ times[u] <= RetryTimes + 1
    BY ConstantsAssumption DEF TypeOK, ConstantsAssumption
  <2>1. UNCHANGED call
    BY DEF Next, Step, Start, StartNetwork, Check, Insert, Get, Connect, ConnectFails, Answer,
           AnswerLost, Refused, Abandoned, Wake, Serve, ServeLate, vars, fixed
  <2>2. ASSUME NEW t \in Tasks,
               \/ Start(t) \/ StartNetwork(t) \/ Insert(t) \/ Get(t) \/ Connect(t) \/ Wake(t)
               \/ Serve(t) \/ Answer(t)
        PROVE  TriedInv'
    <3>1. /\ UNCHANGED <<times, tried>>
          /\ at'[t] \in {"idle", "check", "sleep"} \/ at[t] \notin {"idle", "check", "sleep"}
          /\ at'[t] # "err" /\ \A u \in Tasks \ {t} : at'[u] = at[u]
      BY <2>0, <2>2 DEF Start, StartNetwork, Insert, Get, Connect, Wake, Serve, Answer, Goto, At,
                        ghosts
    <3> QED BY <2>1, <3>1 DEF TriedInv, At
  <2>3. ASSUME NEW t \in Tasks, Check(t) PROVE TriedInv'
    <3>1. /\ UNCHANGED times /\ at'[t] # "err" /\ \A u \in Tasks \ {t} : at'[u] = at[u]
          /\ tried'[t] = tried[t] \cup {Index(t)}
          /\ \A u \in Tasks \ {t} : tried'[u] = tried[u]
      BY <2>0, <2>3 DEF Check, Goto
    <3>2. Index(t) \in 0 .. Len(call[t].addrs) - 1 /\ Index(t) = times[t] % Len(call[t].addrs)
      BY IndexType DEF Index
    <3>3. ASSUME NEW i \in 1 .. times[t] PROVE i % Len(call[t].addrs) \in tried'[t]
      <4>1. CASE i = times[t] BY <3>1, <3>2, <4>1
      <4>2. CASE i < times[t] BY <3>1, <4>2 DEF TriedInv
      <4> QED BY <2>0, <4>1, <4>2
    <3>4. tried'[t] \subseteq 0 .. Len(call[t].addrs) - 1
      BY <3>1, <3>2 DEF TriedInv
    <3>5. ASSUME NEW u \in Tasks \ {t}
          PROVE  /\ tried'[u] \subseteq 0 .. Len(call[u].addrs) - 1
                 /\ \A i \in 1 .. times[u] :
                       i < times[u] \/ at'[u] \notin {"idle", "check", "sleep"} =>
                           i % Len(call[u].addrs) \in tried'[u]
                 /\ at'[u] = "err" /\ call[u].retry => times[u] = RetryTimes + 1
      BY <3>1 DEF TriedInv, At
    <3> QED BY <2>1, <3>1, <3>3, <3>4, <3>5 DEF TriedInv, At
  <2>4. ASSUME NEW t \in Tasks, ConnectFails(t) \/ Refused(t) \/ AnswerLost(t) \/ Abandoned(t)
        PROVE  TriedInv'
    <3>1. /\ Failed(t) /\ UNCHANGED tried /\ at[t] \notin {"idle", "check", "sleep"}
      BY <2>0, <2>4 DEF ConnectFails, Refused, AnswerLost, Abandoned, ghosts, At
    <3>2. /\ at'[t] \in {"sleep", "err"} /\ at' = [at EXCEPT ![t] = at'[t]]
          /\ \A u \in Tasks \ {t} : times'[u] = times[u]
          /\ at'[t] = "sleep" => times'[t] = times[t] + 1
          /\ at'[t] = "err" => times'[t] = times[t]
      BY <3>1, FailedType
    <3>3. \A u \in Tasks \ {t} : at'[u] = at[u]
      BY <2>0, <3>2
    <3>4. at'[t] = "err" /\ call[t].retry => times[t] > RetryTimes
      BY <2>0, <3>1 DEF Failed, Last, Goto
    <3>5. \A i \in 1 .. times[t] : i % Len(call[t].addrs) \in tried[t]
      BY <3>1 DEF TriedInv
    <3>6. \A i \in 1 .. times'[t] :
             i < times'[t] \/ at'[t] \notin {"idle", "check", "sleep"} =>
                 i % Len(call[t].addrs) \in tried[t]
      <4>1. CASE at'[t] = "sleep"
        <5>1. \A i \in 1 .. times'[t] : i < times'[t] => i \in 1 .. times[t]
          BY <2>0, <3>2, <4>1
        <5> QED BY <3>5, <4>1, <5>1
      <4>2. CASE at'[t] = "err"
        BY <3>2, <3>5, <4>2
      <4> QED BY <3>2, <4>1, <4>2
    <3>7. at'[t] = "err" /\ call[t].retry => times'[t] = RetryTimes + 1
      BY <2>0, <3>2, <3>4
    <3>8. ASSUME NEW u \in Tasks \ {t}
          PROVE  /\ tried'[u] \subseteq 0 .. Len(call[u].addrs) - 1
                 /\ \A i \in 1 .. times'[u] :
                       i < times'[u] \/ at'[u] \notin {"idle", "check", "sleep"} =>
                           i % Len(call[u].addrs) \in tried'[u]
                 /\ at'[u] = "err" /\ call[u].retry => times'[u] = RetryTimes + 1
      BY <3>1, <3>2, <3>3 DEF TriedInv, At
    <3>9. tried[t] \subseteq 0 .. Len(call[t].addrs) - 1
      BY DEF TriedInv
    <3> QED BY <2>1, <3>1, <3>6, <3>7, <3>8, <3>9 DEF TriedInv, At
  <2>5. ASSUME NEW t \in Tasks, ServeLate(t) PROVE TriedInv'
    BY <2>1, <2>5 DEF TriedInv, ServeLate, calls, At
  <2>6. CASE UNCHANGED vars
    BY <2>6 DEF TriedInv, vars, calls, ghosts, fixed, At
  <2> QED BY <2>2, <2>3, <2>4, <2>5, <2>6 DEF Next, Step
<1>3. TypeOK /\ TriedInv => GivesUpAfterEveryAddress
  <2> SUFFICES ASSUME TypeOK, TriedInv, NEW t \in Tasks, At(t, "err"), call[t].retry,
                      Len(call[t].addrs) <= RetryTimes + 1
               PROVE  tried[t] = 0 .. Len(call[t].addrs) - 1
    BY DEF GivesUpAfterEveryAddress
  <2> DEFINE L == Len(call[t].addrs)
  <2>1. L \in Nat \ {0} /\ RetryTimes \in Nat
    <3>1. call[t].addrs \in Seq(Addrs) /\ call[t].addrs # <<>>
      BY ConstantsAssumption DEF ConstantsAssumption, TypeOK
    <3> QED BY <3>1, ConstantsAssumption DEF ConstantsAssumption
  <2>2. \A i \in 1 .. RetryTimes + 1 : i % L \in tried[t]
    BY DEF TriedInv, At
  <2>3. ASSUME NEW j \in 0 .. L - 1 PROVE j \in tried[t]
    <3>0. L % L = 0 /\ j % L = j
      BY <2>1, Remainders
    <3>1. CASE j = 0
      <4>1. L \in 1 .. RetryTimes + 1 BY <2>1
      <4>2. L % L \in tried[t] BY <2>2, <4>1
      <4> QED BY <3>0, <3>1, <4>2
    <3>2. CASE j # 0
      <4>1. j \in 1 .. RetryTimes + 1 BY <2>1, <3>2
      <4>2. j % L \in tried[t] BY <2>2, <4>1
      <4> QED BY <3>0, <4>2
    <3> QED BY <3>1, <3>2
  <2>4. tried[t] \subseteq 0 .. L - 1
    BY DEF TriedInv
  <2> QED BY <2>3, <2>4
<1> QED BY <1>1, <1>2, <1>3, ClientTypes, PTL DEF Spec

=============================================================================

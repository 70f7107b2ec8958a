--------------------------- MODULE KvEngine_proofs ---------------------------
(***************************************************************************)
(* For any keys, prefixes and values, and any number of writes and         *)
(* crashes: the types, that a list is the database of one moment, and that *)
(* an engine that is up has its family.                                    *)
(***************************************************************************)
EXTENDS KvEngine, FiniteSetTheorems, WellFoundedInduction, TLAPS

USE DEF engine, calls, vars

\* A non-empty set of keys has a least one: the intervals 0..k that end in it
\* are well-founded under strict inclusion.
LEMMA LeastIsLeast ==
    ASSUME NEW S \in SUBSET Keys, S # {}
    PROVE  Least(S) \in S /\ \A k \in S : Least(S) <= k
<1> DEFINE T == {0 .. i : i \in S}
           R == StrictSubsetOrdering(Nat)
           F == FiniteSubsetsOf(Nat)
<1>0. S \subseteq Nat
  BY ConstantsAssumption DEF ConstantsAssumption
<1>1. IsWellFoundedOn(R, F)
  BY FS_StrictSubsetOrderingWellFounded
<1>2. T \subseteq F /\ T # {}
  <2>1. \A i \in S : 0 .. i \in SUBSET Nat /\ IsFiniteSet(0 .. i)
    BY <1>0, FS_Interval
  <2> QED
    BY <2>1 DEF FiniteSubsetsOf
<1>3. PICK X \in T : \A Y \in T : ~ (<<Y, X>> \in R)
  <2> HIDE DEF T, R, F
  <2> QED
    BY <1>1, <1>2, WFMin
<1>4. PICK m \in S : X = 0 .. m
  OBVIOUS
<1>5. ASSUME NEW j \in S, j < m PROVE FALSE
  <2>1. 0 .. j \in T /\ 0 .. j \subseteq X /\ 0 .. j # X
    <3>1. m \in X /\ m \notin 0 .. j
      BY <1>0, <1>4, <1>5
    <3>2. 0 .. j \subseteq X
      BY <1>0, <1>4, <1>5
    <3> QED
      BY <3>1, <3>2
  <2>2. <<0 .. j, X>> \in R
    BY <2>1, <1>0, <1>4 DEF StrictSubsetOrdering
  <2> QED
    BY <1>3, <2>1, <2>2
<1>6. \A k \in S : m <= k
  BY <1>0, <1>5
<1>7. \E l \in S : \A k \in S : l <= k
  BY <1>4, <1>6, Zenon
<1> HIDE DEF T, R, F
<1> QED
  BY <1>7, Zenon DEF Least

-----------------------------------------------------------------------------
(* Types *)

LEMMA InitIsTyped == Init => TypeOK
<1> SUFFICES ASSUME Init PROVE TypeOK
  OBVIOUS
<1>1. EmptyMap \in Map
  BY DEF EmptyMap, Map
<1>2. /\ scan \in [at : {"none", "reading", "end"}, prefix : SUBSET Keys, seen : Map,
                  left : SUBSET Keys, got : Map]
      /\ import \in [map : Map, left : SUBSET Keys]
  BY <1>1 DEF Init, NoScan, NoImport
<1>3. writes \in 0 .. MaxWrites /\ crashes \in 0 .. MaxCrashes
  BY ConstantsAssumption DEF ConstantsAssumption, Init
<1> QED
  BY <1>1, <1>2, <1>3 DEF Init, TypeOK, Restarts

LEMMA EndsTypes ==
    ASSUME TypeOK, Ends, crashes' \in 0 .. MaxCrashes
    PROVE  TypeOK'
  BY DEF TypeOK, Ends, Map, EmptyMap, NoScan, NoImport, Restarts

\* A write keeps the types, and the ghost in step with the database.
LEMMA BecomesTypes ==
    ASSUME TypeOK, NEW m \in Map, Becomes(m)
    PROVE  db' \in Map /\ moments' \subseteq Map
  BY DEF TypeOK, Becomes

LEMMA WriteTypes ==
    ASSUME TypeOK, NEW k \in Keys, NEW v \in Values \cup {Absent}, Write(k, v)
    PROVE  TypeOK'
<1>1. [db EXCEPT ![k] = v] \in Map
  BY DEF TypeOK, Map
<1>2. writes' \in 0 .. MaxWrites
  BY ConstantsAssumption DEF ConstantsAssumption, TypeOK, Write
<1> QED
  BY <1>1, <1>2, BecomesTypes DEF Write, TypeOK

LEMMA StepIsTyped ==
    ASSUME TypeOK, [Next]_vars
    PROVE  TypeOK'
<1>0. CASE UNCHANGED vars
  BY <1>0 DEF TypeOK
<1>1. CASE Start
  BY <1>1 DEF Start, New, OpenBegins, OpenEnds, ListFamilies, Found, CreateFamily, TypeOK,
     Restarts, Starting
<1>2. CASE ScanKey
  <2>1. Least(scan.left) \in Keys
    BY <1>2, LeastIsLeast DEF ScanKey, TypeOK
  <2>2. scan' \in [at : {"none", "reading", "end"}, prefix : SUBSET Keys, seen : Map,
                   left : SUBSET Keys, got : Map]
    BY <1>2, <2>1 DEF ScanKey, ValueAt, TypeOK, Map
  <2> QED
    BY <1>2, <2>2 DEF ScanKey, TypeOK
<1>3. CASE ScanEnd
  BY <1>3 DEF ScanEnd, TypeOK
<1>4. CASE ImportKey
  <2>1. Least(import.left) \in Keys
    BY <1>4, LeastIsLeast DEF ImportKey, TypeOK
  <2>2. [db EXCEPT ![Least(import.left)] = import.map[Least(import.left)]] \in Map
    BY <2>1 DEF TypeOK, Map
  <2> QED
    BY <1>4, <2>1, <2>2, BecomesTypes DEF ImportKey, TypeOK
<1>5. CASE Crash
  <2>1. crashes' \in 0 .. MaxCrashes
    BY <1>5, ConstantsAssumption DEF ConstantsAssumption, Crash, TypeOK
  <2> QED
    BY <1>5, <2>1, EndsTypes DEF Crash
<1>6. CASE Exit
  BY <1>6, EndsTypes DEF Exit, TypeOK
<1>7. ASSUME NEW k \in Keys, Delete(k) PROVE TypeOK'
  BY <1>7, WriteTypes DEF Delete
<1>8. ASSUME NEW k \in Keys, NEW v \in Values, Set(k, v) PROVE TypeOK'
  BY <1>8, WriteTypes DEF Set
<1>9. ASSUME NEW p \in Prefixes, BeginScan(p) PROVE TypeOK'
  <2>1. p \in SUBSET Keys
    BY ConstantsAssumption DEF ConstantsAssumption
  <2> QED
    BY <1>9, <2>1 DEF BeginScan, TypeOK, Present, EmptyMap, Map
<1>10. ASSUME NEW m \in Map, BeginImport(m) PROVE TypeOK'
  <2>1. writes' \in 0 .. MaxWrites
    BY <1>10, ConstantsAssumption DEF ConstantsAssumption, BeginImport, TypeOK
  <2> QED
    BY <1>10, <2>1 DEF BeginImport, TypeOK, Present
<1> QED
  BY <1>0, <1>1, <1>2, <1>3, <1>4, <1>5, <1>6, <1>7, <1>8, <1>9, <1>10 DEF Next

\* Every variable keeps its type, for any keys, prefixes and values (KvEngine).
THEOREM EngineTypes == Spec => []TypeOK
<1>1. Init => TypeOK
  BY InitIsTyped
<1>2. TypeOK /\ [Next]_vars => TypeOK'
  BY StepIsTyped
<1> QED
  BY <1>1, <1>2, PTL DEF Spec

-----------------------------------------------------------------------------
(* Starting *)

\* How far a start is and what it found fit what is on the disk.
StartInv ==
    /\ mode = "creating" => path \in {"none", "cut"}
    /\ mode = "listing" => path # "none"
    /\ mode = "opened" => path \in {"bare", "ready"} /\ (listed <=> path = "ready")
    /\ mode = "up" => path = "ready"
    /\ mode = "panicked" => path = "cut"

\* An engine that is up has the family whose handle every call unwraps, and a
\* start only ever panics when the first DB::open was cut off (cf_cluster,
\* RocksDBEngine::new).
THEOREM UpIsReady == Spec => [](/\ mode = "up" => path = "ready"
                                /\ mode = "panicked" => path = "cut")
<1>1. Init => StartInv
  BY DEF Init, StartInv
<1>2. TypeOK /\ StartInv /\ [Next]_vars => StartInv'
  <2> SUFFICES ASSUME TypeOK, StartInv, [Next]_vars PROVE StartInv'
    OBVIOUS
  <2>1. CASE Start
    <3>1. CASE New \/ OpenBegins \/ OpenEnds
      BY <3>1 DEF StartInv, New, OpenBegins, OpenEnds, TypeOK
    <3>2. CASE ListFamilies
      BY <3>2 DEF StartInv, ListFamilies, Found, TypeOK
    <3>3. CASE CreateFamily
      BY <3>3 DEF StartInv, CreateFamily, TypeOK
    <3> QED
      BY <2>1, <3>1, <3>2, <3>3 DEF Start
  <2>2. CASE Crash \/ Exit
    BY <2>2 DEF StartInv, Crash, Exit, Ends
  <2>3. CASE ScanKey \/ ScanEnd \/ ImportKey \/ UNCHANGED vars
    <3>1. mode' = mode /\ path' = path /\ listed' = listed
      BY <2>3 DEF ScanKey, ScanEnd, ImportKey
    <3> HIDE DEF engine, vars
    <3> QED
      BY <3>1 DEF StartInv
  <2>4. ASSUME NEW k \in Keys, Delete(k) \/ \E v \in Values : Set(k, v) PROVE StartInv'
    <3>1. \A v : Write(k, v) => mode' = mode /\ path' = path /\ listed' = listed
      BY DEF Write
    <3>2. mode' = mode /\ path' = path /\ listed' = listed
      BY <2>4, <3>1, Zenon DEF Delete, Set
    <3> QED
      BY <3>2 DEF StartInv
  <2>5. ASSUME NEW p \in Prefixes, BeginScan(p) PROVE StartInv'
    BY <2>5 DEF StartInv, BeginScan
  <2>6. ASSUME NEW m \in Map, BeginImport(m) PROVE StartInv'
    BY <2>6 DEF StartInv, BeginImport
  <2> QED
    BY <2>1, <2>2, <2>3, <2>4, <2>5, <2>6 DEF Next
<1>3. StartInv => /\ mode = "up" => path = "ready"
                  /\ mode = "panicked" => path = "cut"
  BY DEF StartInv
<1> QED
  BY <1>1, <1>2, <1>3, EngineTypes, PTL DEF Spec

-----------------------------------------------------------------------------
(* Lists *)

\* Nothing under the prefix has been passed over: the keys that are left are
\* keys of the iterator's moment from the prefix on, and the list has the others.
ScanInv ==
    /\ scan.at # "none" => scan.prefix \in Prefixes /\ scan.seen \in moments
    /\ scan.at = "reading" => \A k \in scan.left : Least(scan.prefix) <= k
    /\ scan.at = "end" => scan.left \cap scan.prefix = {}
    /\ scan.at # "none" => \A k \in Keys :
           scan.got[k] = IF k \in scan.prefix \ scan.left THEN scan.seen[k] ELSE Absent

LEMMA ScanStaysInv ==
    ASSUME TypeOK, ScanInv, UNCHANGED scan, moments \subseteq moments'
    PROVE  ScanInv'
  BY DEF ScanInv

LEMMA BeginScanInv ==
    ASSUME TypeOK, NEW p \in Prefixes, BeginScan(p)
    PROVE  ScanInv'
<1>1. p \subseteq Keys /\ p # {}
  BY ConstantsAssumption DEF ConstantsAssumption
<1>2. /\ scan'.at = "reading" /\ scan'.prefix = p /\ scan'.seen = db /\ scan'.got = EmptyMap
      /\ scan'.left = {k \in Present(db) : k >= Least(p)} /\ moments' = {db}
  BY DEF BeginScan
<1>3. \A k \in p : k \notin scan'.left => db[k] = Absent
  BY <1>1, <1>2, LeastIsLeast, ConstantsAssumption DEF ConstantsAssumption, Present
<1>4. \A k \in scan'.left : Least(p) <= k
  BY <1>1, <1>2, LeastIsLeast, ConstantsAssumption DEF ConstantsAssumption, Present
<1> QED
  BY <1>2, <1>3, <1>4 DEF ScanInv, EmptyMap

LEMMA ScanKeyInv ==
    ASSUME TypeOK, ScanInv, ScanKey
    PROVE  ScanInv'
<1> DEFINE k == Least(scan.left)
<1>1. k \in scan.left /\ k \in Keys /\ k \in scan.prefix
  BY LeastIsLeast DEF ScanKey, TypeOK
<1>2. /\ scan'.at = "reading" /\ scan'.prefix = scan.prefix /\ scan'.seen = scan.seen
      /\ scan'.left = scan.left \ {k} /\ scan'.got = [scan.got EXCEPT ![k] = scan.seen[k]]
      /\ scan.at = "reading" /\ moments' = moments
  BY DEF ScanKey, ValueAt, TypeOK
<1>3. \A j \in Keys : scan'.got[j] = IF j = k THEN scan.seen[k] ELSE scan.got[j]
  BY <1>1, <1>2 DEF TypeOK, Map
<1> HIDE DEF k
<1> QED
  BY <1>1, <1>2, <1>3 DEF ScanInv

LEMMA ScanEndInv ==
    ASSUME TypeOK, ScanInv, ScanEnd
    PROVE  ScanInv'
<1>1. /\ scan.at = "reading" /\ scan'.at = "end" /\ scan'.prefix = scan.prefix
      /\ scan'.seen = scan.seen /\ scan'.left = scan.left /\ scan'.got = scan.got
      /\ moments' = moments /\ (scan.left # {} => Least(scan.left) \notin scan.prefix)
  BY DEF ScanEnd, TypeOK
<1>2. scan.left \cap scan.prefix = {}
  <2> SUFFICES ASSUME NEW k \in scan.left, k \in scan.prefix PROVE FALSE
    OBVIOUS
  <2> DEFINE p == scan.prefix
             l == Least(scan.left)
  <2>1. p \in Prefixes /\ p \subseteq Keys /\ p # {} /\ Least(p) <= l
    BY <1>1, LeastIsLeast DEF ScanInv, TypeOK
  <2>2. l \in Keys /\ l <= k
    BY LeastIsLeast DEF TypeOK
  <2>3. Least(p) \in p
    BY <2>1, LeastIsLeast
  <2>4. l \in Between(Keys, Least(p), k)
    BY <2>1, <2>2 DEF Between
  <2>5. l \in p
    BY <2>1, <2>3, <2>4, ConstantsAssumption DEF ConstantsAssumption
  <2> QED
    BY <1>1, <2>5
<1> QED
  BY <1>1, <1>2 DEF ScanInv

LEMMA StepKeepsScan ==
    ASSUME TypeOK, ScanInv, [Next]_vars
    PROVE  ScanInv'
<1>1. CASE UNCHANGED vars \/ Start
  BY <1>1, ScanStaysInv DEF Start, New, OpenBegins, OpenEnds, ListFamilies, CreateFamily
<1>2. CASE ImportKey
  BY <1>2, ScanStaysInv DEF ImportKey, Becomes
<1>3. CASE Crash \/ Exit
  BY <1>3 DEF Crash, Exit, Ends, NoScan, ScanInv
<1>4. ASSUME NEW k \in Keys, Delete(k) \/ \E v \in Values : Set(k, v) PROVE ScanInv'
  BY <1>4, ScanStaysInv DEF Delete, Set, Write, Becomes
<1>5. ASSUME NEW m \in Map, BeginImport(m) PROVE ScanInv'
  BY <1>5, ScanStaysInv DEF BeginImport
<1> QED
  BY <1>1, <1>2, <1>3, <1>4, <1>5, BeginScanInv, ScanKeyInv, ScanEndInv DEF Next

\* A finished list has all the keys under its prefix, and only those, with
\* their values of one moment while it was read, whatever sets, deletes and
\* imports ran beside it (read_prefix, read_all_by_cf).
THEOREM ListsAreOneMoment == Spec => []ScanIsOneMoment
<1>1. Init => ScanInv
  BY DEF Init, NoScan, ScanInv
<1>2. TypeOK /\ ScanInv /\ [Next]_vars => ScanInv'
  BY StepKeepsScan
<1>3. TypeOK /\ ScanInv => ScanIsOneMoment
  <2> SUFFICES ASSUME TypeOK, ScanInv, scan.at = "end"
               PROVE  \E m \in moments : \A k \in Keys :
                          scan.got[k] = IF k \in scan.prefix THEN m[k] ELSE Absent
    BY DEF ScanIsOneMoment
  <2>1. scan.seen \in moments /\ scan.left \cap scan.prefix = {}
    BY DEF ScanInv
  <2>2. \A k \in Keys : scan.got[k] = IF k \in scan.prefix THEN scan.seen[k] ELSE Absent
    BY <2>1 DEF ScanInv
  <2> QED
    BY <2>1, <2>2
<1> QED
  BY <1>1, <1>2, <1>3, EngineTypes, PTL DEF Spec

=============================================================================

------------------------- MODULE RaftStorage_proofs -------------------------
(***************************************************************************)
(* What TLAPS proves of RaftStorage for every election history, every log  *)
(* length, every number of terms and any number of crashes.                *)
(***************************************************************************)
EXTENDS RaftStorage, SequenceTheorems, FiniteSetTheorems, WellFoundedInduction, TLAPS

-----------------------------------------------------------------------------
(***************************************************************************)
(* The invariant.  on_ready's remaining phases are a sequence; the proofs  *)
(* only need which phases are left, because the phases of one turn always  *)
(* follow each other by rank.                                              *)
(***************************************************************************)

PhaseName == {"snapshot", "importEntry", "importFirst", "importHard", "importLast", "adopt",
              "append", "last", "handle", "create", "hard", "send", "advance", "lightHard",
              "apply"}

Rank(p) ==
    CASE p = "lightHard" -> 0
      [] p = "snapshot" -> 1
      [] p = "importEntry" -> 2
      [] p = "importFirst" -> 3
      [] p = "importHard" -> 4
      [] p = "importLast" -> 5
      [] p = "adopt" -> 6
      [] p = "last" -> 7
      [] p = "append" -> 8
      [] p = "create" -> 9
      [] p = "handle" -> 10
      [] p = "hard" -> 11
      [] p = "send" -> 12
      [] OTHER -> 13    \* "advance" or "apply", of which a turn has one left

SetOf(s) == {s[i] : i \in 1 .. Len(s)}
Ordered(s) == \A i, j \in 1 .. Len(s) : i < j => Rank(s[i]) < Rank(s[j])
Left == SetOf(todo)

Imports == {"importEntry", "importFirst", "importHard", "importLast", "adopt"}

\* The first n entries of f and of g are the same.
Same(f, g, n) == \A i \in 1 .. n : f[i] = g[i]

Importing == Left \cap ({"snapshot"} \cup Imports) # {}

\* A snapshot's Ready, until advance: the core has the snapshot's log already.
Loading == rd.snap # 0 /\ "advance" \in Left

\* Entries may have been handed out that advance or advance_apply will refuse.
Handing == "advance" \in Left \/ "apply" \in Left

\* The log a restart would load ends here, and no entry of it is missing.
StoredEnd == IF disk.last = Unset THEN disk.commit ELSE disk.last

DiskInv ==
    /\ \A i \in Index : i <= StoredEnd => disk.log[i] # 0
    /\ mode = "down" => /\ todo = <<>>
                        /\ meta = [index |-> disk.commit, term |-> disk.term]

High == Larger(core.commit, core.applied)

CoreInv ==
    /\ core.role = "leader" => /\ core.term \in Term /\ core.term \in mine
                               /\ \/ core.persisted = Len(core.log)
                                  \/ rd.fresh /\ "advance" \in Left
    /\ core.commit <= Len(core.log) /\ core.persisted <= Len(core.log)
    /\ prev.commit = core.commit
    /\ disk.commit <= High /\ meta.index <= High /\ FirstIndex <= High + 1
    /\ core.applied > Deliverable(core) => Handing /\ "append" \notin Left
    /\ core.applied < Deliverable(core) => "handle" \in Left \/ "advance" \in Left
    /\ "create" \in Left => Snapshots /\ disk.commit = core.applied
    /\ "lightHard" \in Left => Left \subseteq {"lightHard", "handle", "apply"}
    /\ rd.fresh /\ "advance" \in Left =>
          /\ rd.snap = 0 /\ core.persisted < Len(core.log)
          /\ meta.index <= Larger(core.persisted, core.applied)
          /\ FirstIndex <= Larger(core.persisted, core.applied) + 1

\* What is left to handle: the deliverable entries, and perhaps one more.
HandleInv ==
    "handle" \in Left =>
        /\ Handing
        /\ core.applied < rd.upto
        /\ rd.extra = 0 => rd.upto = Deliverable(core)
        /\ rd.extra # 0 => /\ rd.upto = Deliverable(core) + 1 /\ rd.upto \in Index
                           /\ disk.log[rd.upto] # 0

\* Between two turns, and once append or an import is over, the storage holds
\* the core's log; where last_index was never saved, nothing was appended.
StoredInv ==
    "append" \notin Left /\ ~Loading =>
        Same(disk.log, core.log, Len(core.log)) /\ LastIndex = Len(core.log)

UnsavedInv ==
    disk.last = Unset /\ ~Importing =>
        /\ disk.commit = meta.index
        /\ core.applied = meta.index /\ core.persisted = meta.index /\ meta.index <= core.commit
        /\ "handle" \notin Left /\ "create" \notin Left

\* Inside append: everything before the next entry is stored.
AppendInv ==
    /\ "last" \in Left => "append" \in Left
    /\ "append" \in Left =>
          /\ rd.fresh /\ "advance" \in Left
          /\ core.persisted < rd.next /\ rd.next <= Len(core.log)
          /\ Same(disk.log, core.log, rd.next - 1)
          /\ "last" \in Left => disk.log[rd.next] = core.log[rd.next]
          /\ disk.commit <= core.persisted
          /\ FirstIndex <= core.persisted + 1
          /\ LastIndex + 1 >= rd.next

\* Inside a snapshot's Ready: apply_snapshot refuses what the storage already
\* has, or the leader's entries are stored but for those that wait.
Waiting == IF "importEntry" \in Left THEN rd.left ELSE {}

LoadInv ==
    Loading =>
        /\ Snapshots /\ core.role = "follower" /\ ~rd.fresh
        /\ core.commit = rd.snap /\ core.applied = rd.snap /\ core.persisted = rd.snap
        /\ Len(core.log) = rd.snap
        /\ rd.from \in Term /\ rd.term \in Term /\ 1 <= rd.snap /\ rd.snap <= rd.last
        /\ rd.last <= Len(lead[rd.from])
        /\ rd.first \in 1 .. rd.snap \cup {Unset}
        /\ Same(core.log, lead[rd.from], rd.snap)
        /\ Left \subseteq {"snapshot"} \cup Imports \cup {"hard", "send", "advance"}
        /\ ~Importing => LastIndex >= rd.snap

ImportInv ==
    /\ Importing => Loading
    /\ "snapshot" \in Left =>
          /\ Left \cap Imports = {}
          /\ rd.left = 1 .. rd.last
          /\ FirstIndex > rd.snap =>
                /\ "again" \in breaches /\ LastIndex >= rd.snap
                /\ disk.last = Unset => disk.commit = rd.snap /\ meta.index = rd.snap
    /\ Left \cap Imports # {} =>
          /\ "adopt" \in Left
          /\ meta.index = rd.snap
          /\ "importEntry" \in Left => rd.left # {} /\ rd.left \subseteq 1 .. rd.last
          /\ \A i \in (1 .. rd.last) \ Waiting : disk.log[i] = lead[rd.from][i]
          /\ "importLast" \notin Left => disk.last = rd.last

UpInv == CoreInv /\ HandleInv /\ StoredInv /\ UnsavedInv /\ AppendInv /\ LoadInv /\ ImportInv

NodeInv ==
    /\ Ordered(todo)
    /\ DiskInv
    /\ mode = "up" => UpInv

-----------------------------------------------------------------------------
(* Sequences of phases. *)

\* A phase that may be skipped is a sequence of at most that phase.
LEMMA PhaseIs ==
    ASSUME NEW b \in BOOLEAN, NEW p \in PhaseName
    PROVE  /\ Phase(b, p) \in Seq(PhaseName)
           /\ SetOf(Phase(b, p)) = IF b THEN {p} ELSE {}
           /\ Ordered(Phase(b, p))
<1>1. CASE b
  <2>1. Phase(b, p) = <<p>> BY <1>1 DEF Phase
  <2>2. <<p>> \in Seq(PhaseName) /\ Len(<<p>>) = 1 /\ <<p>>[1] = p /\ 1 .. 1 = {1}
    OBVIOUS
  <2>3. SetOf(<<p>>) = {p}
    BY <2>2 DEF SetOf
  <2>4. Ordered(<<p>>)
    BY <2>2 DEF Ordered
  <2> QED BY <1>1, <2>1, <2>2, <2>3, <2>4
<1>2. CASE ~b
  <2>1. Phase(b, p) = <<>> BY <1>2 DEF Phase
  <2> QED BY <1>2, <2>1 DEF SetOf, Ordered
<1> QED BY <1>1, <1>2

\* What two sequences of phases hold together.
LEMMA JoinedSet ==
    ASSUME NEW s \in Seq(PhaseName), NEW t \in Seq(PhaseName)
    PROVE  SetOf(s \o t) = SetOf(s) \cup SetOf(t)
<1>1. /\ s \o t \in Seq(PhaseName) /\ Len(s) \in Nat /\ Len(t) \in Nat
      /\ Len(s \o t) = Len(s) + Len(t)
      /\ \A i \in 1 .. Len(s) + Len(t) : (s \o t)[i] = IF i <= Len(s) THEN s[i] ELSE t[i - Len(s)]
  BY ConcatProperties, LenProperties
<1>2. SetOf(s \o t) \subseteq SetOf(s) \cup SetOf(t)
  BY <1>1 DEF SetOf
<1>3. SetOf(s) \subseteq SetOf(s \o t)
  BY <1>1 DEF SetOf
<1>4. ASSUME NEW i \in 1 .. Len(t) PROVE t[i] \in SetOf(s \o t)
  <2>1. i + Len(s) \in 1 .. Len(s \o t) /\ (s \o t)[i + Len(s)] = t[i]
    BY <1>1
  <2> QED BY <2>1 DEF SetOf
<1> QED BY <1>2, <1>3, <1>4 DEF SetOf

\* Putting lower phases before higher ones keeps the phases in order.
LEMMA JoinIs ==
    ASSUME NEW s \in Seq(PhaseName), NEW t \in Seq(PhaseName), Ordered(s), Ordered(t),
           \A p \in SetOf(s), q \in SetOf(t) : Rank(p) < Rank(q)
    PROVE  /\ s \o t \in Seq(PhaseName)
           /\ SetOf(s \o t) = SetOf(s) \cup SetOf(t)
           /\ Ordered(s \o t)
<1>1. /\ s \o t \in Seq(PhaseName) /\ Len(s) \in Nat /\ Len(t) \in Nat
      /\ Len(s \o t) = Len(s) + Len(t)
      /\ \A i \in 1 .. Len(s) + Len(t) : (s \o t)[i] = IF i <= Len(s) THEN s[i] ELSE t[i - Len(s)]
  BY ConcatProperties, LenProperties
<1>2. SetOf(s \o t) = SetOf(s) \cup SetOf(t)
  BY JoinedSet
<1>3. ASSUME NEW i \in 1 .. Len(s \o t), NEW j \in 1 .. Len(s \o t), i < j
      PROVE  Rank((s \o t)[i]) < Rank((s \o t)[j])
  <2>1. CASE j <= Len(s)
    BY <1>1, <1>3, <2>1 DEF Ordered
  <2>2. CASE i > Len(s)
    <3>1. /\ (s \o t)[i] = t[i - Len(s)] /\ (s \o t)[j] = t[j - Len(s)]
          /\ i - Len(s) \in 1 .. Len(t) /\ j - Len(s) \in 1 .. Len(t) /\ i - Len(s) < j - Len(s)
      BY <1>1, <1>3, <2>2
    <3> QED BY <3>1 DEF Ordered
  <2>3. CASE i <= Len(s) /\ j > Len(s)
    <3>1. /\ (s \o t)[i] = s[i] /\ (s \o t)[j] = t[j - Len(s)]
          /\ i \in 1 .. Len(s) /\ j - Len(s) \in 1 .. Len(t)
      BY <1>1, <2>3
    <3> QED BY <3>1 DEF SetOf
  <2> QED BY <1>1, <2>1, <2>2, <2>3
<1> QED BY <1>1, <1>2, <1>3 DEF Ordered

\* The first phase is the lowest one, and the others are what follows it.
LEMMA TailIs ==
    ASSUME NEW s \in Seq(PhaseName), s # <<>>, Ordered(s)
    PROVE  /\ Tail(s) \in Seq(PhaseName) /\ Ordered(Tail(s)) /\ Head(s) \in SetOf(s)
           /\ SetOf(Tail(s)) = SetOf(s) \ {Head(s)}
           /\ \A q \in SetOf(s) : q = Head(s) \/ Rank(Head(s)) < Rank(q)
           /\ SetOf(s) \subseteq PhaseName
<1>1. /\ Tail(s) \in Seq(PhaseName) /\ Len(s) \in Nat /\ Len(s) >= 1 /\ Head(s) = s[1]
      /\ Len(Tail(s)) = Len(s) - 1
      /\ \A i \in 1 .. Len(Tail(s)) : Tail(s)[i] = s[i + 1]
  BY HeadTailProperties, EmptySeq, LenProperties
<1>2. \A i \in 1 .. Len(s) : s[i] \in PhaseName /\ Rank(s[i]) \in Nat
  <2>1. \A p \in PhaseName : Rank(p) \in Nat BY DEF PhaseName, Rank
  <2> QED BY <2>1, ElementOfSeq
<1>3. \A q \in SetOf(s) : q = Head(s) \/ Rank(Head(s)) < Rank(q)
  BY <1>1 DEF SetOf, Ordered
<1>4. Ordered(Tail(s))
  BY <1>1 DEF Ordered
<1>5. SetOf(Tail(s)) \subseteq SetOf(s) \ {Head(s)}
  BY <1>1, <1>2 DEF SetOf, Ordered
<1>6. ASSUME NEW i \in 1 .. Len(s), s[i] # Head(s) PROVE s[i] \in SetOf(Tail(s))
  <2>1. i - 1 \in 1 .. Len(Tail(s)) /\ Tail(s)[i - 1] = s[i]
    BY <1>1, <1>6
  <2> QED BY <2>1 DEF SetOf
<1>7. SetOf(Tail(s)) = SetOf(s) \ {Head(s)}
  BY <1>5, <1>6 DEF SetOf
<1>8. Head(s) \in SetOf(s) /\ SetOf(s) \subseteq PhaseName
  BY <1>1, <1>2 DEF SetOf
<1> QED BY <1>1, <1>3, <1>4, <1>7, <1>8

\* Nothing is left exactly when the sequence is empty.
LEMMA NothingLeft ==
    ASSUME NEW s \in Seq(PhaseName)
    PROVE  s = <<>> <=> SetOf(s) = {}
<1>1. s # <<>> => Len(s) \in Nat \ {0}
  BY EmptySeq
<1>2. SetOf(<<>>) = {}
  BY DEF SetOf
<1>3. s # <<>> => s[1] \in SetOf(s)
  BY <1>1 DEF SetOf
<1> QED BY <1>2, <1>3

PhasesOK == todo \in Seq(PhaseName) /\ Ordered(todo)

\* At a phase, every other phase left is a later one; what is put in its place
\* comes before those.
LEMMA AtPhase ==
    ASSUME PhasesOK, NEW p, At(p)
    PROVE  /\ mode = "up" /\ todo # <<>> /\ p \in Left /\ Left \subseteq PhaseName
           /\ \A q \in Left : q = p \/ Rank(p) < Rank(q)
           /\ SetOf(Tail(todo)) = Left \ {p}
           /\ Tail(todo) \in Seq(PhaseName) /\ Ordered(Tail(todo))
BY TailIs DEF PhasesOK, At, Left

\* What is left after a phase: what it puts in its place, and the later ones.
LEMMA ThenLeft ==
    ASSUME PhasesOK, NEW p, At(p), NEW ps \in Seq(PhaseName), Then(ps)
    PROVE  Left' = SetOf(ps) \cup (Left \ {p})
<1>1. SetOf(Tail(todo)) = Left \ {p} /\ Tail(todo) \in Seq(PhaseName)
  BY AtPhase
<1>2. todo' = ps \o Tail(todo)
  BY DEF Then
<1>3. SetOf(ps \o Tail(todo)) = SetOf(ps) \cup (Left \ {p})
  BY <1>1, JoinedSet
<1> QED BY <1>2, <1>3 DEF Left, SetOf

\* Lower phases put in the place of the one that is done leave them in order.
LEMMA ThenPhases ==
    ASSUME PhasesOK, NEW p, At(p), NEW ps \in Seq(PhaseName), Ordered(ps), Then(ps),
           \A r \in SetOf(ps), q \in Left : q = p \/ Rank(r) < Rank(q)
    PROVE  PhasesOK' /\ Left' = SetOf(ps) \cup (Left \ {p})
<1>1. SetOf(Tail(todo)) = Left \ {p} /\ Tail(todo) \in Seq(PhaseName) /\ Ordered(Tail(todo))
  BY AtPhase
<1>2. \A r \in SetOf(ps), q \in SetOf(Tail(todo)) : Rank(r) < Rank(q)
  BY <1>1
<1>3. todo' = ps \o Tail(todo)
  BY DEF Then
<1>4. /\ todo' \in Seq(PhaseName) /\ Ordered(ps \o Tail(todo))
      /\ SetOf(ps \o Tail(todo)) = SetOf(ps) \cup (Left \ {p})
  BY <1>1, <1>2, <1>3, JoinIs
<1>5. PhasesOK'
  BY <1>3, <1>4 DEF PhasesOK, Ordered
<1>6. Left' = SetOf(ps \o Tail(todo))
  BY <1>3 DEF Left, SetOf
<1> QED BY <1>4, <1>5, <1>6

\* A phase that puts nothing in its place.
LEMMA ThenNothing ==
    ASSUME PhasesOK, NEW p, At(p), Then(<<>>)
    PROVE  PhasesOK' /\ Left' = Left \ {p}
<1>1. <<>> \in Seq(PhaseName) /\ SetOf(<<>>) = {} /\ Ordered(<<>>)
  BY DEF SetOf, Ordered
<1> QED BY <1>1, ThenPhases

\* The phases a turn of on_ready begins with.
LEMMA OnReadyIs ==
    ASSUME NEW c, NEW next, NEW s
    PROVE  /\ OnReady(c, next, s) \in Seq(PhaseName) /\ Ordered(OnReady(c, next, s))
           /\ SetOf(OnReady(c, next, s)) =
                  (IF s # NoSnapshot THEN {"snapshot"} ELSE {})
                  \cup (IF next <= Len(c.log) THEN {"append"} ELSE {})
                  \cup (IF c.applied < LastHanded(c) THEN {"handle"} ELSE {})
                  \cup (IF HardStateOf(c) # prev THEN {"hard"} ELSE {})
                  \cup {"send", "advance"}
<1> DEFINE A == Phase(s # NoSnapshot, "snapshot")
           B == Phase(next <= Len(c.log), "append")
           C == Phase(c.applied < LastHanded(c), "handle")
           D == Phase(HardStateOf(c) # prev, "hard")
           E == <<"send", "advance">>
<1>1. /\ A \in Seq(PhaseName) /\ Ordered(A)
      /\ SetOf(A) = IF s # NoSnapshot THEN {"snapshot"} ELSE {}
  BY PhaseIs DEF PhaseName
<1>2. /\ B \in Seq(PhaseName) /\ Ordered(B)
      /\ SetOf(B) = IF next <= Len(c.log) THEN {"append"} ELSE {}
  <2>1. (next <= Len(c.log)) \in BOOLEAN OBVIOUS
  <2> QED BY <2>1, PhaseIs DEF PhaseName
<1>3. /\ C \in Seq(PhaseName) /\ Ordered(C)
      /\ SetOf(C) = IF c.applied < LastHanded(c) THEN {"handle"} ELSE {}
  <2>1. (c.applied < LastHanded(c)) \in BOOLEAN OBVIOUS
  <2> QED BY <2>1, PhaseIs DEF PhaseName
<1>4. /\ D \in Seq(PhaseName) /\ Ordered(D)
      /\ SetOf(D) = IF HardStateOf(c) # prev THEN {"hard"} ELSE {}
  BY PhaseIs DEF PhaseName
<1>5. E \in Seq(PhaseName) /\ Ordered(E) /\ SetOf(E) = {"send", "advance"}
  <2>1. /\ E \in Seq(PhaseName) /\ Len(E) = 2 /\ E[1] = "send" /\ E[2] = "advance"
        /\ 1 .. 2 = {1, 2}
    BY DEF PhaseName
  <2>2. SetOf(E) = {"send", "advance"}
    <3> HIDE DEF E
    <3> QED BY <2>1 DEF SetOf
  <2>3. Ordered(E)
    <3> HIDE DEF E
    <3> QED BY <2>1 DEF Ordered, Rank
  <2> QED BY <2>1, <2>2, <2>3
<1>6. OnReady(c, next, s) = (((A \o B) \o C) \o D) \o E
  BY DEF OnReady
<1> HIDE DEF A, B, C, D, E
<1>7. /\ A \o B \in Seq(PhaseName) /\ Ordered(A \o B)
      /\ SetOf(A \o B) = SetOf(A) \cup SetOf(B)
  <2>1. \A p \in SetOf(A), q \in SetOf(B) : Rank(p) < Rank(q)
    BY <1>1, <1>2 DEF Rank
  <2> QED BY <1>1, <1>2, <2>1, JoinIs
<1>8. /\ (A \o B) \o C \in Seq(PhaseName) /\ Ordered((A \o B) \o C)
      /\ SetOf((A \o B) \o C) = SetOf(A) \cup SetOf(B) \cup SetOf(C)
  <2>1. \A p \in SetOf(A \o B), q \in SetOf(C) : Rank(p) < Rank(q)
    BY <1>1, <1>2, <1>3, <1>7 DEF Rank
  <2> QED BY <1>3, <1>7, <2>1, JoinIs
<1>9. /\ ((A \o B) \o C) \o D \in Seq(PhaseName) /\ Ordered(((A \o B) \o C) \o D)
      /\ SetOf(((A \o B) \o C) \o D) = SetOf(A) \cup SetOf(B) \cup SetOf(C) \cup SetOf(D)
  <2>1. \A p \in SetOf((A \o B) \o C), q \in SetOf(D) : Rank(p) < Rank(q)
    BY <1>1, <1>2, <1>3, <1>4, <1>8 DEF Rank
  <2> QED BY <1>4, <1>8, <2>1, JoinIs
<1>10. /\ OnReady(c, next, s) \in Seq(PhaseName) /\ Ordered(OnReady(c, next, s))
       /\ SetOf(OnReady(c, next, s)) =
              SetOf(A) \cup SetOf(B) \cup SetOf(C) \cup SetOf(D) \cup {"send", "advance"}
  <2>1. \A p \in SetOf(((A \o B) \o C) \o D), q \in SetOf(E) : Rank(p) < Rank(q)
    BY <1>1, <1>2, <1>3, <1>4, <1>5, <1>9 DEF Rank
  <2> DEFINE F == ((A \o B) \o C) \o D
  <2>2. /\ F \o E \in Seq(PhaseName) /\ Ordered(F \o E) /\ SetOf(F \o E) = SetOf(F) \cup SetOf(E)
    BY <1>5, <1>9, <2>1, JoinIs
  <2>3. OnReady(c, next, s) = F \o E
    BY <1>6
  <2> HIDE DEF F
  <2>4. /\ OnReady(c, next, s) \in Seq(PhaseName) /\ Ordered(OnReady(c, next, s))
        /\ SetOf(OnReady(c, next, s)) = SetOf(F) \cup SetOf(E)
    BY <2>2, <2>3
  <2> QED BY <1>5, <1>9, <2>4 DEF F
<1> QED BY <1>1, <1>2, <1>3, <1>4, <1>10

\* What a turn begins with, by name.
LEMMA TurnIs ==
    ASSUME NEW c, NEW next, NEW s, Turn(c, next, s)
    PROVE  /\ PhasesOK' /\ mode = "up" /\ mode' = "up" /\ todo = <<>> /\ Left = {}
           /\ core' = c
           /\ rd' = Ready(next <= Len(c.log), next, LastHanded(c), Extra(c), s)
           /\ prev' = HardStateOf(c)
           /\ UNCHANGED <<history, disk, meta, handled, crashes>>
           /\ Left' \subseteq {"snapshot", "append", "handle", "hard", "send", "advance"}
           /\ "snapshot" \in Left' <=> s # NoSnapshot
           /\ "append" \in Left' <=> next <= Len(c.log)
           /\ "handle" \in Left' <=> c.applied < LastHanded(c)
           /\ "hard" \in Left' <=> HardStateOf(c) # prev
           /\ "send" \in Left' /\ "advance" \in Left'
<1>1. /\ mode = "up" /\ todo = <<>> /\ core' = c
      /\ rd' = Ready(next <= Len(c.log), next, LastHanded(c), Extra(c), s)
      /\ prev' = HardStateOf(c)
      /\ todo' = OnReady(c, next, s) /\ UNCHANGED <<history, disk, meta, mode, handled, crashes>>
  BY DEF Turn, Idle
<1>2. PhasesOK'
  BY <1>1, OnReadyIs DEF PhasesOK, Ordered
<1>3. Left' = SetOf(OnReady(c, next, s))
  BY <1>1 DEF Left, SetOf
<1>4. Left = {}
  BY <1>1 DEF Left, SetOf
<1> QED BY <1>1, <1>2, <1>3, <1>4, OnReadyIs

\* The phases that advance may add.
LEMMA LightIs ==
    ASSUME NEW c
    PROVE  /\ LightPhases(c) \in Seq(PhaseName) /\ Ordered(LightPhases(c))
           /\ SetOf(LightPhases(c)) =
                  (IF c.commit > core.commit THEN {"lightHard"} ELSE {})
                  \cup (IF c.applied < LastHanded(c) THEN {"handle", "apply"} ELSE {})
<1> DEFINE A == Phase(c.commit > core.commit, "lightHard")
           B == IF c.applied < LastHanded(c) THEN <<"handle", "apply">> ELSE <<>>
<1>1. /\ A \in Seq(PhaseName) /\ Ordered(A)
      /\ SetOf(A) = IF c.commit > core.commit THEN {"lightHard"} ELSE {}
  <2>1. (c.commit > core.commit) \in BOOLEAN OBVIOUS
  <2> QED BY <2>1, PhaseIs DEF PhaseName
<1>2. /\ B \in Seq(PhaseName) /\ Ordered(B)
      /\ SetOf(B) = IF c.applied < LastHanded(c) THEN {"handle", "apply"} ELSE {}
  <2>1. CASE c.applied < LastHanded(c)
    <3>1. /\ B \in Seq(PhaseName) /\ Len(B) = 2 /\ B[1] = "handle" /\ B[2] = "apply"
          /\ 1 .. 2 = {1, 2}
      BY <2>1 DEF PhaseName
    <3>2. SetOf(B) = {"handle", "apply"}
      <4> HIDE DEF B
      <4> QED BY <3>1 DEF SetOf
    <3>3. Ordered(B)
      <4> HIDE DEF B
      <4> QED BY <3>1 DEF Ordered, Rank
    <3> QED BY <2>1, <3>1, <3>2, <3>3
  <2>2. CASE ~(c.applied < LastHanded(c))
    <3>1. B = <<>> BY <2>2
    <3> QED BY <2>2, <3>1 DEF SetOf, Ordered
  <2> QED BY <2>1, <2>2
<1>3. LightPhases(c) = A \o B
  BY DEF LightPhases
<1> HIDE DEF A, B
<1>4. \A p \in SetOf(A), q \in SetOf(B) : Rank(p) < Rank(q)
  BY <1>1, <1>2 DEF Rank
<1> QED BY <1>1, <1>2, <1>3, <1>4, JoinIs

\* The phases that handling an entry may add.
LEMMA HandlingIs ==
    ASSUME NEW b \in BOOLEAN, NEW d \in BOOLEAN
    PROVE  LET ps == Phase(b, "create") \o Phase(d, "handle") IN
           /\ ps \in Seq(PhaseName) /\ Ordered(ps)
           /\ SetOf(ps) = (IF b THEN {"create"} ELSE {}) \cup (IF d THEN {"handle"} ELSE {})
<1>1. /\ Phase(b, "create") \in Seq(PhaseName) /\ Ordered(Phase(b, "create"))
      /\ SetOf(Phase(b, "create")) = IF b THEN {"create"} ELSE {}
  BY PhaseIs DEF PhaseName
<1>2. /\ Phase(d, "handle") \in Seq(PhaseName) /\ Ordered(Phase(d, "handle"))
      /\ SetOf(Phase(d, "handle")) = IF d THEN {"handle"} ELSE {}
  BY PhaseIs DEF PhaseName
<1>3. \A p \in SetOf(Phase(b, "create")), q \in SetOf(Phase(d, "handle")) : Rank(p) < Rank(q)
  BY <1>1, <1>2 DEF Rank
<1> QED BY <1>1, <1>2, <1>3, JoinIs

\* The phases of an import.
LEMMA ImportPhasesAre ==
    LET ps == <<"importEntry", "importFirst", "importHard", "importLast", "adopt">> IN
    ps \in Seq(PhaseName) /\ Ordered(ps) /\ SetOf(ps) = Imports
<1> DEFINE ps == <<"importEntry", "importFirst", "importHard", "importLast", "adopt">>
<1>1. /\ ps \in Seq(PhaseName) /\ Len(ps) = 5 /\ 1 .. 5 = {1, 2, 3, 4, 5}
      /\ ps[1] = "importEntry" /\ ps[2] = "importFirst" /\ ps[3] = "importHard"
      /\ ps[4] = "importLast" /\ ps[5] = "adopt"
  BY DEF PhaseName
<1> HIDE DEF ps
<1>2. SetOf(ps) = Imports
  BY <1>1 DEF SetOf, Imports
<1>3. Ordered(ps)
  BY <1>1 DEF Ordered, Rank
<1> QED BY <1>1, <1>2, <1>3 DEF ps

\* One entry of append: it is put, and last_index follows.
LEMMA AppendPhases ==
    ASSUME PhasesOK
    PROVE  /\ At("append") /\ todo' = <<"last">> \o todo =>
                  PhasesOK' /\ Left' = {"last"} \cup Left
           /\ At("last") /\ todo' = Tail(todo) =>
                  PhasesOK' /\ Left' = Left \ {"last"}
           /\ At("last") /\ "append" \in Left /\ todo' = Tail(Tail(todo)) =>
                  PhasesOK' /\ Left' = Left \ {"last", "append"}
<1>1. ASSUME At("append"), todo' = <<"last">> \o todo
      PROVE  PhasesOK' /\ Left' = {"last"} \cup Left
  <2>1. /\ <<"last">> \in Seq(PhaseName) /\ Ordered(<<"last">>) /\ SetOf(<<"last">>) = {"last"}
    BY PhaseIs DEF Phase, PhaseName
  <2>2. \A p \in SetOf(<<"last">>), q \in SetOf(todo) : Rank(p) < Rank(q)
    <3>1. \A q \in Left : q = "append" \/ Rank("append") < Rank(q)
      BY <1>1, AtPhase
    <3>2. Left \subseteq PhaseName BY <1>1, AtPhase
    <3> QED BY <2>1, <3>1, <3>2 DEF Left, PhaseName, Rank
  <2>3. /\ <<"last">> \o todo \in Seq(PhaseName) /\ Ordered(<<"last">> \o todo)
        /\ SetOf(<<"last">> \o todo) = {"last"} \cup SetOf(todo)
    BY <2>1, <2>2, JoinIs DEF PhasesOK
  <2>4. PhasesOK' /\ Left' = SetOf(<<"last">> \o todo)
    BY <1>1, <2>3 DEF PhasesOK, Ordered, Left, SetOf
  <2> QED BY <2>3, <2>4 DEF Left
<1>2. ASSUME At("last"), todo' = Tail(todo)
      PROVE  PhasesOK' /\ Left' = Left \ {"last"}
  <2>1. /\ SetOf(Tail(todo)) = Left \ {"last"}
        /\ Tail(todo) \in Seq(PhaseName) /\ Ordered(Tail(todo))
    BY <1>2, AtPhase
  <2>2. PhasesOK' /\ Left' = SetOf(Tail(todo))
    BY <1>2, <2>1 DEF PhasesOK, Ordered, Left, SetOf
  <2> QED BY <2>1, <2>2
<1>3. ASSUME At("last"), "append" \in Left, todo' = Tail(Tail(todo))
      PROVE  PhasesOK' /\ Left' = Left \ {"last", "append"}
  <2> DEFINE t == Tail(todo)
  <2>1. /\ SetOf(t) = Left \ {"last"} /\ t \in Seq(PhaseName) /\ Ordered(t)
        /\ \A q \in Left : q = "last" \/ Rank("last") < Rank(q)
        /\ Left \subseteq PhaseName
    BY <1>3, AtPhase
  <2> HIDE DEF t
  <2>2. t # <<>> /\ "append" \in SetOf(t)
    BY <1>3, <2>1, NothingLeft
  <2>3. /\ Tail(t) \in Seq(PhaseName) /\ Ordered(Tail(t)) /\ Head(t) \in SetOf(t)
        /\ SetOf(Tail(t)) = SetOf(t) \ {Head(t)}
        /\ "append" = Head(t) \/ Rank(Head(t)) < Rank("append")
    BY <2>1, <2>2, TailIs
  <2>4. Head(t) = "append"
    BY <2>1, <2>3 DEF PhaseName, Rank
  <2>5. todo' = Tail(t)
    BY <1>3 DEF t
  <2>6. PhasesOK' /\ Left' = SetOf(Tail(t))
    BY <2>3, <2>5 DEF PhasesOK, Ordered, Left, SetOf
  <2> QED BY <2>1, <2>3, <2>4, <2>6
<1> QED BY <1>1, <1>2, <1>3

-----------------------------------------------------------------------------
(* Logs. *)

\* A log is a sequence of terms no longer than the highest index.
LEMMA LogIs ==
    ASSUME NEW l \in Log
    PROVE  /\ l \in Seq(Term) /\ Len(l) \in Nat /\ Len(l) <= MaxLog /\ Len(l) \in Index0
           /\ DOMAIN l = 1 .. Len(l) /\ \A i \in 1 .. Len(l) : l[i] \in Term /\ i \in Index
<1>1. PICK n \in Index0 : l \in [1 .. n -> Term]
  BY DEF Log
<1>2. n \in Nat /\ n <= MaxLog
  BY DEF Index0
<1>3. l \in Seq(Term) /\ Len(l) = n
  BY <1>1, <1>2
<1> QED BY <1>1, <1>2, <1>3, ConstantsAssumption DEF Index, Index0

\* Every such sequence is a log.
LEMMA IsLog ==
    ASSUME NEW s \in Seq(Term), Len(s) <= MaxLog
    PROVE  s \in Log
<1>1. Len(s) \in Nat /\ s \in [1 .. Len(s) -> Term]
  BY LenProperties
<1>2. Len(s) \in Index0
  BY <1>1 DEF Index0
<1> QED BY <1>1, <1>2 DEF Log

\* The log that a restart loads.
LEMMA LoadedIs ==
    ASSUME NEW f, NEW n \in Index0, \A i \in 1 .. n : f[i] \in Term
    PROVE  /\ [i \in 1 .. n |-> f[i]] \in Log /\ Len([i \in 1 .. n |-> f[i]]) = n
           /\ \A i \in 1 .. n : [j \in 1 .. n |-> f[j]][i] = f[i]
<1> DEFINE l == [i \in 1 .. n |-> f[i]]
<1>1. l \in [1 .. n -> Term] /\ n \in Nat
  BY DEF Index0
<1>2. Len(l) = n
  BY <1>1
<1> QED BY <1>1, <1>2 DEF Log

\* The first n entries of a log.
LEMMA FrontIs ==
    ASSUME NEW l \in Log, NEW n \in 0 .. Len(l)
    PROVE  /\ Front(l, n) \in Log /\ Len(Front(l, n)) = n
           /\ \A i \in 1 .. n : Front(l, n)[i] = l[i]
<1>1. l \in Seq(Term) /\ Len(l) \in Nat /\ Len(l) <= MaxLog /\ \A i \in 1 .. n : l[i] \in Term
  BY LogIs
<1>2. /\ SubSeq(l, 1, n) \in Seq(Term) /\ Len(SubSeq(l, 1, n)) = IF 1 <= n THEN n - 1 + 1 ELSE 0
      /\ \A i \in 1 .. n - 1 + 1 : SubSeq(l, 1, n)[i] = l[1 + i - 1]
  BY <1>1, SubSeqProperties
<1> DEFINE f == SubSeq(l, 1, n)
<1>3. f \in Seq(Term) /\ Len(f) = n /\ \A i \in 1 .. n : f[i] = l[i]
  BY <1>1, <1>2
<1>4. Front(l, n) = f
  BY DEF Front
<1> HIDE DEF f
<1>5. Len(f) <= MaxLog
  BY <1>1, <1>3, ConstantsAssumption
<1>6. f \in Log
  BY <1>3, <1>5, IsLog
<1> QED BY <1>3, <1>4, <1>6

\* A log whose entries from k + 1 on are replaced by another one's.
Splice(a, l, k) == Front(a, k) \o SubSeq(l, k + 1, Len(l))

\* What Splice returns: the front of one log, the rest of the other.
LEMMA SpliceIs ==
    ASSUME NEW a \in Log, NEW l \in Log, NEW k \in 0 .. Len(a), k <= Len(l)
    PROVE  /\ Splice(a, l, k) \in Log /\ Len(Splice(a, l, k)) = Len(l)
           /\ \A i \in 1 .. Len(l) : Splice(a, l, k)[i] = IF i <= k THEN a[i] ELSE l[i]
<1> DEFINE b == SubSeq(l, k + 1, Len(l))
           f == Front(a, k)
<1>1. /\ Len(l) \in Nat /\ Len(l) <= MaxLog /\ k \in Nat
      /\ \A i \in k + 1 .. Len(l) : l[i] \in Term
  BY LogIs
<1>2. /\ b \in Seq(Term) /\ Len(b) = Len(l) - k
      /\ \A i \in 1 .. Len(l) - k : b[i] = l[k + i]
  <2>1. /\ b \in Seq(Term)
        /\ Len(b) = IF k + 1 <= Len(l) THEN Len(l) - (k + 1) + 1 ELSE 0
        /\ \A i \in 1 .. Len(l) - (k + 1) + 1 : b[i] = l[k + 1 + i - 1]
    BY <1>1, SubSeqProperties
  <2>2. CASE k = Len(l)
    BY <1>1, <2>1, <2>2
  <2>3. CASE k < Len(l)
    BY <1>1, <2>1, <2>3
  <2> QED BY <1>1, <2>2, <2>3
<1>3. f \in Seq(Term) /\ Len(f) = k /\ \A i \in 1 .. k : f[i] = a[i]
  BY FrontIs, LogIs
<1> HIDE DEF b, f
<1> DEFINE g == f \o b
<1>4. /\ g \in Seq(Term) /\ Len(g) = Len(f) + Len(b)
      /\ \A i \in 1 .. Len(f) + Len(b) : g[i] = IF i <= Len(f) THEN f[i] ELSE b[i - Len(f)]
  BY <1>2, <1>3, ConcatProperties
<1>5. Splice(a, l, k) = g
  BY DEF f, b, Splice
<1> HIDE DEF g
<1>6. Len(g) = Len(l) /\ Len(f) + Len(b) = Len(l)
  BY <1>1, <1>2, <1>3, <1>4
<1>7. ASSUME NEW i \in 1 .. Len(l), i <= k PROVE g[i] = a[i]
  <2>1. g[i] = f[i] BY <1>3, <1>4, <1>6, <1>7
  <2>2. i \in 1 .. k BY <1>7
  <2> QED BY <1>3, <2>1, <2>2
<1>8. ASSUME NEW i \in 1 .. Len(l), i > k PROVE g[i] = l[i]
  <2>1. i - k \in 1 .. Len(l) - k /\ k + (i - k) = i /\ ~(i <= k)
    BY <1>1, <1>8
  <2>2. g[i] = b[i - k] BY <1>3, <1>4, <1>6, <2>1
  <2> QED BY <1>2, <2>1, <2>2
<1>9. \A i \in 1 .. Len(g) : g[i] = IF i <= k THEN a[i] ELSE l[i]
  BY <1>1, <1>6, <1>7, <1>8
<1>10. g \in Log
  BY <1>1, <1>4, <1>6, IsLog
<1> QED BY <1>5, <1>6, <1>9, <1>10

\* A log with one entry more.
LEMMA AppendIs ==
    ASSUME NEW l \in Log, NEW t \in Term, Len(l) < MaxLog
    PROVE  /\ Append(l, t) \in Log /\ Len(Append(l, t)) = Len(l) + 1
           /\ \A i \in 1 .. Len(l) : Append(l, t)[i] = l[i]
           /\ Append(l, t)[Len(l) + 1] = t
<1>1. l \in Seq(Term) /\ Len(l) \in Nat
  BY LogIs
<1>2. /\ Append(l, t) \in Seq(Term) /\ Len(Append(l, t)) = Len(l) + 1
      /\ \A i \in 1 .. Len(l) : Append(l, t)[i] = l[i]
      /\ Append(l, t)[Len(l) + 1] = t
  BY <1>1
<1> DEFINE a == Append(l, t)
<1> HIDE DEF a
<1>3. a \in Seq(Term) /\ Len(a) = Len(l) + 1
  BY <1>2 DEF a
<1>4. Len(a) <= MaxLog
  BY <1>1, <1>3, ConstantsAssumption
<1>5. a \in Log
  BY <1>3, <1>4, IsLog
<1> QED BY <1>2, <1>5 DEF a

\* A log starts with another when it has that one's entries.
LEMMA StartsWithIs ==
    ASSUME NEW l \in Log, NEW p \in Log
    PROVE  StartsWith(l, p) <=> Len(p) <= Len(l) /\ \A i \in 1 .. Len(p) : l[i] = p[i]
<1>1. Len(l) \in Nat /\ Len(p) \in Nat /\ p \in Seq(Term)
  BY LogIs
<1>2. ASSUME Len(p) <= Len(l)
      PROVE  Front(l, Len(p)) = p <=> \A i \in 1 .. Len(p) : l[i] = p[i]
  <2>1. /\ Front(l, Len(p)) \in Seq(Term) /\ Len(Front(l, Len(p))) = Len(p)
        /\ \A i \in 1 .. Len(p) : Front(l, Len(p))[i] = l[i]
    BY <1>1, <1>2, FrontIs, LogIs
  <2>2. (\A i \in 1 .. Len(p) : l[i] = p[i]) => Front(l, Len(p)) = p
    BY <1>1, <2>1, SeqEqual
  <2> QED BY <2>1, <2>2
<1> QED BY <1>2 DEF StartsWith

\* A non-empty set of numbers up to N has a largest one: the intervals i..N that
\* start in S are well-founded under strict inclusion.
LEMMA LargestExists ==
    ASSUME NEW N \in Nat, NEW S \in SUBSET (0 .. N), S # {}
    PROVE  \E m \in S : \A j \in S : j <= m
<1> DEFINE T == {i .. N : i \in S}
           R == StrictSubsetOrdering(0 .. N)
           F == FiniteSubsetsOf(0 .. N)
<1>1. IsWellFoundedOn(R, F)
  <2>1. IsFiniteSet(0 .. N) BY FS_Interval
  <2> QED BY <2>1, FS_StrictSubsetOrderingWellFounded
<1>2. T \subseteq F /\ T # {}
  <2>1. \A i \in S : i .. N \in SUBSET (0 .. N) /\ IsFiniteSet(i .. N)
    BY FS_Interval
  <2>2. QED BY <2>1 DEF FiniteSubsetsOf
<1>3. PICK X \in T : \A Y \in T : ~ (<<Y, X>> \in R)
  <2> HIDE DEF T, R, F
  <2> QED BY <1>1, <1>2, WFMin
<1>4. PICK m \in S : X = m .. N
  OBVIOUS
<1>5. ASSUME NEW j \in S, j > m PROVE FALSE
  <2>1. j .. N \in T /\ j .. N \subseteq X /\ j .. N # X
    <3>1. m \in X /\ m \notin j .. N BY <1>4, <1>5
    <3>2. j .. N \subseteq X BY <1>4, <1>5
    <3> QED BY <3>1, <3>2
  <2>2. j .. N \in SUBSET (0 .. N) /\ X \in SUBSET (0 .. N)
    BY <1>4
  <2>3. <<j .. N, X>> \in R
    BY <2>1, <2>2 DEF StrictSubsetOrdering
  <2> QED BY <1>3, <2>1, <2>3
<1> QED BY <1>5

\* The storage's answers after p agree with l up to Agreed(l, p), and no further.
LEMMA AgreedIs ==
    ASSUME NEW l \in Log, NEW p \in Nat, p <= Len(l)
    PROVE  /\ Agreed(l, p) \in p .. Len(l)
           /\ \A i \in p + 1 .. Agreed(l, p) : Answer(i) = l[i]
<1> DEFINE Q(k) == /\ \A i \in p + 1 .. k : Answer(i) = l[i]
                   /\ k < Len(l) => Answer(k + 1) # l[k + 1]
           S == {k \in p .. Len(l) : \A i \in p + 1 .. k : Answer(i) = l[i]}
<1>1. Len(l) \in Nat
  BY LogIs
<1>2. S \in SUBSET (0 .. Len(l)) /\ p \in S
  BY <1>1
<1>3. PICK m \in S : \A j \in S : j <= m
  <2> HIDE DEF S
  <2> QED BY <1>1, <1>2, LargestExists
<1>4. m \in p .. Len(l)
  BY <1>3
<1>5. Q(m)
  <2>1. ASSUME m < Len(l), Answer(m + 1) = l[m + 1] PROVE FALSE
    <3>1. \A i \in p + 1 .. m : Answer(i) = l[i]
      BY <1>3
    <3>2. \A i \in p + 1 .. m + 1 : i \in p + 1 .. m \/ i = m + 1
      BY <1>1, <1>4
    <3>3. m + 1 \in S
      BY <1>1, <1>4, <2>1, <3>1, <3>2
    <3> QED BY <1>1, <1>3, <1>4, <3>3
  <2> QED BY <1>3, <2>1
<1>6. Agreed(l, p) = CHOOSE k \in p .. Len(l) : Q(k)
  BY DEF Agreed
<1>7. Agreed(l, p) \in p .. Len(l) /\ Q(Agreed(l, p))
  <2> HIDE DEF Q
  <2> QED BY <1>4, <1>5, <1>6
<1> QED BY <1>7

\* Entries that are the same up to an index.
LEMMA SameSooner ==
    ASSUME NEW f, NEW g, NEW n \in Int, NEW m \in Int, Same(f, g, n), m <= n
    PROVE  Same(f, g, m)
BY DEF Same

\* Same is symmetric ...
LEMMA SameBack ==
    ASSUME NEW f, NEW g, NEW n, Same(f, g, n)
    PROVE  Same(g, f, n)
BY DEF Same

\* ... and transitive.
LEMMA SameJoins ==
    ASSUME NEW f, NEW g, NEW h, NEW n, Same(f, g, n), Same(g, h, n)
    PROVE  Same(f, h, n)
BY DEF Same

-----------------------------------------------------------------------------
(* Types, and the invariant, action by action. *)

DiskRecord == [term : 0 .. MaxTerm, vote : Candidates \cup {0}, commit : Index0,
               first : 0 .. Unset, last : 0 .. Unset, log : [Index -> 0 .. MaxTerm]]
MetaRecord == [index : Index0, term : 0 .. MaxTerm]
CoreRecord == [role : {"follower", "leader"}, term : 0 .. MaxTerm,
               vote : Candidates \cup {0}, log : Log, commit : Index0,
               applied : Index0, persisted : Index0]
ReadyRecord == [fresh : BOOLEAN, next : 0 .. MaxLog + 1, upto : Index0, extra : 0 .. MaxTerm,
                snap : Index0, term : 0 .. MaxTerm, first : 0 .. Unset, last : Index0,
                from : 0 .. MaxTerm, left : SUBSET Index]

\* TypeOK in terms of these records.
LEMMA TypeParts ==
    TypeOK <=> /\ lead \in [Term -> Log] /\ cmt \in [Term -> Index0] /\ mine \subseteq Term
               /\ disk \in DiskRecord /\ meta \in MetaRecord
               /\ core \in CoreRecord /\ prev \in HardState /\ rd \in ReadyRecord
               /\ todo \in Seq(PhaseName) /\ mode \in {"down", "up", "failed"}
               /\ acked \in Log /\ handled \subseteq Index \X (0 .. MaxTerm)
               /\ breaches \subseteq Breach /\ crashes \in 0 .. MaxCrashes
BY DEF TypeOK, DiskRecord, MetaRecord, CoreRecord, ReadyRecord, PhaseName

\* The same of the next state.
LEMMA TypePartsNext ==
    ASSUME lead' \in [Term -> Log], cmt' \in [Term -> Index0], mine' \subseteq Term,
           disk' \in DiskRecord, meta' \in MetaRecord,
           core' \in CoreRecord, prev' \in HardState, rd' \in ReadyRecord,
           todo' \in Seq(PhaseName), mode' \in {"down", "up", "failed"},
           acked' \in Log, handled' \subseteq Index \X (0 .. MaxTerm),
           breaches' \subseteq Breach, crashes' \in 0 .. MaxCrashes
    PROVE  TypeOK'
BY DEF TypeOK, DiskRecord, MetaRecord, CoreRecord, ReadyRecord, PhaseName

\* The fields that the invariant speaks about are numbers, and logs are short.
LEMMA Fields ==
    ASSUME TypeOK
    PROVE  /\ disk.commit \in Nat /\ disk.commit <= MaxLog /\ disk.commit # Unset
           /\ disk.first \in Nat /\ disk.last \in Nat /\ disk.last <= Unset
           /\ disk.log \in [Index -> 0 .. MaxTerm]
           /\ MaxLog \in Nat /\ MaxTerm \in Nat /\ Unset = MaxLog + 1
           /\ meta.index \in Nat /\ meta.index <= MaxLog
           /\ core.log \in Log /\ Len(core.log) \in Nat /\ Len(core.log) <= MaxLog
           /\ \A i \in 1 .. Len(core.log) : core.log[i] \in Term /\ core.log[i] # 0 /\ i \in Index
           /\ core.commit \in Nat /\ core.applied \in Nat /\ core.persisted \in Nat
           /\ core.commit <= MaxLog /\ core.applied <= MaxLog
           /\ rd.next \in Nat /\ rd.upto \in Nat /\ rd.snap \in Nat /\ rd.last \in Nat
           /\ rd.upto <= MaxLog /\ rd.snap <= MaxLog
           /\ FirstIndex \in Nat /\ LastIndex \in Nat
           /\ Deliverable(core) \in Nat /\ High \in Nat
<1>1. /\ disk \in DiskRecord /\ meta \in MetaRecord
      /\ core \in CoreRecord /\ rd \in ReadyRecord
  BY TypeParts
<1>2. /\ disk.commit \in Nat /\ disk.commit <= MaxLog /\ disk.commit # Unset
      /\ disk.first \in Nat /\ disk.last \in Nat /\ disk.last <= Unset
      /\ disk.log \in [Index -> 0 .. MaxTerm]
      /\ MaxLog \in Nat /\ MaxTerm \in Nat /\ Unset = MaxLog + 1
  BY <1>1, ConstantsAssumption DEF DiskRecord, Index0, Unset
<1>3. meta.index \in Nat /\ meta.index <= MaxLog
  BY <1>1 DEF MetaRecord, Index0
<1>4. /\ core.log \in Log /\ core.commit \in Nat /\ core.applied \in Nat /\ core.persisted \in Nat
      /\ core.commit <= MaxLog /\ core.applied <= MaxLog
  BY <1>1 DEF CoreRecord, Index0
<1>5. /\ rd.next \in Nat /\ rd.upto \in Nat /\ rd.snap \in Nat /\ rd.last \in Nat
      /\ rd.upto <= MaxLog /\ rd.snap <= MaxLog
  BY <1>1 DEF ReadyRecord, Index0
<1>6. /\ Len(core.log) \in Nat /\ Len(core.log) <= MaxLog
      /\ \A i \in 1 .. Len(core.log) : core.log[i] \in Term /\ i \in Index
  BY <1>4, LogIs
<1>7. \A i \in 1 .. Len(core.log) : core.log[i] # 0
  BY <1>6 DEF Term
<1>8. FirstIndex \in Nat /\ LastIndex \in Nat
  BY <1>2, <1>3 DEF FirstIndex, LastIndex
<1>9. Deliverable(core) \in Nat /\ High \in Nat
  BY <1>4 DEF Deliverable, Smaller, High, Larger
<1> QED BY <1>2, <1>3, <1>4, <1>5, <1>6, <1>7, <1>8, <1>9

\* What the invariant says of the phases.
LEMMA Phases ==
    ASSUME TypeOK, NodeInv
    PROVE  PhasesOK
BY TypeParts DEF NodeInv, PhasesOK

\* Between two turns, the storage and the core agree, and all that can be
\* handed out has been handled.
LEMMA AtIdle ==
    ASSUME TypeOK, NodeInv, mode = "up", todo = <<>>
    PROVE  /\ Left = {} /\ ~Importing /\ ~Loading /\ ~Handing /\ UpInv
           /\ Same(disk.log, core.log, Len(core.log)) /\ LastIndex = Len(core.log)
           /\ core.applied = Deliverable(core) /\ High = core.commit
           /\ core.applied <= core.commit /\ core.applied <= core.persisted
           /\ core.commit <= Len(core.log) /\ core.persisted <= Len(core.log)
           /\ disk.commit <= core.commit /\ meta.index <= core.commit
           /\ FirstIndex <= core.commit + 1
           /\ core.role = "leader" =>
                  core.term \in Term /\ core.term \in mine /\ core.persisted = Len(core.log)
           /\ disk.last = Unset =>
                  /\ disk.commit = meta.index /\ core.applied = meta.index
                  /\ core.persisted = meta.index /\ core.commit = meta.index
                  /\ Len(core.log) = meta.index
<1>1. Left = {}
  BY DEF Left, SetOf
<1>2. UpInv
  BY DEF NodeInv
<1>0. /\ core.commit \in Nat /\ core.applied \in Nat /\ core.persisted \in Nat
      /\ Deliverable(core) \in Nat /\ Len(core.log) \in Nat /\ meta.index \in Nat
  BY Fields
<1>3. ~Importing /\ ~Loading /\ ~Handing
  BY <1>1 DEF Importing, Loading, Handing
<1>4. Same(disk.log, core.log, Len(core.log)) /\ LastIndex = Len(core.log)
  BY <1>1, <1>2, <1>3 DEF UpInv, StoredInv
<1>5. /\ core.commit <= Len(core.log) /\ core.persisted <= Len(core.log)
      /\ core.applied = Deliverable(core)
      /\ disk.commit <= High /\ meta.index <= High /\ FirstIndex <= High + 1
      /\ core.role = "leader" =>
             core.term \in Term /\ core.term \in mine /\ core.persisted = Len(core.log)
  <2>1. /\ core.commit <= Len(core.log) /\ core.persisted <= Len(core.log)
        /\ disk.commit <= High /\ meta.index <= High /\ FirstIndex <= High + 1
    BY <1>2 DEF UpInv, CoreInv
  <2>2. ~(core.applied > Deliverable(core)) /\ ~(core.applied < Deliverable(core))
    BY <1>1, <1>2, <1>3 DEF UpInv, CoreInv
  <2>3. core.applied = Deliverable(core)
    BY <1>0, <2>2
  <2>4. core.role = "leader" =>
             core.term \in Term /\ core.term \in mine /\ core.persisted = Len(core.log)
    BY <1>1, <1>2 DEF UpInv, CoreInv
  <2> QED BY <2>1, <2>3, <2>4
<1>6. core.applied <= core.commit /\ core.applied <= core.persisted /\ High = core.commit
  <2>1. core.applied <= core.commit /\ core.applied <= core.persisted
    BY <1>0, <1>5 DEF Deliverable, Smaller
  <2> QED BY <1>0, <2>1 DEF High, Larger
<1>7. ASSUME disk.last = Unset
      PROVE  /\ disk.commit = meta.index /\ core.applied = meta.index
             /\ core.persisted = meta.index /\ core.commit = meta.index
             /\ Len(core.log) = meta.index
  <2>1. /\ disk.commit = meta.index /\ core.applied = meta.index
        /\ core.persisted = meta.index /\ meta.index <= core.commit
    BY <1>2, <1>3, <1>7 DEF UpInv, UnsavedInv
  <2>2. Len(core.log) = meta.index
    BY <1>4, <1>7 DEF LastIndex
  <2> QED BY <1>0, <1>5, <2>1, <2>2
<1> QED BY <1>1, <1>2, <1>3, <1>4, <1>5, <1>6, <1>7

\* What is handed out: the deliverable entries, and perhaps the next one, which
\* is then stored.
LEMMA HandedIs ==
    ASSUME TypeOK, NEW c \in CoreRecord
    PROVE  /\ Deliverable(c) \in Nat /\ Deliverable(c) <= c.commit /\ Deliverable(c) <= c.persisted
           /\ c.commit \in Nat /\ c.applied \in Nat /\ c.persisted \in Nat
           /\ Deliverable(c) \in Index0 /\ LastHanded(c) \in Index0
           /\ Extra(c) \in 0 .. MaxTerm
           /\ Extra(c) # 0 => /\ c.applied < Deliverable(c)
                              /\ LastHanded(c) = Deliverable(c) + 1 /\ LastHanded(c) \in Index
                              /\ Extra(c) = disk.log[LastHanded(c)]
           /\ Extra(c) = 0 => LastHanded(c) = Deliverable(c)
           /\ c.applied < LastHanded(c) <=> c.applied < Deliverable(c)
<1>1. c.commit \in Index0 /\ c.applied \in Index0 /\ c.persisted \in Index0 /\ MaxLog \in Nat
  BY ConstantsAssumption DEF CoreRecord
<1>2. /\ Deliverable(c) \in Nat /\ Deliverable(c) <= c.commit /\ Deliverable(c) <= c.persisted
      /\ c.commit \in Nat /\ c.applied \in Nat /\ c.persisted \in Nat
      /\ Deliverable(c) \in Index0
  BY <1>1 DEF Deliverable, Smaller, Index0
<1>3. disk.log \in [Index -> 0 .. MaxTerm] /\ MaxTerm \in Nat
  BY Fields
<1> DEFINE d == Deliverable(c)
<1> HIDE DEF d
<1>4. AtHigh(d + 1) \in 0 .. MaxTerm /\ (AtHigh(d + 1) # 0 => d + 1 \in Index /\ AtHigh(d + 1) = disk.log[d + 1])
  BY <1>3 DEF AtHigh
<1>5. /\ Extra(c) \in 0 .. MaxTerm
      /\ Extra(c) # 0 => c.applied < d /\ d + 1 \in Index /\ Extra(c) = disk.log[d + 1]
  BY <1>3, <1>4 DEF Extra, d
<1>6. LastHanded(c) = IF Extra(c) = 0 THEN d ELSE d + 1
  BY DEF LastHanded, d
<1>7. d + 1 \in Index => d + 1 \in Index0
  BY <1>2 DEF Index, Index0, d
<1>8. d \in Nat /\ d \in Index0 /\ d = Deliverable(c) /\ c.applied \in Nat
  BY <1>2 DEF d
<1>9. c.applied < LastHanded(c) <=> c.applied < d
  BY <1>5, <1>6, <1>8
<1> QED BY <1>2, <1>5, <1>6, <1>7, <1>8, <1>9

\* What is at most b, or at most one more, stays so when b grows.
LEMMA AtMost ==
    ASSUME NEW a \in Nat, NEW b \in Nat, NEW d \in Nat, b <= d
    PROVE  (a <= b => a <= d) /\ (a <= b + 1 => a <= d + 1)
OBVIOUS

\* A turn without entries, and one with entries after the persisted ones.
LeavesLog(c, next) ==
    c.log = core.log /\ c.persisted = core.persisted /\ next = Len(c.log) + 1
BringsEntries(c, next) ==
    /\ next = c.persisted + 1 /\ next <= Len(c.log)
    /\ core.commit <= c.persisted /\ c.persisted <= core.persisted
    /\ Same(c.log, core.log, c.persisted)

\* A leader leads its own term, and a new one has an entry to append.
MayLead(c, next) ==
    c.role = "leader" => /\ c.term \in Term /\ c.term \in mine
                         /\ core.role = "leader" \/ next <= Len(c.log)

\* A turn that brings no snapshot and takes no committed entry back: it leaves
\* the log and the persisted entries alone, or brings the entries after those.
LEMMA TurnKeeps ==
    ASSUME TypeOK, NodeInv, NEW c \in CoreRecord, NEW next \in Nat, Turn(c, next, NoSnapshot),
           acked' \in Log, breaches' \subseteq Breach,
           MayLead(c, next),
           c.applied = core.applied, core.commit <= c.commit, c.commit <= Len(c.log),
           LeavesLog(c, next) \/ BringsEntries(c, next)
    PROVE  TypeOK' /\ NodeInv'
<1>1. /\ PhasesOK' /\ mode = "up" /\ mode' = "up" /\ todo = <<>> /\ Left = {}
      /\ core' = c /\ rd' = Ready(next <= Len(c.log), next, LastHanded(c), Extra(c), NoSnapshot)
      /\ prev' = HardStateOf(c)
      /\ UNCHANGED <<lead, cmt, mine, disk, meta, handled, crashes>>
      /\ Left' \subseteq {"snapshot", "append", "handle", "hard", "send", "advance"}
      /\ "snapshot" \notin Left' /\ "advance" \in Left'
      /\ "append" \in Left' <=> next <= Len(c.log)
      /\ "handle" \in Left' <=> c.applied < LastHanded(c)
  BY TurnIs DEF history
<1>2. /\ c.log \in Log /\ Len(c.log) \in Nat /\ Len(c.log) <= MaxLog
      /\ c.commit \in Nat /\ c.applied \in Nat /\ c.persisted \in Nat
      /\ LastHanded(c) \in Index0 /\ Deliverable(c) \in Nat /\ Extra(c) \in 0 .. MaxTerm
      /\ Deliverable(c) <= c.commit /\ Deliverable(c) <= c.persisted
      /\ Extra(c) # 0 => /\ c.applied < Deliverable(c)
                         /\ LastHanded(c) = Deliverable(c) + 1 /\ LastHanded(c) \in Index
                         /\ Extra(c) = disk.log[LastHanded(c)]
      /\ Extra(c) = 0 => LastHanded(c) = Deliverable(c)
      /\ c.applied < LastHanded(c) <=> c.applied < Deliverable(c)
  <2>1. c.log \in Log
    BY DEF CoreRecord
  <2> QED BY <2>1, LogIs, HandedIs
<1>6. /\ FirstIndex' = FirstIndex /\ LastIndex' = LastIndex /\ Unset' = Unset
      /\ FirstIndex \in Nat /\ LastIndex \in Nat /\ disk.commit \in Nat /\ meta.index \in Nat
      /\ core.commit \in Nat /\ core.applied \in Nat /\ core.persisted \in Nat
      /\ Len(core.log) \in Nat
  BY <1>1, Fields DEF FirstIndex, LastIndex, Unset
<1>7. /\ Same(disk.log, core.log, Len(core.log)) /\ LastIndex = Len(core.log)
      /\ core.applied = Deliverable(core)
      /\ core.applied <= core.commit /\ core.applied <= core.persisted
      /\ core.commit <= Len(core.log) /\ core.persisted <= Len(core.log)
      /\ disk.commit <= core.commit /\ meta.index <= core.commit
      /\ FirstIndex <= core.commit + 1
      /\ core.role = "leader" => core.persisted = Len(core.log)
      /\ disk.last = Unset =>
             /\ disk.commit = meta.index /\ core.applied = meta.index
             /\ core.persisted = meta.index /\ core.commit = meta.index
             /\ Len(core.log) = meta.index
  BY <1>1, AtIdle
<1>20. /\ Len(c.log) \in Nat /\ c.commit \in Nat /\ c.applied \in Nat /\ c.persisted \in Nat
       /\ FirstIndex \in Nat /\ LastIndex \in Nat /\ disk.commit \in Nat /\ meta.index \in Nat
       /\ core.commit \in Nat /\ core.applied \in Nat /\ core.persisted \in Nat
       /\ Len(core.log) \in Nat
  BY <1>2, <1>6
<1>19. /\ core.applied <= core.commit /\ core.applied <= core.persisted
       /\ core.commit <= Len(core.log) /\ core.persisted <= Len(core.log)
       /\ disk.commit <= core.commit /\ meta.index <= core.commit
       /\ FirstIndex <= core.commit + 1 /\ LastIndex = Len(core.log)
  BY <1>7
<1>18. /\ next <= Len(c.log) + 1
       /\ c.persisted <= Len(c.log) /\ c.persisted <= core.persisted
       /\ c.applied <= c.persisted /\ c.applied <= c.commit
       /\ disk.commit <= c.commit /\ meta.index <= c.commit /\ FirstIndex <= c.commit + 1
       /\ next <= Len(c.log) =>
              /\ next = c.persisted + 1 /\ next - 1 = c.persisted /\ c.persisted < next
              /\ c.persisted < Len(c.log) /\ disk.commit <= c.persisted
              /\ meta.index <= c.persisted
              /\ FirstIndex <= c.persisted + 1 /\ LastIndex + 1 >= next
              /\ meta.index <= Larger(c.persisted, c.applied)
              /\ FirstIndex <= Larger(c.persisted, c.applied) + 1
  <2>1. CASE LeavesLog(c, next)
    <3>1. c.persisted = core.persisted /\ Len(c.log) = Len(core.log) /\ next = Len(c.log) + 1
      BY <2>1 DEF LeavesLog
    <3>2. ~(next <= Len(c.log)) /\ next <= Len(c.log) + 1
      BY <1>20, <3>1
    <3>3. c.applied <= c.commit
      BY <1>19, <1>20, SMT
    <3>4. /\ disk.commit <= c.commit /\ meta.index <= c.commit /\ FirstIndex <= c.commit + 1
      BY <1>19, <1>20, SMT
    <3> QED BY <1>19, <1>20, <3>1, <3>2, <3>3, <3>4
  <2>2. CASE BringsEntries(c, next)
    <3>1. /\ next = c.persisted + 1 /\ next <= Len(c.log)
          /\ core.commit <= c.persisted /\ c.persisted <= core.persisted
      BY <2>2 DEF BringsEntries
    <3>2. next - 1 = c.persisted /\ c.persisted < next /\ c.persisted < Len(c.log)
      BY <1>20, <3>1, SMT
    <3>3. c.applied <= c.persisted /\ c.applied <= c.commit
      BY <1>19, <1>20, <3>1, SMT
    <3>4. /\ disk.commit <= c.commit /\ meta.index <= c.commit /\ FirstIndex <= c.commit + 1
      BY <1>19, <1>20
    <3>5. disk.commit <= c.persisted /\ meta.index <= c.persisted
      <4>1. disk.commit <= core.commit /\ meta.index <= core.commit
        BY <1>19
      <4> QED BY <1>20, <3>1, <4>1
    <3>6. FirstIndex <= c.persisted + 1 /\ LastIndex + 1 >= next
      <4>1. FirstIndex <= core.commit + 1
        BY <1>19
      <4>2. FirstIndex <= c.persisted + 1
        BY <1>20, <3>1, <4>1, AtMost
      <4>3. LastIndex = Len(core.log) /\ core.persisted <= Len(core.log)
        BY <1>19
      <4>4. LastIndex + 1 >= next
        BY <1>20, <3>1, <4>3
      <4> QED BY <4>2, <4>4
    <3>7. Larger(c.persisted, c.applied) = c.persisted
      BY <1>20, <3>3 DEF Larger
    <3> QED BY <1>20, <3>1, <3>2, <3>3, <3>4, <3>5, <3>6, <3>7, SMT
  <2> QED BY <2>1, <2>2
<1>3. /\ rd'.fresh = (next <= Len(c.log)) /\ rd'.next = next /\ rd'.upto = LastHanded(c)
      /\ rd'.extra = Extra(c) /\ rd'.snap = 0 /\ rd' \in ReadyRecord
  <2>1. rd' = [fresh |-> next <= Len(c.log), next |-> next, upto |-> LastHanded(c),
               extra |-> Extra(c), snap |-> 0, term |-> 0, first |-> Unset,
               last |-> 0, from |-> 0, left |-> 1 .. 0]
    BY <1>1 DEF Ready, NoSnapshot
  <2>2. MaxLog \in Nat /\ MaxTerm \in Nat /\ core.persisted \in Nat
    BY Fields
  <2>3. next \in 0 .. MaxLog + 1 /\ Unset \in 0 .. Unset
    <3>1. next <= Len(c.log) + 1
      BY <1>18
    <3>2. Len(c.log) \in Nat /\ Len(c.log) <= MaxLog
      BY <1>2
    <3> QED BY <2>2, <3>1, <3>2 DEF Unset
  <2>4. 0 \in Index0 /\ 0 \in 0 .. MaxTerm /\ 1 .. 0 \in SUBSET Index
    BY <2>2 DEF Index0
  <2>5. (next <= Len(c.log)) \in BOOLEAN
    OBVIOUS
  <2> QED BY <1>2, <2>1, <2>3, <2>4, <2>5 DEF ReadyRecord
<1>4. TypeOK'
  <2>1. prev' \in HardState
    BY <1>1 DEF HardStateOf, CoreRecord, HardState
  <2>2. todo' \in Seq(PhaseName)
    BY <1>1 DEF PhasesOK
  <2> QED BY <1>1, <1>3, <2>1, <2>2, TypeParts, TypePartsNext
<1>5. ~Importing' /\ ~Loading' /\ Left' \cap Imports = {}
  BY <1>1, <1>3 DEF Importing, Loading, Imports
<1>8. c.persisted <= Len(c.log) /\ c.applied <= c.persisted /\ c.applied <= c.commit
  BY <1>18
<1>9. /\ High' \in Nat /\ c.commit <= High' /\ ~(c.applied > Deliverable(c))
      /\ Deliverable(core') = Deliverable(c)
  BY <1>1, <1>2, <1>8 DEF High, Larger, Deliverable, Smaller
<1>10. next <= Len(c.log) => /\ next = c.persisted + 1 /\ core.commit <= c.persisted
                             /\ c.persisted <= core.persisted
                             /\ Same(c.log, core.log, c.persisted)
  <2>1. LeavesLog(c, next) => ~(next <= Len(c.log))
    BY <1>2 DEF LeavesLog
  <2> QED BY <2>1 DEF BringsEntries
<1>11. CoreInv'
  <2>1. c.role = "leader" =>
            /\ c.term \in Term /\ c.term \in mine
            /\ c.persisted = Len(c.log) \/ (rd'.fresh /\ "advance" \in Left')
    BY <1>1, <1>3, <1>7 DEF MayLead, LeavesLog, BringsEntries
  <2>2. c.commit <= Len(c.log) /\ c.persisted <= Len(c.log) /\ prev'.commit = c.commit
    BY <1>1, <1>8 DEF HardStateOf
  <2>3. disk.commit <= High' /\ meta.index <= High' /\ FirstIndex <= High' + 1
    <3>1. /\ disk.commit <= c.commit /\ meta.index <= c.commit /\ FirstIndex <= c.commit + 1
          /\ High' \in Nat /\ c.commit <= High'
      BY <1>9, <1>18
    <3> QED BY <1>20, <3>1, AtMost
  <2>4. next <= Len(c.log) => c.persisted < Len(c.log)
    BY <1>18
  <2>5. next <= Len(c.log) => /\ meta.index <= Larger(c.persisted, c.applied)
                              /\ FirstIndex <= Larger(c.persisted, c.applied) + 1
    BY <1>18
  <2>6. "create" \notin Left' /\ "lightHard" \notin Left' /\ "advance" \in Left'
    BY <1>1
  <2> QED BY <1>1, <1>3, <1>6, <1>9, <2>1, <2>2, <2>3, <2>4, <2>5, <2>6 DEF CoreInv, Term
<1>12. HandleInv'
  <2>1. Handing'
    BY <1>1 DEF Handing
  <2>2. Extra(c) # 0 => disk.log[LastHanded(c)] # 0
    BY <1>2
  <2> QED BY <1>1, <1>2, <1>3, <1>9, <2>1, <2>2 DEF HandleInv, Index
<1>13. StoredInv'
  <2>1. "append" \notin Left' => c.log = core.log
    BY <1>1 DEF LeavesLog, BringsEntries
  <2> QED BY <1>1, <1>6, <1>7, <2>1 DEF StoredInv, Same
<1>14. UnsavedInv'
  <2>1. disk.last = Unset => c.applied = meta.index /\ c.persisted = meta.index /\ meta.index <= c.commit
    BY <1>2, <1>6, <1>7 DEF LeavesLog, BringsEntries
  <2>2. disk.last = Unset => ~(c.applied < LastHanded(c))
    BY <1>2, <1>6, <2>1
  <2>3. "create" \notin Left'
    BY <1>1
  <2> QED BY <1>1, <1>6, <1>7, <2>1, <2>2, <2>3 DEF UnsavedInv
<1>15. AppendInv'
  <2>1. "last" \notin Left'
    BY <1>1
  <2>2. ASSUME next <= Len(c.log)
        PROVE  /\ c.persisted < next /\ next - 1 = c.persisted
               /\ disk.commit <= c.persisted
               /\ FirstIndex <= c.persisted + 1 /\ LastIndex + 1 >= next
    BY <1>18, <2>2
  <2>3. ASSUME next <= Len(c.log) PROVE Same(disk.log, c.log, c.persisted)
    <3>1. Same(disk.log, core.log, c.persisted)
      <4>1. c.persisted <= core.persisted /\ core.persisted <= Len(core.log)
        BY <1>18, <1>19
      <4>2. c.persisted <= Len(core.log)
        BY <1>20, <4>1
      <4>3. Same(disk.log, core.log, Len(core.log))
        BY <1>7
      <4> QED BY <1>20, <4>2, <4>3, SameSooner
    <3>2. Same(core.log, c.log, c.persisted)
      BY <1>10, <2>3, SameBack
    <3> QED BY <3>1, <3>2, SameJoins
  <2> QED BY <1>1, <1>3, <1>6, <2>1, <2>2, <2>3 DEF AppendInv, Same
<1>16. LoadInv' /\ ImportInv'
  BY <1>1, <1>5 DEF LoadInv, ImportInv
<1>17. DiskInv'
  BY <1>1 DEF NodeInv, DiskInv, StoredEnd, Unset
<1> QED BY <1>1, <1>4, <1>11, <1>12, <1>13, <1>14, <1>15, <1>16, <1>17 DEF NodeInv, UpInv, PhasesOK

\* A process that fails leaves the disk as it is.
LEMMA FailKeeps ==
    ASSUME TypeOK, NodeInv, mode' = "failed",
           UNCHANGED <<lead, cmt, mine, disk, meta, core, prev, rd, todo, acked, handled, breaches, crashes>>
    PROVE  TypeOK' /\ NodeInv'
<1>1. TypeOK'
  BY TypeParts, TypePartsNext
<1>2. DiskInv'
  BY DEF NodeInv, DiskInv, StoredEnd, Unset, Index
<1> QED BY <1>1, <1>2 DEF NodeInv, Ordered

\* A panic inside RawNode's step leaves everything as it is.
LEMMA AbortKeeps ==
    ASSUME TypeOK, NodeInv, Abort
    PROVE  TypeOK' /\ NodeInv'
BY FailKeeps DEF Abort, history

\* The core in a term is the core but for its role, its term and its vote.
LEMMA InTermIs ==
    ASSUME TypeOK, NodeInv, mode = "up", NEW t \in Term, t >= core.term
    PROVE  /\ InTerm(t) \in CoreRecord
           /\ InTerm(t).log = core.log /\ InTerm(t).commit = core.commit
           /\ InTerm(t).applied = core.applied /\ InTerm(t).persisted = core.persisted
           /\ InTerm(t).term = t
           /\ InTerm(t).role = "leader" =>
                  InTerm(t) = core /\ core.role = "leader" /\ core.term \in Term /\ core.term \in mine
<1>1. core \in CoreRecord /\ (core.role = "leader" => core.term \in Term /\ core.term \in mine)
  BY TypeParts DEF NodeInv, UpInv, CoreInv
<1>2. t \in 0 .. MaxTerm /\ 0 \in Candidates \cup {0} /\ core.term \in 0 .. MaxTerm
  BY <1>1 DEF Term, CoreRecord
<1>3. CASE t > core.term
  <2>1. InTerm(t) = [core EXCEPT !.role = "follower", !.term = t, !.vote = 0]
    BY <1>3 DEF InTerm
  <2> QED BY <1>1, <1>2, <2>1 DEF CoreRecord
<1>4. CASE ~(t > core.term)
  <2>1. InTerm(t) = core
    BY <1>4 DEF InTerm
  <2>2. t = core.term
    BY <1>2, <1>4, ConstantsAssumption DEF Term
  <2> QED BY <1>1, <2>1, <2>2
<1> QED BY <1>3, <1>4

\* A turn that changes at most the role, the term, the vote and the committed index.
LEMMA QuietKeeps ==
    ASSUME TypeOK, NodeInv, NEW c \in CoreRecord, Turn(c, Len(c.log) + 1, NoSnapshot),
           acked' = acked, breaches' \subseteq Breach,
           c.role = "leader" => core.role = "leader" /\ c.term \in Term /\ c.term \in mine,
           c.log = core.log, c.persisted = core.persisted, c.applied = core.applied,
           core.commit <= c.commit, c.commit <= Len(c.log)
    PROVE  TypeOK' /\ NodeInv'
<1>1. Len(c.log) + 1 \in Nat /\ acked' \in Log
  <2>1. Len(core.log) \in Nat
    BY Fields
  <2> QED BY <2>1, TypeParts
<1>2. LeavesLog(c, Len(c.log) + 1) /\ MayLead(c, Len(c.log) + 1)
  BY DEF LeavesLog, MayLead
<1> QED BY <1>1, <1>2, TurnKeeps

\* A vote leaves the log alone; a newer term ends a leadership.
LEMMA VoteKeeps ==
    ASSUME TypeOK, NodeInv, NEW t \in Term, NEW v \in Candidates \cup {0}, Vote(t, v)
    PROVE  TypeOK' /\ NodeInv'
<1> DEFINE c == IF v = 0 THEN InTerm(t) ELSE [InTerm(t) EXCEPT !.vote = v]
<1>1. /\ mode = "up" /\ todo = <<>> /\ t >= core.term
      /\ Turn(c, Len(c.log) + 1, NoSnapshot) /\ acked' = acked /\ breaches' = breaches
  BY DEF Vote, QuietTurn, Turn, Idle
<1>2. /\ c \in CoreRecord /\ c.log = core.log /\ c.commit = core.commit
      /\ c.applied = core.applied /\ c.persisted = core.persisted
      /\ c.role = "leader" => core.role = "leader" /\ c.term \in Term /\ c.term \in mine
  <2>1. /\ InTerm(t) \in CoreRecord
        /\ InTerm(t).log = core.log /\ InTerm(t).commit = core.commit
        /\ InTerm(t).applied = core.applied /\ InTerm(t).persisted = core.persisted
        /\ InTerm(t).role = "leader" =>
               core.role = "leader" /\ InTerm(t).term \in Term /\ InTerm(t).term \in mine
    BY <1>1, InTermIs
  <2> QED BY <2>1 DEF CoreRecord
<1>3. breaches' \subseteq Breach
  BY <1>1, TypeParts
<1>4. core.commit <= Len(core.log) /\ core.commit \in Nat
  BY <1>1, AtIdle, Fields
<1> HIDE DEF c
<1>5. core.commit <= c.commit /\ c.commit <= Len(c.log)
  BY <1>2, <1>4
<1> QED BY <1>1, <1>2, <1>3, <1>5, QuietKeeps

\* The committed index that a message of the leader brings.
LEMMA KnownIs ==
    ASSUME NEW a \in Nat, NEW b \in Nat, NEW n \in Nat, a <= n
    PROVE  LET m == Larger(a, Smaller(b, n)) IN a <= m /\ m <= n /\ m \in Nat
BY DEF Larger, Smaller

\* What is left of the entries reported as stored.
LEMMA ReplacedIs ==
    ASSUME TypeOK, NEW l, NEW a \in ReplacedBy(l)
    PROVE  /\ a \in Log
           /\ \E k \in 0 .. Len(acked) :
                  /\ a = Front(acked, k) /\ Len(a) = k
                  /\ \A i \in 1 .. k : a[i] = acked[i]
                  /\ StartsWith(l, Front(acked, k))
                  /\ k < Len(acked) => ~StartsWith(l, Front(acked, k + 1))
<1>1. PICK k \in 0 .. Len(acked) :
          /\ StartsWith(l, Front(acked, k))
          /\ k < Len(acked) => ~StartsWith(l, Front(acked, k + 1))
          /\ a = Front(acked, k)
  BY DEF ReplacedBy
<1>2. acked \in Log /\ k \in 0 .. Len(acked)
  BY TypeParts
<1>3. /\ Front(acked, k) \in Log /\ Len(Front(acked, k)) = k
      /\ \A i \in 1 .. k : Front(acked, k)[i] = acked[i]
  BY <1>2, FrontIs
<1>4. a \in Log /\ Len(a) = k /\ \A i \in 1 .. k : a[i] = acked[i]
  BY <1>1, <1>3
<1> QED BY <1>1, <1>2, <1>4, Zenon

\* An answer that is a term is one about an entry the storage has.
LEMMA AnswerIs ==
    ASSUME TypeOK, NEW i \in Nat, Answer(i) # 0
    PROVE  1 <= i /\ i <= LastIndex
BY Fields DEF Answer

\* Comparing the logs breaks at most the contract about terms.
LEMMA ComparedIs ==
    ASSUME TypeOK, NEW l, NEW k, Compared(l, k)
    PROVE  breaches' \subseteq Breach
BY TypeParts DEF Compared, Breach

\* The four outcomes of a MsgAppend: it is only answered, it brings nothing but a
\* committed index, it makes RawNode panic, or its entries replace the log's after k.
OnlyAnswered(t) == QuietTurn(InTerm(t))
TellsCommit(t, n, known) ==
    /\ Turn(core', Len(core.log) + 1, NoSnapshot) /\ acked' = acked
    /\ n <= Len(core.log) /\ Compared(Front(lead[t], n), n)
    /\ core' = [InTerm(t) EXCEPT !.commit = Larger(core.commit, Smaller(known, n))]
    /\ core'.log = core.log /\ core'.persisted = core.persisted
BringsLog(t, n, k, known) ==
    /\ Turn(core', k + 1, NoSnapshot) /\ acked' \in ReplacedBy(lead[t])
    /\ core.commit <= k /\ k < n /\ k <= core.persisted
    /\ Compared(Front(lead[t], n), k)
    /\ core'.persisted = k /\ Len(core'.log) = n
    /\ Same(core'.log, core.log, k) /\ \A i \in k + 1 .. n : core'.log[i] = lead[t][i]

\* What a MsgAppend turns the core into.
LEMMA MsgAppendIs ==
    ASSUME TypeOK, NodeInv, NEW t \in Term, NEW p \in Index0, NEW n \in Index0,
           NEW known \in Index0, MsgAppend(t, p, n, known)
    PROVE  /\ lead[t] \in Log /\ Len(lead[t]) \in Nat /\ n <= Len(lead[t]) /\ n \in Nat
           /\ t >= core.term /\ t \notin mine
           /\ mode = "up" /\ todo = <<>> /\ known <= CommittedBy(t)
           /\ \/ OnlyAnswered(t)
              \/ Abort
              \/ /\ core' \in CoreRecord /\ core'.applied = core.applied
                 /\ core'.role = "leader" =>
                        core.role = "leader" /\ core'.term \in Term /\ core'.term \in mine
                 /\ core'.role = "leader" => core'.term = t
                 /\ core.commit <= core'.commit
                 /\ core'.commit = Larger(core.commit, Smaller(known, n))
                 /\ core'.commit <= n
                 /\ \/ TellsCommit(t, n, known)
                    \/ \E k \in Nat : BringsLog(t, n, k, known)
<1> DEFINE l == Front(lead[t], n)
           k == Agreed(l, p)
           m == Larger(core.commit, Smaller(known, n))
           c1 == [InTerm(t) EXCEPT !.commit = m]
           s == Front(core.log, k) \o SubSeq(l, k + 1, Len(l))
           c2 == [InTerm(t) EXCEPT !.log = s, !.persisted = k, !.commit = m]
<1>1. /\ t >= core.term /\ t \notin mine /\ n <= Len(lead[t]) /\ p <= n
      /\ known <= CommittedBy(t)
      /\ IF p < core.commit \/ (p > 0 /\ Answer(p) # l[p])
         THEN QuietTurn(InTerm(t))
         ELSE Accept(t, l, k, m)
  BY DEF MsgAppend
<1>2. mode = "up" /\ todo = <<>>
  BY <1>1 DEF Accept, QuietTurn, Turn, Abort, Idle
<1>3. /\ lead[t] \in Log /\ Len(lead[t]) \in Nat /\ n \in Nat /\ p \in Nat /\ known \in Nat
  BY TypeParts, LogIs DEF Index0
<1>4. CASE QuietTurn(InTerm(t))
  BY <1>1, <1>2, <1>3, <1>4 DEF OnlyAnswered
<1>5. CASE Accept(t, l, k, m) /\ core.commit <= p /\ (p = 0 \/ Answer(p) = l[p])
  <2>1. /\ core.log \in Log /\ Len(core.log) \in Nat /\ core.commit \in Nat
        /\ core.persisted \in Nat /\ LastIndex \in Nat /\ MaxLog \in Nat
    BY Fields
  <2>2. LastIndex = Len(core.log) /\ core.persisted <= Len(core.log)
    BY <1>2, AtIdle
  <2>3. l \in Log /\ Len(l) = n /\ Same(l, lead[t], n) /\ n <= MaxLog
    <3>1. n \in 0 .. Len(lead[t]) BY <1>1, <1>3
    <3>2. Len(lead[t]) <= MaxLog BY <1>3, LogIs
    <3> QED BY <1>1, <1>3, <2>1, <3>1, <3>2, FrontIs DEF Same
  <2> HIDE DEF l
  <2>4. k \in p .. n /\ \A i \in p + 1 .. k : Answer(i) = l[i]
    BY <1>1, <1>3, <2>3, AgreedIs
  <2>5. p <= LastIndex
    <3>1. CASE p = 0 BY <2>1, <3>1
    <3>2. CASE p # 0
      <4>1. p \in 1 .. Len(l) BY <1>1, <1>3, <2>3, <3>2
      <4>2. l[p] # 0 BY <2>3, <4>1, LogIs DEF Term
      <4> QED BY <1>3, <1>5, <3>2, <4>2, AnswerIs
    <3> QED BY <3>1, <3>2
  <2>6. k <= Len(core.log)
    <3>1. CASE k = p BY <2>2, <2>5, <3>1
    <3>2. CASE k # p
      <4>1. k \in p + 1 .. k /\ k \in 1 .. Len(l) /\ k \in Nat BY <1>3, <2>3, <2>4, <3>2
      <4>2. l[k] # 0 BY <2>3, <4>1, LogIs DEF Term
      <4>3. Answer(k) = l[k] BY <2>4, <4>1
      <4> QED BY <2>2, <4>1, <4>2, <4>3, AnswerIs
    <3> QED BY <3>1, <3>2
  <2> HIDE DEF k
  <2>7. m \in Nat /\ core.commit <= m /\ m <= n
    <3>1. core.commit <= n BY <1>1, <1>3, <1>5, <2>1
    <3> QED BY <1>3, <2>1, <3>1, KnownIs
  <2>8. m \in Index0 /\ m = Larger(core.commit, Smaller(known, n))
    <3>1. m = Larger(core.commit, Smaller(known, n)) OBVIOUS
    <3> HIDE DEF m
    <3> QED BY <2>1, <2>3, <2>7, <3>1 DEF Index0
  <2> HIDE DEF m
  <2>9. /\ InTerm(t) \in CoreRecord
        /\ InTerm(t).log = core.log
        /\ InTerm(t).applied = core.applied /\ InTerm(t).persisted = core.persisted
        /\ InTerm(t).term = t
        /\ InTerm(t).role = "leader" => t \in Term /\ t \in mine /\ core.role = "leader"
    BY <1>1, <1>2, InTermIs
  <2>10. CASE k = n
    <3>1. /\ Turn(c1, Len(core.log) + 1, NoSnapshot)
          /\ Compared(l, n) /\ acked' = acked
      BY <1>5, <2>3, <2>10 DEF Accept
    <3>2. core' = c1
      BY <3>1 DEF Turn
    <3>3. /\ c1 \in CoreRecord /\ c1.log = core.log /\ c1.commit = m
          /\ c1.applied = core.applied /\ c1.persisted = core.persisted
          /\ c1.role = "leader" =>
                 core.role = "leader" /\ c1.term \in Term /\ c1.term \in mine
          /\ c1.role = "leader" => c1.term = t
      BY <2>8, <2>9 DEF CoreRecord
    <3>4. c1 = [InTerm(t) EXCEPT !.commit = Larger(core.commit, Smaller(known, n))]
      BY <2>8
    <3> HIDE DEF c1
    <3>5. TellsCommit(t, n, known)
      BY <2>6, <2>10, <3>1, <3>2, <3>3, <3>4 DEF TellsCommit, l
    <3> QED BY <1>1, <1>2, <1>3, <2>7, <2>8, <3>2, <3>3, <3>5
  <2>11. CASE k # n /\ k > core.persisted
    BY <1>1, <1>2, <1>3, <1>5, <2>3, <2>11 DEF Accept
  <2>12. CASE k # n /\ ~(k > core.persisted)
    <3>1. /\ Turn(c2, k + 1, NoSnapshot)
          /\ Compared(l, k) /\ acked' \in ReplacedBy(lead[t])
      BY <1>5, <2>3, <2>12 DEF Accept
    <3>2. core' = c2
      BY <3>1 DEF Turn
    <3>3. k \in 0 .. Len(core.log) /\ k <= Len(l) /\ k \in Nat /\ k <= core.persisted /\ k < n
      BY <1>3, <2>1, <2>3, <2>4, <2>6, <2>12
    <3>4. k \in Index0
      BY <2>1, <2>3, <3>3 DEF Index0
    <3>5. /\ s \in Log /\ Len(s) = n
          /\ \A i \in 1 .. n : s[i] = IF i <= k THEN core.log[i] ELSE l[i]
      <4>1. s = Splice(core.log, l, k)
        BY DEF Splice
      <4> HIDE DEF s
      <4>2. /\ s \in Log /\ Len(s) = Len(l)
            /\ \A i \in 1 .. Len(l) : s[i] = IF i <= k THEN core.log[i] ELSE l[i]
        BY <2>1, <2>3, <3>3, <4>1, SpliceIs
      <4> QED BY <2>3, <4>2
    <3> HIDE DEF s
    <3>6. Same(s, core.log, k)
      BY <1>3, <3>3, <3>5 DEF Same
    <3>7. \A i \in k + 1 .. n : s[i] = lead[t][i]
      BY <1>3, <2>3, <3>3, <3>5 DEF Same
    <3>8. /\ c2 \in CoreRecord /\ c2.log = s /\ c2.commit = m
          /\ c2.applied = core.applied /\ c2.persisted = k
          /\ c2.role = "leader" =>
                 core.role = "leader" /\ c2.term \in Term /\ c2.term \in mine
          /\ c2.role = "leader" => c2.term = t
      BY <2>8, <2>9, <3>4, <3>5 DEF CoreRecord
    <3> HIDE DEF c2
    <3>9. core.commit <= k
      BY <1>3, <1>5, <2>1, <2>4
    <3>10. BringsLog(t, n, k, known)
      BY <3>1, <3>2, <3>3, <3>5, <3>6, <3>7, <3>8, <3>9 DEF BringsLog, l
    <3> QED BY <1>1, <1>2, <1>3, <2>7, <2>8, <3>2, <3>3, <3>8, <3>10
  <2> QED BY <2>10, <2>11, <2>12
<1> QED
  <2>1. core.commit \in Nat
    BY Fields
  <2>2. ~(p < core.commit) => core.commit <= p
    BY <1>3, <2>1
  <2>3. p > 0 \/ p = 0
    BY <1>3
  <2> QED BY <1>1, <1>4, <1>5, <2>2, <2>3

\* What a leader sends replaces the log from the first entry that differs on, which
\* is past the committed ones.
LEMMA MsgAppendKeeps ==
    ASSUME TypeOK, NodeInv, NEW t \in Term, NEW p \in Index0, NEW n \in Index0,
           NEW known \in Index0, MsgAppend(t, p, n, known)
    PROVE  TypeOK' /\ NodeInv'
<1>1. mode = "up" /\ todo = <<>> /\ t >= core.term
  BY MsgAppendIs
<1>2. CASE OnlyAnswered(t)
  <2>1. /\ InTerm(t) \in CoreRecord
        /\ InTerm(t).log = core.log /\ InTerm(t).commit = core.commit
        /\ InTerm(t).applied = core.applied /\ InTerm(t).persisted = core.persisted
        /\ InTerm(t).role = "leader" =>
               core.role = "leader" /\ InTerm(t).term \in Term /\ InTerm(t).term \in mine
    BY <1>1, InTermIs
  <2>2. /\ Turn(InTerm(t), Len(InTerm(t).log) + 1, NoSnapshot)
        /\ acked' = acked /\ breaches' = breaches
    BY <1>2 DEF OnlyAnswered, QuietTurn
  <2>3. breaches' \subseteq Breach
    BY <2>2, TypeParts
  <2>4. core.commit <= Len(core.log) /\ core.commit <= core.commit
    <3>1. core.commit \in Nat BY Fields
    <3> QED BY <1>1, <3>1, AtIdle
  <2> QED BY <2>1, <2>2, <2>3, <2>4, QuietKeeps
<1>3. CASE Abort
  BY <1>3, AbortKeeps
<1>4. CASE /\ core' \in CoreRecord /\ core'.applied = core.applied
           /\ core'.role = "leader" =>
                  core.role = "leader" /\ core'.term \in Term /\ core'.term \in mine
           /\ core.commit <= core'.commit /\ core'.commit <= n
           /\ \/ TellsCommit(t, n, known)
              \/ \E k \in Nat : BringsLog(t, n, k, known)
  <2> DEFINE c == core'
  <2>1. CASE TellsCommit(t, n, known)
    <3>1. /\ Turn(c, Len(c.log) + 1, NoSnapshot) /\ acked' = acked
          /\ c.log = core.log /\ c.persisted = core.persisted /\ n <= Len(core.log)
          /\ Compared(Front(lead[t], n), n)
      BY <2>1 DEF TellsCommit
    <3>2. breaches' \subseteq Breach
      BY <3>1, ComparedIs
    <3>3. c.commit \in Nat /\ n \in Nat /\ Len(core.log) \in Nat
      BY <1>4, Fields DEF CoreRecord, Index0
    <3>4. c.commit <= Len(c.log)
      BY <1>4, <3>1, <3>3
    <3>5. /\ c \in CoreRecord /\ c.applied = core.applied /\ core.commit <= c.commit
          /\ c.role = "leader" => core.role = "leader" /\ c.term \in Term /\ c.term \in mine
      BY <1>4
    <3> HIDE DEF c
    <3> QED BY <3>1, <3>2, <3>4, <3>5, QuietKeeps
  <2>2. CASE \E k \in Nat : BringsLog(t, n, k, known)
    <3>1. PICK k \in Nat : BringsLog(t, n, k, known)
      BY <2>2
    <3>2. /\ Turn(c, k + 1, NoSnapshot) /\ acked' \in ReplacedBy(lead[t])
          /\ core.commit <= k /\ k < n /\ k <= core.persisted
          /\ Compared(Front(lead[t], n), k)
          /\ c.persisted = k /\ Len(c.log) = n
          /\ Same(c.log, core.log, k)
      BY <3>1 DEF BringsLog
    <3>3. acked' \in Log /\ breaches' \subseteq Breach
      BY <3>2, ReplacedIs, ComparedIs
    <3>4. n \in Nat /\ k + 1 <= n
      BY <3>2 DEF Index0
    <3>5. BringsEntries(c, k + 1)
      BY <3>2, <3>4 DEF BringsEntries
    <3>6. MayLead(c, k + 1)
      BY <1>4 DEF MayLead
    <3>7. /\ c \in CoreRecord /\ c.applied = core.applied /\ core.commit <= c.commit
          /\ c.commit <= Len(c.log)
      BY <1>4, <3>2
    <3>8. k + 1 \in Nat
      OBVIOUS
    <3> HIDE DEF c
    <3> QED BY <3>2, <3>3, <3>5, <3>6, <3>7, <3>8, TurnKeeps
  <2> QED BY <1>4, <2>1, <2>2
<1> QED BY <1>2, <1>3, <1>4, MsgAppendIs

\* What a leader's entry of its own turns the core into.
LEMMA GrowKeeps ==
    ASSUME TypeOK, NodeInv, core.term \in Term, core.term \in mine,
           Len(core.log) < Len(lead[core.term]), core.persisted = Len(core.log),
           Turn([core EXCEPT !.role = "leader", !.log = Append(core.log, core.term)],
                Len(core.log) + 1, NoSnapshot),
           acked' = acked, breaches' = breaches
    PROVE  TypeOK' /\ NodeInv'
<1> DEFINE c == [core EXCEPT !.role = "leader", !.log = Append(core.log, core.term)]
<1>1. mode = "up" /\ todo = <<>>
  BY DEF Turn, Idle
<1>2. /\ core \in CoreRecord /\ core.log \in Log /\ Len(core.log) \in Nat
      /\ core.commit <= Len(core.log) /\ core.commit \in Nat
      /\ acked' \in Log /\ breaches' \subseteq Breach
  BY <1>1, TypeParts, Fields, AtIdle
<1>3. Len(core.log) < MaxLog
  <2>1. lead[core.term] \in Log BY TypeParts
  <2>2. Len(lead[core.term]) <= MaxLog /\ Len(lead[core.term]) \in Nat BY <2>1, LogIs
  <2> QED BY <1>2, <2>2, ConstantsAssumption
<1>4. /\ Append(core.log, core.term) \in Log /\ Len(Append(core.log, core.term)) = Len(core.log) + 1
      /\ Same(Append(core.log, core.term), core.log, Len(core.log))
  BY <1>2, <1>3, AppendIs DEF Same
<1>5. /\ c \in CoreRecord /\ c.log = Append(core.log, core.term) /\ c.commit = core.commit
      /\ c.applied = core.applied /\ c.persisted = core.persisted /\ c.term = core.term
  BY <1>2, <1>4 DEF CoreRecord
<1>6. Turn(c, Len(core.log) + 1, NoSnapshot)
  OBVIOUS
<1> HIDE DEF c
<1>7. /\ Len(c.log) = Len(core.log) + 1 /\ Same(c.log, core.log, c.persisted)
      /\ c.persisted = Len(core.log)
  BY <1>2, <1>4, <1>5
<1>8. /\ core.commit <= c.commit /\ c.commit <= Len(c.log) /\ core.commit <= c.persisted
      /\ c.persisted <= core.persisted /\ Len(core.log) + 1 <= Len(c.log)
      /\ Len(core.log) + 1 \in Nat
  BY <1>2, <1>5, <1>7
<1>9. BringsEntries(c, Len(core.log) + 1) /\ MayLead(c, Len(core.log) + 1)
  BY <1>5, <1>7, <1>8 DEF BringsEntries, MayLead
<1> QED BY <1>2, <1>5, <1>6, <1>8, <1>9, TurnKeeps

\* A new leader has its log and one entry of its own term more, or panics.
LEMMA BecomeLeaderKeeps ==
    ASSUME TypeOK, NodeInv, BecomeLeader
    PROVE  TypeOK' /\ NodeInv'
<1>1. core.term \in mine /\ core.term \in Term /\ Len(lead[core.term]) > Len(core.log)
  BY TypeParts DEF BecomeLeader
<1>2. lead[core.term] \in Log /\ core.log \in Log
  BY <1>1, TypeParts, Fields
<1>3. Len(core.log) < Len(lead[core.term])
  BY <1>1, <1>2, LogIs
<1>4. CASE core.persisted = Len(core.log)
  <2>1. /\ Turn([core EXCEPT !.role = "leader", !.log = Append(core.log, core.term)],
                Len(core.log) + 1, NoSnapshot)
        /\ acked' = acked /\ breaches' = breaches
    BY <1>4 DEF BecomeLeader
  <2> QED BY <1>1, <1>3, <1>4, <2>1, GrowKeeps
<1>5. CASE core.persisted # Len(core.log)
  BY <1>5, AbortKeeps DEF BecomeLeader
<1> QED BY <1>4, <1>5

\* So has a leader that proposes.
LEMMA ProposeKeeps ==
    ASSUME TypeOK, NodeInv, Propose
    PROVE  TypeOK' /\ NodeInv'
<1>1. /\ core.role = "leader" /\ Len(core.log) < Len(lead[core.term]) /\ acked' = acked
      /\ breaches' = breaches
      /\ Turn([core EXCEPT !.log = Append(core.log, core.term)], Len(core.log) + 1, NoSnapshot)
  BY DEF Propose
<1>2. mode = "up" /\ todo = <<>>
  BY <1>1 DEF Turn, Idle
<1>3. core.term \in Term /\ core.term \in mine /\ core.persisted = Len(core.log)
  BY <1>1, <1>2, AtIdle
<1>4. [core EXCEPT !.log = Append(core.log, core.term)] =
          [core EXCEPT !.role = "leader", !.log = Append(core.log, core.term)]
  <2>1. core \in CoreRecord BY TypeParts
  <2> DEFINE l == Append(core.log, core.term)
  <2> HIDE DEF l
  <2>2. [core EXCEPT !.log = l] = [core EXCEPT !.role = "leader", !.log = l]
    BY <1>1, <2>1 DEF CoreRecord
  <2> QED BY <2>2 DEF l
<1>5. Turn([core EXCEPT !.role = "leader", !.log = Append(core.log, core.term)],
           Len(core.log) + 1, NoSnapshot)
  BY <1>1, <1>4
<1> QED BY <1>1, <1>3, <1>5, GrowKeeps

\* Only the committed index moves, within the log.
LEMMA QuorumKeeps ==
    ASSUME TypeOK, NodeInv, NEW i \in Index, Quorum(i)
    PROVE  TypeOK' /\ NodeInv'
<1> DEFINE c == [core EXCEPT !.commit = i]
<1>1. /\ core.role = "leader" /\ i \in LeaderCommits(core.persisted)
      /\ Turn(c, Len(c.log) + 1, NoSnapshot) /\ acked' = acked /\ breaches' = breaches
      /\ mode = "up" /\ todo = <<>>
  BY DEF Quorum, QuietTurn, Turn, Idle
<1>2. /\ core \in CoreRecord /\ core.persisted = Len(core.log) /\ core.commit <= Len(core.log)
      /\ core.commit \in Nat /\ Len(core.log) \in Nat /\ core.term \in Term /\ core.term \in mine
      /\ breaches' \subseteq Breach /\ i \in Nat /\ i \in Index0
  <2>1. core \in CoreRecord /\ breaches' \subseteq Breach
    BY <1>1, TypeParts
  <2>2. core.commit \in Nat /\ Len(core.log) \in Nat /\ MaxLog \in Nat
    BY Fields
  <2>3. /\ core.persisted = Len(core.log) /\ core.commit <= Len(core.log)
        /\ core.term \in Term /\ core.term \in mine
    BY <1>1, AtIdle
  <2>4. i \in Nat /\ i \in Index0
    BY <2>2 DEF Index, Index0
  <2> QED BY <2>1, <2>2, <2>3, <2>4
<1>3. i > core.commit /\ i <= Len(core.log)
  <2>1. cmt[core.term] \in Nat
    BY <1>2, TypeParts DEF Index0
  <2>2. i \in core.commit + 1 .. Smaller(core.persisted, cmt[core.term])
    BY <1>1 DEF LeaderCommits
  <2> QED BY <1>2, <2>1, <2>2 DEF Smaller
<1>4. /\ c \in CoreRecord /\ c.log = core.log /\ c.commit = i /\ c.term = core.term
      /\ c.applied = core.applied /\ c.persisted = core.persisted
  BY <1>2 DEF CoreRecord
<1> HIDE DEF c
<1>5. core.commit <= c.commit /\ c.commit <= Len(c.log)
  BY <1>2, <1>3, <1>4
<1> QED BY <1>1, <1>2, <1>4, <1>5, QuietKeeps

\* create_snapshot, wherever it is called: no entries are being written then.
LEMMA CreatedKeeps ==
    ASSUME TypeOK, NodeInv, mode = "up", "append" \notin Left, ~Importing, ~Loading, Created,
           "advance" \in Left => disk.commit = core.applied,
           UNCHANGED <<lead, cmt, mine, core, prev, rd, mode, acked, handled, breaches, crashes>>,
           PhasesOK', Left' = Left \ {"create"}
    PROVE  TypeOK' /\ NodeInv'
<1>1. /\ disk' = [disk EXCEPT !.first = disk.commit]
      /\ meta' = [index |-> disk.commit, term |-> disk.term]
      /\ todo' \in Seq(PhaseName)
  BY DEF Created, PhasesOK
<1>2. disk \in DiskRecord /\ disk.commit \in 0 .. Unset /\ disk.commit \in Index0
  <2>1. disk \in DiskRecord BY TypeParts
  <2>2. disk.commit \in Index0 /\ MaxLog \in Nat BY <2>1, ConstantsAssumption DEF DiskRecord
  <2> QED BY <2>1, <2>2 DEF Index0, Unset
<1>3. /\ disk' \in DiskRecord /\ disk'.commit = disk.commit /\ disk'.last = disk.last
      /\ disk'.log = disk.log /\ disk'.first = disk.commit /\ meta'.index = disk.commit
  BY <1>1, <1>2 DEF DiskRecord
<1>4. meta' \in MetaRecord
  BY <1>1, <1>2 DEF DiskRecord, MetaRecord
<1>5. TypeOK'
  BY <1>1, <1>3, <1>4, TypeParts, TypePartsNext
<1>6. UpInv
  BY DEF NodeInv
<1>7. /\ ~Importing' /\ ~Loading' /\ "append" \notin Left' /\ "last" \notin Left' /\ "last" \notin Left
      /\ (Handing' <=> Handing) /\ Left' \cap Imports = {} /\ "snapshot" \notin Left'
      /\ "create" \notin Left' /\ ("advance" \in Left' <=> "advance" \in Left)
      /\ ("handle" \in Left' <=> "handle" \in Left) /\ Left' \subseteq Left
  BY <1>6 DEF Importing, Imports, Loading, Handing, UpInv, AppendInv
<1>8. /\ disk.commit \in Nat /\ core.commit \in Nat /\ MaxLog \in Nat /\ Len(core.log) \in Nat
      /\ core.applied \in Nat /\ core.persisted \in Nat /\ High \in Nat
      /\ disk.commit <= MaxLog /\ disk.commit # Unset
  BY Fields
<1>9. FirstIndex' = disk.commit
  BY <1>3, <1>8 DEF FirstIndex, Unset
<1>10. CoreInv'
  <2>1. CoreInv /\ disk.commit <= High
    BY <1>6 DEF UpInv, CoreInv
  <2>2. disk.commit <= High + 1
    BY <1>8, <2>1
  <2>3. High' = High /\ Deliverable(core)' = Deliverable(core)
    BY DEF High, Deliverable
  <2>4. "advance" \in Left => /\ disk.commit <= Larger(core.persisted, core.applied)
                              /\ disk.commit <= Larger(core.persisted, core.applied) + 1
    BY <1>8 DEF Larger
  <2> QED BY <1>1, <1>3, <1>7, <1>9, <2>1, <2>2, <2>3, <2>4 DEF CoreInv, Term
<1>11. HandleInv'
  <2>1. HandleInv
    BY <1>6 DEF UpInv
  <2> QED BY <1>3, <1>7, <2>1 DEF HandleInv, Deliverable, Index
<1>12. UnsavedInv
  BY <1>6 DEF UpInv
<1>13. StoredInv'
  <2>1. Same(disk.log, core.log, Len(core.log)) /\ LastIndex = Len(core.log)
    BY <1>6 DEF UpInv, StoredInv
  <2>2. disk.last = Unset => disk.commit = meta.index
    BY <1>12 DEF UnsavedInv
  <2>3. LastIndex' = LastIndex
    BY <1>3, <2>2 DEF LastIndex, Unset
  <2> QED BY <1>3, <2>1, <2>3 DEF StoredInv, Same
<1>14. UnsavedInv'
  BY <1>3, <1>7, <1>12 DEF UnsavedInv, Unset
<1>15. AppendInv' /\ LoadInv' /\ ImportInv'
  BY <1>7 DEF AppendInv, LoadInv, ImportInv
<1>16. DiskInv'
  BY <1>1, <1>3 DEF NodeInv, DiskInv, StoredEnd, Unset, Index
<1> QED BY <1>5, <1>10, <1>11, <1>13, <1>14, <1>15, <1>16 DEF NodeInv, UpInv, PhasesOK

\* SnapshotForPeer, at a leader between two turns.
LEMMA SnapshotForPeerKeeps ==
    ASSUME TypeOK, NodeInv, SnapshotForPeer
    PROVE  TypeOK' /\ NodeInv'
<1>1. /\ mode = "up" /\ todo = <<>> /\ Created /\ todo' = todo
      /\ UNCHANGED <<lead, cmt, mine, core, prev, rd, mode, acked, handled, breaches, crashes>>
  BY DEF SnapshotForPeer, Idle, history
<1>2. Left = {} /\ ~Importing /\ ~Loading
  BY <1>1, AtIdle
<1>3. Left' = Left \ {"create"} /\ PhasesOK'
  <2>1. Left' = Left BY <1>1 DEF Left, SetOf
  <2>2. PhasesOK' BY <1>1, Phases DEF PhasesOK, Ordered
  <2> QED BY <1>2, <2>1, <2>2
<1> QED BY <1>1, <1>2, <1>3, CreatedKeeps

-----------------------------------------------------------------------------
(* Snapshots from a leader, and the phases of an import. *)

\* The snapshot that a turn brings, and the core after it.
Brought(t, s, n, f, m) == [snap |-> s, term |-> m, first |-> f, last |-> n, from |-> t]
BringsSnapshot(t, s, n, f, m) ==
    /\ Turn(core', s + 1, Brought(t, s, n, f, m))
    /\ breaches' = IF s = core.commit \/ StartsWith(core.log, Front(lead[t], s))
                   THEN breaches \cup {"again"} ELSE breaches
    /\ acked' \in ReplacedBy(lead[t])
    /\ core' = [InTerm(t) EXCEPT !.log = Front(lead[t], s), !.commit = s,
                                 !.applied = s, !.persisted = s]
    /\ core'.role = "follower"
TellsSnapshot(t, s) ==
    /\ Turn(core', Len(core.log) + 1, NoSnapshot) /\ acked' = acked
    /\ s <= Len(core.log) /\ Compared(lead[t], s)
    /\ core' = [InTerm(t) EXCEPT !.commit = s]

\* What a MsgSnapshot turns the core into.
LEMMA MsgSnapshotIs ==
    ASSUME TypeOK, NodeInv, NEW t \in Term, NEW s \in Index, NEW n \in Index,
           NEW f \in Index \cup {Unset}, NEW m \in Term, MsgSnapshot(t, s, n, f, m)
    PROVE  /\ mode = "up" /\ todo = <<>> /\ t >= core.term /\ t \notin mine /\ Snapshots
           /\ lead[t] \in Log /\ Len(lead[t]) \in Nat /\ n <= Len(lead[t]) /\ n \in Nat
           /\ s \in Nat /\ 1 <= s /\ core.commit <= s /\ s <= n /\ s <= CommittedBy(t)
           /\ f <= s \/ f = Unset
           /\ m \in {lead[t][s], t}
           /\ core' \in CoreRecord /\ core'.commit = s
           /\ \/ BringsSnapshot(t, s, n, f, m) /\ core'.log = Front(lead[t], s)
                 /\ core'.applied = s /\ core'.persisted = s /\ Len(core'.log) = s
                 /\ Same(core'.log, lead[t], s)
              \/ TellsSnapshot(t, s) /\ core'.log = core.log
                 /\ core'.applied = core.applied /\ core'.persisted = core.persisted
                 /\ core'.role = "follower"
<1> DEFINE l == Front(lead[t], s)
           c1 == [InTerm(t) EXCEPT !.commit = s]
           c2 == [InTerm(t) EXCEPT !.log = l, !.commit = s, !.applied = s, !.persisted = s]
<1>1. /\ Snapshots /\ t >= core.term /\ t \notin mine /\ s >= core.commit /\ s <= n
      /\ n <= Len(lead[t]) /\ s <= CommittedBy(t) /\ (f <= s \/ f = Unset)
      /\ m \in {lead[t][s], t}
      /\ IF Answer(s) = m
         THEN Turn(c1, Len(core.log) + 1, NoSnapshot) /\ Compared(lead[t], s) /\ acked' = acked
         ELSE /\ Turn(c2, s + 1, Brought(t, s, n, f, m))
              /\ breaches' = IF s = core.commit \/ StartsWith(core.log, Front(lead[t], s))
                             THEN breaches \cup {"again"} ELSE breaches
              /\ acked' \in ReplacedBy(lead[t])
  BY DEF MsgSnapshot, Brought
<1>2. mode = "up" /\ todo = <<>>
  BY <1>1 DEF Turn, Idle
<1>3. /\ lead[t] \in Log /\ Len(lead[t]) \in Nat /\ n \in Nat /\ s \in Nat /\ 1 <= s
      /\ core.commit \in Nat /\ s \in Index0 /\ LastIndex \in Nat
  <2>1. lead[t] \in Log BY TypeParts
  <2>2. Len(lead[t]) \in Nat BY <2>1, LogIs
  <2>3. core.commit \in Nat /\ LastIndex \in Nat BY Fields
  <2> QED BY <2>1, <2>2, <2>3 DEF Index, Index0
<1>4. core.commit <= s
  BY <1>1, <1>3
<1>5. /\ InTerm(t) \in CoreRecord /\ InTerm(t).log = core.log
      /\ InTerm(t).applied = core.applied /\ InTerm(t).persisted = core.persisted
      /\ InTerm(t).term = t
      /\ InTerm(t).role = "leader" => t \in mine
  BY <1>1, <1>2, InTermIs
<1>6. InTerm(t).role = "follower"
  BY <1>1, <1>5 DEF CoreRecord
<1>7. CASE Answer(s) = m
  <2>1. /\ Turn(c1, Len(core.log) + 1, NoSnapshot) /\ Compared(lead[t], s) /\ acked' = acked
    BY <1>1, <1>7
  <2>2. core' = c1
    BY <2>1 DEF Turn
  <2>3. /\ c1 \in CoreRecord /\ c1.log = core.log /\ c1.commit = s
        /\ c1.applied = core.applied /\ c1.persisted = core.persisted
        /\ c1.role = "follower"
    BY <1>3, <1>5, <1>6 DEF CoreRecord
  <2>4. s <= Len(core.log)
    <3>1. m # 0 BY DEF Term
    <3>2. s <= LastIndex BY <1>3, <1>7, <3>1, AnswerIs
    <3>3. LastIndex = Len(core.log) BY <1>2, AtIdle
    <3> QED BY <3>2, <3>3
  <2> DEFINE d == c1
  <2>5. d = [InTerm(t) EXCEPT !.commit = s]
    OBVIOUS
  <2> HIDE DEF c1
  <2>6. TellsSnapshot(t, s)
    BY <2>1, <2>2, <2>4, <2>5 DEF TellsSnapshot
  <2> QED BY <1>1, <1>2, <1>3, <1>4, <2>2, <2>3, <2>6
<1>8. CASE Answer(s) # m
  <2>1. /\ Turn(c2, s + 1, Brought(t, s, n, f, m))
        /\ breaches' = IF s = core.commit \/ StartsWith(core.log, Front(lead[t], s))
                       THEN breaches \cup {"again"} ELSE breaches
        /\ acked' \in ReplacedBy(lead[t])
    BY <1>1, <1>8
  <2>2. core' = c2
    BY <2>1 DEF Turn
  <2>3. l \in Log /\ Len(l) = s /\ Same(l, lead[t], s)
    <3>1. s \in 0 .. Len(lead[t]) BY <1>1, <1>3
    <3> QED BY <1>3, <3>1, FrontIs DEF Same
  <2> HIDE DEF l
  <2>4. /\ c2 \in CoreRecord /\ c2.log = l /\ c2.commit = s
        /\ c2.applied = s /\ c2.persisted = s /\ c2.role = "follower"
    BY <1>3, <1>5, <1>6, <2>3 DEF CoreRecord
  <2>5. c2 = [InTerm(t) EXCEPT !.log = Front(lead[t], s), !.commit = s,
                               !.applied = s, !.persisted = s]
    BY DEF l
  <2> HIDE DEF c2
  <2>6. BringsSnapshot(t, s, n, f, m)
    BY <2>1, <2>2, <2>4, <2>5 DEF BringsSnapshot
  <2>7. core'.log = Front(lead[t], s)
    BY <2>2, <2>4 DEF l
  <2> QED BY <1>1, <1>2, <1>3, <1>4, <2>2, <2>3, <2>4, <2>6, <2>7
<1> QED BY <1>7, <1>8

\* A snapshot that the core takes replaces all it has; the storage follows later.
LEMMA BringsSnapshotKeeps ==
    ASSUME TypeOK, NodeInv, NEW t \in Term, NEW s \in Index, NEW n \in Index,
           NEW f \in Index \cup {Unset}, NEW m \in Term, Snapshots,
           mode = "up", todo = <<>>, BringsSnapshot(t, s, n, f, m), core' \in CoreRecord,
           lead[t] \in Log, n <= Len(lead[t]), core.commit <= s, s <= n, f <= s \/ f = Unset,
           core'.commit = s, core'.applied = s, core'.persisted = s, Len(core'.log) = s,
           Same(core'.log, lead[t], s)
    PROVE  TypeOK' /\ NodeInv'
<1> DEFINE c == core'
           b == Brought(t, s, n, f, m)
<1>1. Turn(c, s + 1, b)
  BY DEF BringsSnapshot
<1>2. b # NoSnapshot /\ b.snap = s /\ b.term = m /\ b.first = f /\ b.last = n /\ b.from = t
  BY DEF Brought, NoSnapshot, Index
<1>3. s \in Nat /\ 1 <= s /\ s \in Index0 /\ n \in Nat /\ n \in Index0 /\ 1 <= n
  BY DEF Index, Index0
<1>4. /\ c \in CoreRecord /\ c.commit = s /\ c.applied = s /\ c.persisted = s
      /\ Len(c.log) = s /\ Same(c.log, lead[t], s) /\ c.role = "follower"
  BY DEF BringsSnapshot
<1> HIDE DEF b, c
<1>5. /\ PhasesOK' /\ mode' = "up"
      /\ core' = c /\ rd' = Ready(s + 1 <= Len(c.log), s + 1, LastHanded(c), Extra(c), b)
      /\ prev' = HardStateOf(c)
      /\ UNCHANGED <<lead, cmt, mine, disk, meta, handled, crashes>>
      /\ Left' \subseteq {"snapshot", "append", "handle", "hard", "send", "advance"}
      /\ "snapshot" \in Left' /\ "advance" \in Left'
      /\ "append" \in Left' <=> s + 1 <= Len(c.log)
      /\ "handle" \in Left' <=> c.applied < LastHanded(c)
  BY <1>1, <1>2, TurnIs DEF history
<1>6. Deliverable(c) = s /\ ~(c.applied < Deliverable(c)) /\ ~(s + 1 <= Len(c.log))
  BY <1>3, <1>4 DEF Deliverable, Smaller
<1>7. Extra(c) = 0 /\ LastHanded(c) = s /\ "handle" \notin Left' /\ "append" \notin Left'
  BY <1>4, <1>5, <1>6, HandedIs
<1>22. rd' = [fresh |-> FALSE, next |-> s + 1, upto |-> s, extra |-> 0, snap |-> s,
              term |-> m, first |-> f, last |-> n, from |-> t, left |-> 1 .. n]
  <2>1. rd' = [fresh |-> s + 1 <= Len(c.log), next |-> s + 1, upto |-> LastHanded(c),
               extra |-> Extra(c), snap |-> b.snap, term |-> b.term, first |-> b.first,
               last |-> b.last, from |-> b.from, left |-> 1 .. b.last]
    BY <1>5 DEF Ready
  <2>2. (s + 1 <= Len(c.log)) = FALSE
    BY <1>6
  <2> QED BY <1>2, <1>7, <2>1, <2>2
<1>8. /\ rd'.fresh = FALSE /\ rd'.snap = s /\ rd'.term = m /\ rd'.first = f /\ rd'.last = n
      /\ rd'.from = t /\ rd'.left = 1 .. n
  BY <1>22
<1>9. rd' \in ReadyRecord
  <2>2. MaxLog \in Nat /\ MaxTerm \in Nat /\ Unset = MaxLog + 1
    BY Fields
  <2>3. s + 1 \in 0 .. MaxLog + 1 /\ f \in 0 .. Unset /\ n <= MaxLog
    BY <1>3, <2>2 DEF Index, Index0
  <2>4. 0 \in 0 .. MaxTerm /\ m \in 0 .. MaxTerm /\ t \in 0 .. MaxTerm
    BY <2>2 DEF Term
  <2>5. 1 .. n \in SUBSET Index
    BY <1>3, <2>2, <2>3 DEF Index
  <2> QED BY <1>3, <1>22, <2>3, <2>4, <2>5 DEF ReadyRecord
<1>10. TypeOK'
  <2>1. prev' \in HardState
    BY <1>4, <1>5 DEF HardStateOf, CoreRecord, HardState
  <2>2. todo' \in Seq(PhaseName)
    BY <1>5 DEF PhasesOK
  <2>3. acked' \in Log
    BY ReplacedIs DEF BringsSnapshot
  <2>4. breaches' \subseteq Breach
    BY TypeParts DEF BringsSnapshot, Breach
  <2> QED BY <1>4, <1>5, <1>9, <2>1, <2>2, <2>3, <2>4, TypeParts, TypePartsNext
<1>11. Importing' /\ Loading' /\ Handing' /\ Left' \cap Imports = {}
  BY <1>3, <1>5, <1>8 DEF Importing, Loading, Handing, Imports
<1>12. /\ FirstIndex' = FirstIndex /\ LastIndex' = LastIndex /\ Unset' = Unset
       /\ FirstIndex \in Nat /\ LastIndex \in Nat /\ disk.commit \in Nat /\ meta.index \in Nat
       /\ core.commit \in Nat /\ Len(core.log) \in Nat
  BY <1>5, Fields DEF FirstIndex, LastIndex, Unset
<1>13. /\ LastIndex = Len(core.log) /\ core.commit <= Len(core.log)
       /\ disk.commit <= core.commit /\ meta.index <= core.commit
       /\ FirstIndex <= core.commit + 1
       /\ disk.last = Unset => disk.commit = core.commit /\ meta.index = core.commit
  BY AtIdle
<1>14. High' = s /\ Deliverable(core') = s
  BY <1>3, <1>4, <1>5, <1>6 DEF High, Larger
<1>15. disk.commit <= s /\ meta.index <= s /\ FirstIndex <= s + 1
  BY <1>3, <1>12, <1>13, AtMost
<1>16. CoreInv'
  <2>1. prev'.commit = s BY <1>4, <1>5 DEF HardStateOf
  <2>2. "create" \notin Left' /\ "lightHard" \notin Left' BY <1>5
  <2>3. s <= s /\ ~(s > s) /\ ~(s < s) BY <1>3
  <2> QED BY <1>4, <1>5, <1>8, <1>12, <1>14, <1>15, <2>1, <2>2, <2>3 DEF CoreInv, Term
<1>17. HandleInv' /\ StoredInv' /\ UnsavedInv'
  BY <1>7, <1>11 DEF HandleInv, StoredInv, UnsavedInv
<1>18. AppendInv'
  BY <1>5, <1>7 DEF AppendInv
<1>19. LoadInv'
  <2>1. rd'.first \in 1 .. s \cup {Unset}
    BY <1>3, <1>8 DEF Index, Unset
  <2>2. Left' \subseteq {"snapshot"} \cup Imports \cup {"hard", "send", "advance"}
    BY <1>5, <1>7
  <2> QED BY <1>3, <1>4, <1>5, <1>8, <1>11, <1>12, <2>1, <2>2 DEF LoadInv, Term, Same, Imports
<1>20. ImportInv'
  <2>1. ASSUME FirstIndex > s
        PROVE  /\ "again" \in breaches' /\ LastIndex >= s
               /\ disk.last = Unset => disk.commit = s /\ meta.index = s
    <3>1. s = core.commit
      BY <1>3, <1>12, <1>13, <2>1
    <3>2. "again" \in breaches'
      BY <3>1 DEF BringsSnapshot
    <3>3. LastIndex >= s
      BY <1>3, <1>12, <1>13, <3>1
    <3> QED BY <1>13, <3>1, <3>2, <3>3
  <2> QED BY <1>5, <1>8, <1>11, <1>12, <2>1 DEF ImportInv
<1>21. DiskInv'
  BY <1>5 DEF NodeInv, DiskInv, StoredEnd, Unset
<1> QED BY <1>5, <1>10, <1>16, <1>17, <1>18, <1>19, <1>20, <1>21 DEF NodeInv, UpInv, PhasesOK

\* A snapshot from the leader: taken, or for its committed index only.
LEMMA MsgSnapshotKeeps ==
    ASSUME TypeOK, NodeInv, NEW t \in Term, NEW s \in Index, NEW n \in Index,
           NEW f \in Index \cup {Unset}, NEW m \in Term, MsgSnapshot(t, s, n, f, m)
    PROVE  TypeOK' /\ NodeInv'
<1>1. CASE BringsSnapshot(t, s, n, f, m) /\ core'.log = Front(lead[t], s)
           /\ core'.applied = s /\ core'.persisted = s /\ Len(core'.log) = s
           /\ Same(core'.log, lead[t], s)
  BY <1>1, MsgSnapshotIs, BringsSnapshotKeeps
<1>2. CASE TellsSnapshot(t, s) /\ core'.log = core.log
           /\ core'.applied = core.applied /\ core'.persisted = core.persisted
           /\ core'.role = "follower"
  <2> DEFINE c == core'
  <2>1. /\ Turn(c, Len(c.log) + 1, NoSnapshot) /\ acked' = acked /\ s <= Len(c.log)
        /\ Compared(lead[t], s) /\ c.log = core.log /\ c.role # "leader"
        /\ c.applied = core.applied /\ c.persisted = core.persisted
    BY <1>2 DEF TellsSnapshot
  <2>2. c \in CoreRecord /\ c.commit = s /\ core.commit <= s
    BY MsgSnapshotIs
  <2>3. breaches' \subseteq Breach
    BY <2>1, ComparedIs
  <2> HIDE DEF c
  <2> QED BY <2>1, <2>2, <2>3, QuietKeeps
<1> QED BY <1>1, <1>2, MsgSnapshotIs

\* In an import the core is the one the snapshot made, and nothing else is left but
\* the import, the hard state and the messages.
LEMMA AtImport ==
    ASSUME TypeOK, NodeInv, NEW p \in {"snapshot"} \cup Imports, At(p)
    PROVE  /\ PhasesOK /\ mode = "up" /\ p \in Left /\ Importing /\ Loading
           /\ \A q \in Left : q = p \/ Rank(p) < Rank(q)
           /\ UpInv /\ DiskInv
           /\ Left \subseteq {"snapshot"} \cup Imports \cup {"hard", "send", "advance"}
           /\ "advance" \in Left
           /\ rd.snap \in Nat /\ 1 <= rd.snap /\ rd.snap <= rd.last /\ rd.snap \in Index
           /\ rd.snap \in Index0 /\ rd.last \in Index0 /\ rd.last \in Nat /\ rd.last # Unset
           /\ rd.from \in Term /\ rd.term \in Term /\ lead[rd.from] \in Log
           /\ rd.last <= Len(lead[rd.from])
           /\ \A i \in 1 .. rd.last : lead[rd.from][i] \in Term /\ i \in Index
           /\ core.commit = rd.snap /\ core.applied = rd.snap /\ core.persisted = rd.snap
           /\ Len(core.log) = rd.snap /\ High = rd.snap
           /\ disk.commit <= rd.snap /\ meta.index <= rd.snap /\ FirstIndex <= rd.snap + 1
<1>1. PhasesOK BY Phases
<1>2. /\ mode = "up" /\ p \in Left /\ \A q \in Left : q = p \/ Rank(p) < Rank(q)
  BY <1>1, AtPhase
<1>3. UpInv /\ DiskInv
  BY <1>2 DEF NodeInv
<1>4. Importing /\ Loading
  BY <1>2, <1>3 DEF Importing, UpInv, ImportInv
<1>5. /\ core.commit = rd.snap /\ core.applied = rd.snap /\ core.persisted = rd.snap
      /\ Len(core.log) = rd.snap
      /\ rd.from \in Term /\ rd.term \in Term /\ 1 <= rd.snap /\ rd.snap <= rd.last
      /\ rd.last <= Len(lead[rd.from])
      /\ Left \subseteq {"snapshot"} \cup Imports \cup {"hard", "send", "advance"}
  BY <1>3, <1>4 DEF UpInv, LoadInv
<1>6. /\ rd.snap \in Nat /\ rd.last \in Nat /\ rd.last \in Index0 /\ rd.last # Unset
      /\ rd.snap \in Index0 /\ rd.snap <= MaxLog
  <2>1. rd.snap \in Index0 /\ rd.last \in Index0
    BY TypeParts DEF ReadyRecord
  <2> QED BY <2>1, ConstantsAssumption DEF Index0, Unset
<1>7. rd.snap \in Index
  BY <1>5, <1>6, ConstantsAssumption DEF Index
<1>8. lead[rd.from] \in Log
  BY <1>5, TypeParts
<1>9. \A i \in 1 .. rd.last : lead[rd.from][i] \in Term /\ i \in Index
  <2>1. /\ Len(lead[rd.from]) \in Nat
        /\ \A i \in 1 .. Len(lead[rd.from]) : lead[rd.from][i] \in Term /\ i \in Index
    BY <1>8, LogIs
  <2>2. \A i \in 1 .. rd.last : i \in 1 .. Len(lead[rd.from])
    BY <1>5, <1>6, <2>1
  <2> QED BY <2>1, <2>2
<1>10. High = rd.snap
  BY <1>5, <1>6 DEF High, Larger
<1>11. disk.commit <= rd.snap /\ meta.index <= rd.snap /\ FirstIndex <= rd.snap + 1
  BY <1>3, <1>10 DEF UpInv, CoreInv
<1>12. "advance" \in Left
  BY <1>4 DEF Loading
<1> QED BY <1>1, <1>2, <1>3, <1>4, <1>5, <1>6, <1>7, <1>8, <1>9, <1>10, <1>11, <1>12

\* What a phase of an import has to show: the rest follows from the core, which
\* it leaves alone.
LEMMA ImportingKeeps ==
    ASSUME TypeOK, NodeInv, NEW p \in {"snapshot"} \cup Imports, At(p),
           PhasesOK', mode' = mode, UNCHANGED <<lead, cmt, mine, core, prev, acked, crashes>>,
           Left' \subseteq {"snapshot"} \cup Imports \cup {"hard", "send", "advance"},
           "advance" \in Left',
           disk' \in DiskRecord, meta' \in MetaRecord, rd' \in ReadyRecord,
           handled' \subseteq Index \X (0 .. MaxTerm), breaches' \subseteq Breach,
           rd'.snap = rd.snap, rd'.last = rd.last, rd'.from = rd.from, rd'.term = rd.term,
           rd'.first = rd.first, rd'.fresh = rd.fresh,
           disk'.commit <= rd.snap, meta'.index <= rd.snap, FirstIndex' <= rd.snap + 1,
           DiskInv', ImportInv', UnsavedInv', ~Importing' => LastIndex' >= rd.snap
    PROVE  TypeOK' /\ NodeInv'
<1>1. todo' \in Seq(PhaseName)
  BY DEF PhasesOK
<1>2. TypeOK'
  <2>1. mode' \in {"down", "up", "failed"} BY TypeParts
  <2> QED BY <1>1, <2>1, TypeParts, TypePartsNext
<1>3. /\ mode = "up" /\ UpInv /\ Importing /\ Loading /\ "advance" \in Left
      /\ rd.snap \in Nat /\ 1 <= rd.snap /\ High = rd.snap
      /\ core.commit = rd.snap /\ core.applied = rd.snap /\ core.persisted = rd.snap
      /\ Len(core.log) = rd.snap
  BY AtImport
<1>4. Loading' /\ Handing'
  BY <1>3 DEF Loading, Handing
<1>5. /\ "append" \notin Left' /\ "handle" \notin Left' /\ "create" \notin Left'
      /\ "lightHard" \notin Left' /\ "last" \notin Left'
  BY DEF Imports
<1>6. LoadInv
  BY <1>3 DEF UpInv
<1>7. CoreInv'
  <2>1. CoreInv BY <1>3 DEF UpInv
  <2>2. High' = High /\ Deliverable(core)' = Deliverable(core) BY DEF High, Deliverable
  <2>3. rd'.fresh = FALSE BY <1>3, <1>6 DEF LoadInv, Loading
  <2>4. core.applied < Deliverable(core) => "advance" \in Left' OBVIOUS
  <2>5. disk'.commit <= High' /\ meta'.index <= High' /\ FirstIndex' <= High' + 1
    BY <1>3, <2>2
  <2>6. core.role = "leader" => core.term \in Term /\ core.term \in mine /\ core.persisted = Len(core.log)
    BY <1>3, <2>1 DEF CoreInv
  <2> QED BY <1>4, <1>5, <2>1, <2>2, <2>3, <2>4, <2>5, <2>6 DEF CoreInv, Term
<1>8. HandleInv' /\ StoredInv' /\ AppendInv'
  BY <1>4, <1>5 DEF HandleInv, StoredInv, AppendInv
<1>9. LoadInv'
  <2>1. LoadInv!2
    BY <1>3, <1>6 DEF LoadInv
  <2> QED BY <1>4, <2>1 DEF LoadInv, Term, Same, Unset, Imports
<1>10. Ordered(todo')
  BY DEF PhasesOK
<1> QED BY <1>2, <1>3, <1>7, <1>8, <1>9, <1>10 DEF NodeInv, UpInv, PhasesOK, Ordered

\* apply_snapshot: refused when the storage is past the snapshot, or begun.
LEMMA ApplySnapshotKeeps ==
    ASSUME TypeOK, NodeInv, ApplySnapshot
    PROVE  TypeOK' /\ NodeInv'
<1>1. /\ At("snapshot")
      /\ UNCHANGED <<lead, cmt, mine, disk, core, prev, rd, mode, acked, handled, breaches, crashes>>
  BY DEF ApplySnapshot, history
<1>2. /\ PhasesOK /\ mode = "up" /\ "snapshot" \in Left /\ Importing /\ Loading
      /\ \A q \in Left : q = "snapshot" \/ Rank("snapshot") < Rank(q)
      /\ UpInv /\ DiskInv
      /\ Left \subseteq {"snapshot"} \cup Imports \cup {"hard", "send", "advance"}
      /\ "advance" \in Left
      /\ rd.snap \in Nat /\ 1 <= rd.snap /\ rd.snap <= rd.last
      /\ rd.snap \in Index0 /\ rd.last \in Nat
      /\ rd.term \in Term
      /\ core.commit = rd.snap /\ core.applied = rd.snap /\ core.persisted = rd.snap
      /\ disk.commit <= rd.snap /\ meta.index <= rd.snap /\ FirstIndex <= rd.snap + 1
  BY <1>1, AtImport
<1>3. /\ Left \cap Imports = {} /\ rd.left = 1 .. rd.last
      /\ FirstIndex > rd.snap =>
             /\ LastIndex >= rd.snap
             /\ disk.last = Unset => disk.commit = rd.snap /\ meta.index = rd.snap
  BY <1>2 DEF UpInv, ImportInv
<1>4. /\ disk' \in DiskRecord /\ rd' \in ReadyRecord
      /\ handled' \subseteq Index \X (0 .. MaxTerm) /\ breaches' \subseteq Breach
      /\ rd'.snap = rd.snap /\ rd'.last = rd.last /\ rd'.from = rd.from /\ rd'.term = rd.term
      /\ rd'.first = rd.first /\ rd'.fresh = rd.fresh /\ disk'.commit <= rd.snap
      /\ UNCHANGED <<lead, cmt, mine, core, prev, acked, crashes>> /\ mode' = mode
  BY <1>1, <1>2, TypeParts
<1>5. DiskInv'
  BY <1>1, <1>2 DEF DiskInv, StoredEnd, Unset, Index
<1>6. CASE FirstIndex > rd.snap
  <2>1. Then(<<>>) /\ meta' = meta
    BY <1>6 DEF ApplySnapshot
  <2>2. PhasesOK' /\ Left' = Left \ {"snapshot"}
    BY <1>1, <1>2, <2>1, ThenNothing
  <2>3. ~Importing'
    BY <1>3, <2>2 DEF Importing
  <2>4. ImportInv'
    BY <1>3, <2>2, <2>3 DEF ImportInv
  <2>5. UnsavedInv'
    <3>1. disk.last = Unset => disk.commit = rd.snap /\ meta.index = rd.snap
      BY <1>3, <1>6
    <3>2. "handle" \notin Left' /\ "create" \notin Left'
      BY <1>2, <2>2 DEF Imports
    <3>3. rd.snap <= rd.snap
      BY <1>2
    <3> QED BY <1>1, <1>2, <2>1, <3>1, <3>2, <3>3 DEF UnsavedInv, Unset
  <2>6. LastIndex' >= rd.snap
    BY <1>1, <1>3, <1>6, <2>1 DEF LastIndex, Unset
  <2>7. /\ meta' \in MetaRecord /\ meta'.index <= rd.snap /\ FirstIndex' <= rd.snap + 1
    BY <1>1, <1>2, <2>1, TypeParts DEF FirstIndex, Unset
  <2>8. /\ Left' \subseteq {"snapshot"} \cup Imports \cup {"hard", "send", "advance"}
        /\ "advance" \in Left'
    BY <1>2, <2>2
  <2> QED BY <1>1, <1>4, <1>5, <2>2, <2>4, <2>5, <2>6, <2>7, <2>8, ImportingKeeps
<1>7. CASE ~(FirstIndex > rd.snap)
  <2> DEFINE ps == <<"importEntry", "importFirst", "importHard", "importLast", "adopt">>
  <2>1. Then(ps) /\ meta' = [index |-> rd.snap, term |-> rd.term]
    BY <1>7 DEF ApplySnapshot
  <2>2. ps \in Seq(PhaseName) /\ Ordered(ps) /\ SetOf(ps) = Imports
    BY ImportPhasesAre
  <2> HIDE DEF ps
  <2>3. \A r \in SetOf(ps), q \in Left : q = "snapshot" \/ Rank(r) < Rank(q)
    BY <1>2, <1>3, <2>2 DEF Imports, Rank
  <2>4. PhasesOK' /\ Left' = Imports \cup (Left \ {"snapshot"})
    BY <1>1, <1>2, <2>1, <2>2, <2>3, ThenPhases
  <2>5. Importing' /\ Loading' /\ "snapshot" \notin Left'
    BY <1>1, <1>2, <2>4 DEF Importing, Loading, Imports
  <2>6. meta'.index = rd.snap /\ meta' \in MetaRecord
    BY <1>2, <2>1 DEF MetaRecord, Term
  <2>7. ImportInv'
    <3>1. "adopt" \in Left' /\ "importEntry" \in Left' /\ "importLast" \in Left'
      BY <2>4 DEF Imports
    <3>2. rd.left # {}
      <4>1. 1 \in rd.left BY <1>2, <1>3
      <4> QED BY <4>1
    <3>3. Waiting' = 1 .. rd.last
      BY <1>1, <1>3, <3>1 DEF Waiting
    <3> QED BY <1>1, <1>3, <2>5, <2>6, <3>1, <3>2, <3>3 DEF ImportInv
  <2>8. FirstIndex' <= rd.snap + 1
    <3>1. FirstIndex' = IF disk.first = Unset THEN rd.snap + 1 ELSE disk.first
      BY <1>1, <2>6 DEF FirstIndex, Unset
    <3>2. disk.first # Unset => disk.first = FirstIndex
      BY DEF FirstIndex
    <3>3. rd.snap + 1 <= rd.snap + 1
      BY <1>2
    <3> QED BY <1>2, <3>1, <3>2, <3>3
  <2>9. UnsavedInv'
    BY <2>5 DEF UnsavedInv
  <2>10. meta'.index <= rd.snap
    BY <1>2, <2>6
  <2>11. /\ Left' \subseteq {"snapshot"} \cup Imports \cup {"hard", "send", "advance"}
         /\ "advance" \in Left'
    BY <1>2, <2>4 DEF Imports
  <2> QED BY <1>1, <1>4, <1>5, <2>4, <2>5, <2>6, <2>7, <2>8, <2>9, <2>10, <2>11, ImportingKeeps
<1> QED BY <1>6, <1>7
\* write_all's entries, in any order: one more is the leader's.
LEMMA ImportEntryKeeps ==
    ASSUME TypeOK, NodeInv, ImportEntry
    PROVE  TypeOK' /\ NodeInv'
<1>1. PICK i \in rd.left :
        /\ disk' = [disk EXCEPT !.log[i] = lead[rd.from][i]]
        /\ rd' = [rd EXCEPT !.left = rd.left \ {i}]
        /\ Then(Phase(rd.left # {i}, "importEntry"))
        /\ At("importEntry")
        /\ UNCHANGED <<lead, cmt, mine, meta, core, prev, mode, acked, handled, breaches, crashes>>
  BY DEF ImportEntry, Import, history
<1>2. /\ PhasesOK /\ mode = "up" /\ "importEntry" \in Left /\ Importing /\ Loading
      /\ \A q \in Left : q = "importEntry" \/ Rank("importEntry") < Rank(q)
      /\ UpInv /\ DiskInv
      /\ Left \subseteq {"snapshot"} \cup Imports \cup {"hard", "send", "advance"}
      /\ "advance" \in Left
      /\ rd.last \in Nat
      /\ \A j \in 1 .. rd.last : lead[rd.from][j] \in Term /\ j \in Index
      /\ disk.commit <= rd.snap /\ meta.index <= rd.snap /\ FirstIndex <= rd.snap + 1
  BY <1>1, AtImport DEF Imports
<1>3. /\ "snapshot" \notin Left /\ "adopt" \in Left /\ meta.index = rd.snap
      /\ rd.left # {} /\ rd.left \subseteq 1 .. rd.last /\ Waiting = rd.left
      /\ \A j \in (1 .. rd.last) \ rd.left : disk.log[j] = lead[rd.from][j]
      /\ "importLast" \notin Left => disk.last = rd.last
  BY <1>2 DEF UpInv, ImportInv, Imports, Waiting
<1>4. i \in 1 .. rd.last /\ i \in Index /\ lead[rd.from][i] \in Term
  BY <1>2, <1>3
<1>5. disk \in DiskRecord /\ rd \in ReadyRecord /\ meta \in MetaRecord
  BY TypeParts
<1>6. lead[rd.from][i] \in 0 .. MaxTerm /\ lead[rd.from][i] # 0
  BY <1>4, ConstantsAssumption DEF Term
<1>7. /\ disk' \in DiskRecord /\ disk'.commit = disk.commit /\ disk'.first = disk.first
      /\ disk'.last = disk.last
      /\ \A j \in Index : disk'.log[j] = IF j = i THEN lead[rd.from][i] ELSE disk.log[j]
  BY <1>1, <1>4, <1>5, <1>6 DEF DiskRecord
<1>8. /\ rd' \in ReadyRecord /\ rd'.left = rd.left \ {i}
      /\ rd'.snap = rd.snap /\ rd'.last = rd.last /\ rd'.from = rd.from /\ rd'.term = rd.term
      /\ rd'.first = rd.first /\ rd'.fresh = rd.fresh
  BY <1>1, <1>5 DEF ReadyRecord
<1>9. PhasesOK' /\ Left' = (IF rd.left # {i} THEN {"importEntry"} ELSE {}) \cup (Left \ {"importEntry"})
  <2> DEFINE ps == Phase(rd.left # {i}, "importEntry")
  <2>1. /\ ps \in Seq(PhaseName) /\ Ordered(ps)
        /\ SetOf(ps) = IF rd.left # {i} THEN {"importEntry"} ELSE {}
    BY PhaseIs DEF PhaseName
  <2>2. Then(ps) BY <1>1
  <2> HIDE DEF ps
  <2>3. \A r \in SetOf(ps), q \in Left : q = "importEntry" \/ Rank(r) < Rank(q)
    BY <1>2, <2>1
  <2>4. PhasesOK' /\ Left' = SetOf(ps) \cup (Left \ {"importEntry"})
    BY <1>1, <1>2, <2>1, <2>2, <2>3, ThenPhases
  <2> QED BY <2>1, <2>4
<1>10. DiskInv'
  <2>1. StoredEnd' = StoredEnd BY <1>7 DEF StoredEnd, Unset
  <2> QED BY <1>1, <1>2, <1>6, <1>7, <2>1 DEF DiskInv, Index
<1>11. "adopt" \in Left' /\ "snapshot" \notin Left' /\ Importing' /\ Loading'
  BY <1>2, <1>3, <1>8, <1>9 DEF Importing, Loading, Imports
<1>12. ImportInv'
  <2>1. Waiting' = rd.left \ {i}
    BY <1>8, <1>9 DEF Waiting
  <2>2. \A j \in (1 .. rd.last) \ (rd.left \ {i}) : disk'.log[j] = lead[rd.from][j]
    BY <1>2, <1>3, <1>7
  <2>3. "importEntry" \in Left' => rd'.left # {} /\ rd'.left \subseteq 1 .. rd.last
    BY <1>3, <1>4, <1>8, <1>9
  <2>4. "importLast" \notin Left' => disk'.last = rd.last
    BY <1>3, <1>7, <1>9
  <2> QED BY <1>1, <1>3, <1>8, <1>11, <2>1, <2>2, <2>3, <2>4 DEF ImportInv
<1>13. UnsavedInv'
  BY <1>11 DEF UnsavedInv
<1>14. FirstIndex' = FirstIndex
  BY <1>1, <1>7 DEF FirstIndex, Unset
<1>15. /\ Left' \subseteq {"snapshot"} \cup Imports \cup {"hard", "send", "advance"}
       /\ "advance" \in Left'
  BY <1>2, <1>9 DEF Imports
<1>16. /\ handled' \subseteq Index \X (0 .. MaxTerm) /\ breaches' \subseteq Breach /\ meta' \in MetaRecord
  BY <1>1, TypeParts
<1>17. disk'.commit <= rd.snap /\ meta'.index <= rd.snap /\ FirstIndex' <= rd.snap + 1
  BY <1>1, <1>2, <1>7, <1>14
<1>18. "importEntry" \in {"snapshot"} \cup Imports
  BY DEF Imports
<1> QED BY <1>1, <1>7, <1>8, <1>9, <1>10, <1>11, <1>12, <1>13, <1>15, <1>16, <1>17, <1>18,
           ImportingKeeps

\* After the entries, one key of write_all at a time.
LEMMA ImportKeyKeeps ==
    ASSUME TypeOK, NodeInv, NEW p \in {"importFirst", "importHard", "importLast"}, At(p), Then(<<>>),
           UNCHANGED <<lead, cmt, mine, meta, core, prev, rd, mode, acked, handled, breaches, crashes>>,
           disk' \in DiskRecord, disk'.log = disk.log,
           disk'.commit = disk.commit \/ disk'.commit = rd.snap,
           disk'.first = disk.first \/ disk'.first <= rd.snap,
           disk'.last = IF p = "importLast" THEN rd.last ELSE disk.last
    PROVE  TypeOK' /\ NodeInv'
<1>0. p \in {"snapshot"} \cup Imports
  BY DEF Imports
<1>1. /\ PhasesOK /\ mode = "up" /\ p \in Left /\ Importing /\ Loading
      /\ \A q \in Left : q = p \/ Rank(p) < Rank(q)
      /\ UpInv /\ DiskInv
      /\ Left \subseteq {"snapshot"} \cup Imports \cup {"hard", "send", "advance"}
      /\ "advance" \in Left
      /\ rd.snap \in Nat /\ rd.last \in Nat /\ rd.last # Unset /\ rd.snap <= rd.last
      /\ \A i \in 1 .. rd.last : lead[rd.from][i] \in Term /\ i \in Index
      /\ disk.commit <= rd.snap /\ meta.index <= rd.snap /\ FirstIndex <= rd.snap + 1
  BY <1>0, AtImport
<1>2. "importEntry" \notin Left /\ "snapshot" \notin Left /\ p \in Imports
  BY <1>1 DEF Rank, Imports
<1>3. /\ "adopt" \in Left /\ meta.index = rd.snap
      /\ \A i \in 1 .. rd.last : disk.log[i] = lead[rd.from][i]
      /\ "importLast" \notin Left => disk.last = rd.last
  BY <1>1, <1>2 DEF UpInv, ImportInv, Waiting
<1>4. PhasesOK' /\ Left' = Left \ {p}
  BY <1>1, ThenNothing
<1>5. "adopt" \in Left' /\ "snapshot" \notin Left' /\ "importEntry" \notin Left' /\ Importing'
  BY <1>2, <1>3, <1>4 DEF Importing, Imports
<1>6. DiskInv'
  <2>1. \A i \in Index : i <= rd.last => disk.log[i] # 0
    BY <1>1, <1>3 DEF Index, Term
  <2>2. StoredEnd' = StoredEnd \/ StoredEnd' = rd.last \/ StoredEnd' = rd.snap
    BY <1>1 DEF StoredEnd, Unset
  <2>3. \A i \in Index : i <= rd.snap => i <= rd.last
    BY <1>1 DEF Index
  <2> QED BY <1>1, <2>1, <2>2, <2>3 DEF DiskInv, Index
<1>7. ImportInv'
  <2>1. "importLast" \notin Left' => disk'.last = rd.last
    BY <1>3, <1>4
  <2>2. Waiting' = {}
    BY <1>5 DEF Waiting
  <2>3. Loading'
    BY <1>1, <1>4 DEF Loading
  <2> QED BY <1>3, <1>5, <2>1, <2>2, <2>3 DEF ImportInv
<1>8. UnsavedInv'
  BY <1>5 DEF UnsavedInv
<1>9. FirstIndex' <= rd.snap + 1
  <2>1. FirstIndex' = (IF disk'.first = Unset THEN meta.index + 1 ELSE disk'.first)
    BY DEF FirstIndex, Unset
  <2>2. FirstIndex = (IF disk.first = Unset THEN meta.index + 1 ELSE disk.first)
    BY DEF FirstIndex
  <2>3. CASE disk'.first = disk.first
    BY <1>1, <2>1, <2>2, <2>3
  <2>4. CASE disk'.first <= rd.snap /\ disk'.first # Unset
    <3>1. disk'.first \in Nat
      <4>1. Unset \in Nat BY ConstantsAssumption DEF Unset
      <4> QED BY <4>1 DEF DiskRecord
    <3> QED BY <1>1, <2>1, <2>4, <3>1
  <2>5. CASE disk'.first = Unset
    BY <1>1, <1>3, <2>1, <2>5
  <2> QED BY <2>3, <2>4, <2>5
<1>10. /\ Left' \subseteq {"snapshot"} \cup Imports \cup {"hard", "send", "advance"}
       /\ "advance" \in Left'
  BY <1>1, <1>4 DEF Imports
<1>11. /\ handled' \subseteq Index \X (0 .. MaxTerm) /\ breaches' \subseteq Breach
       /\ meta' \in MetaRecord /\ rd' \in ReadyRecord
  BY TypeParts
<1>12. disk'.commit <= rd.snap /\ meta'.index <= rd.snap
  BY <1>1, <1>3
<1> QED BY <1>0, <1>4, <1>5, <1>6, <1>7, <1>8, <1>9, <1>10, <1>11, <1>12, ImportingKeeps

\* The three keys.
LEMMA ImportFirstKeeps ==
    ASSUME TypeOK, NodeInv, ImportFirst
    PROVE  TypeOK' /\ NodeInv'
<1>1. /\ At("importFirst") /\ Then(<<>>)
      /\ disk' = [disk EXCEPT !.first = IF rd.first = Unset THEN disk.first ELSE rd.first]
      /\ UNCHANGED <<lead, cmt, mine, meta, core, prev, rd, mode, acked, handled, breaches, crashes>>
  BY DEF ImportFirst, Import, history
<1>2. rd.first \in 1 .. rd.snap \cup {Unset} /\ rd.snap \in Nat
  <2>1. Loading /\ UpInv /\ rd.snap \in Nat BY <1>1, AtImport DEF Imports
  <2> QED BY <2>1 DEF UpInv, LoadInv
<1>3. disk \in DiskRecord /\ rd.first \in 0 .. Unset
  BY TypeParts DEF ReadyRecord
<1>4. /\ disk' \in DiskRecord /\ disk'.log = disk.log /\ disk'.commit = disk.commit
      /\ disk'.last = disk.last
      /\ disk'.first = IF rd.first = Unset THEN disk.first ELSE rd.first
  BY <1>1, <1>3 DEF DiskRecord
<1>5. disk'.first = disk.first \/ disk'.first <= rd.snap
  BY <1>2, <1>4
<1> QED BY <1>1, <1>4, <1>5, ImportKeyKeeps

LEMMA ImportHardKeeps ==
    ASSUME TypeOK, NodeInv, ImportHard
    PROVE  TypeOK' /\ NodeInv'
<1>1. /\ At("importHard") /\ Then(<<>>)
      /\ disk' = [disk EXCEPT !.term = rd.term, !.vote = 2, !.commit = rd.snap]
      /\ UNCHANGED <<lead, cmt, mine, meta, core, prev, rd, mode, acked, handled, breaches, crashes>>
  BY DEF ImportHard, Import, history
<1>3. disk \in DiskRecord /\ rd \in ReadyRecord
  BY TypeParts
<1>4. /\ disk' \in DiskRecord /\ disk'.log = disk.log /\ disk'.commit = rd.snap
      /\ disk'.last = disk.last /\ disk'.first = disk.first
  BY <1>1, <1>3 DEF DiskRecord, ReadyRecord, Candidates
<1> QED BY <1>1, <1>4, ImportKeyKeeps

LEMMA ImportLastKeeps ==
    ASSUME TypeOK, NodeInv, ImportLast
    PROVE  TypeOK' /\ NodeInv'
<1>1. /\ At("importLast") /\ Then(<<>>)
      /\ disk' = [disk EXCEPT !.last = rd.last]
      /\ UNCHANGED <<lead, cmt, mine, meta, core, prev, rd, mode, acked, handled, breaches, crashes>>
  BY DEF ImportLast, Import, history, LastImported
<1>3. disk \in DiskRecord /\ rd \in ReadyRecord
  BY TypeParts
<1>4. rd.last \in 0 .. Unset
  BY <1>3, ConstantsAssumption DEF ReadyRecord, Index0, Unset
<1>5. /\ disk' \in DiskRecord /\ disk'.log = disk.log /\ disk'.commit = disk.commit
      /\ disk'.last = rd.last /\ disk'.first = disk.first
  BY <1>1, <1>3, <1>4 DEF DiskRecord
<1> QED BY <1>1, <1>5, ImportKeyKeeps

\* The end of an import: apply_snapshot's own hard state, and the users' keys.
LEMMA AdoptSnapshotKeeps ==
    ASSUME TypeOK, NodeInv, AdoptSnapshot
    PROVE  TypeOK' /\ NodeInv'
<1>1. /\ At("adopt") /\ Then(<<>>)
      /\ disk' = [disk EXCEPT !.term = Larger(disk.term, meta.term), !.commit = meta.index]
      /\ handled' = handled \cup {<<i, lead[rd.from][i]>> : i \in 1 .. meta.index}
      /\ breaches' = IF rd.last > rd.snap THEN breaches \cup {"ahead"} ELSE breaches
      /\ UNCHANGED <<lead, cmt, mine, meta, core, prev, rd, mode, acked, crashes>>
  BY DEF AdoptSnapshot, history
<1>2. /\ PhasesOK /\ mode = "up" /\ "adopt" \in Left /\ Importing /\ Loading
      /\ \A q \in Left : q = "adopt" \/ Rank("adopt") < Rank(q)
      /\ UpInv /\ DiskInv
      /\ Left \subseteq {"snapshot"} \cup Imports \cup {"hard", "send", "advance"}
      /\ "advance" \in Left
      /\ rd.snap \in Nat /\ rd.last \in Nat /\ rd.last # Unset /\ rd.snap <= rd.last
      /\ rd.snap \in Index0
      /\ \A i \in 1 .. rd.last : lead[rd.from][i] \in Term /\ i \in Index
      /\ disk.commit <= rd.snap /\ meta.index <= rd.snap /\ FirstIndex <= rd.snap + 1
  BY <1>1, AtImport DEF Imports
<1>3. Left \cap ({"snapshot"} \cup Imports) = {"adopt"}
  BY <1>2 DEF Rank, Imports
<1>4. /\ meta.index = rd.snap /\ disk.last = rd.last
      /\ \A i \in 1 .. rd.last : disk.log[i] = lead[rd.from][i]
  <2>1. "importEntry" \notin Left /\ "importLast" \notin Left /\ Left \cap Imports # {}
    BY <1>3 DEF Imports
  <2> QED BY <1>2, <2>1 DEF UpInv, ImportInv, Waiting
<1>5. PhasesOK' /\ Left' = Left \ {"adopt"}
  BY <1>1, <1>2, ThenNothing
<1>6. ~Importing' /\ "snapshot" \notin Left' /\ Left' \cap Imports = {}
  BY <1>3, <1>5 DEF Importing
<1>7. disk \in DiskRecord /\ meta \in MetaRecord
  BY TypeParts
<1>8. /\ disk' \in DiskRecord /\ disk'.log = disk.log /\ disk'.commit = rd.snap
      /\ disk'.last = rd.last /\ disk'.first = disk.first
  <2>1. Larger(disk.term, meta.term) \in 0 .. MaxTerm
    BY <1>7 DEF DiskRecord, MetaRecord, Larger
  <2> QED BY <1>1, <1>2, <1>4, <1>7, <2>1 DEF DiskRecord
<1>9. DiskInv'
  <2>1. StoredEnd' = rd.last
    BY <1>2, <1>8 DEF StoredEnd, Unset
  <2>2. \A i \in Index : i <= rd.last => disk.log[i] # 0
    BY <1>2, <1>4 DEF Index, Term
  <2> QED BY <1>1, <1>2, <1>8, <2>1, <2>2 DEF DiskInv, Index
<1>10. ImportInv' /\ UnsavedInv'
  BY <1>2, <1>6, <1>8 DEF ImportInv, UnsavedInv, Unset
<1>11. LastIndex' >= rd.snap
  BY <1>2, <1>8 DEF LastIndex, Unset
<1>12. FirstIndex' = FirstIndex
  BY <1>1, <1>8 DEF FirstIndex, Unset
<1>13. /\ Left' \subseteq {"snapshot"} \cup Imports \cup {"hard", "send", "advance"}
       /\ "advance" \in Left'
  BY <1>2, <1>5 DEF Imports
<1>14. handled' \subseteq Index \X (0 .. MaxTerm)
  <2>1. \A i \in 1 .. meta.index : i \in 1 .. rd.last BY <1>2, <1>4
  <2>2. \A i \in 1 .. rd.last : lead[rd.from][i] \in 0 .. MaxTerm /\ i \in Index
    BY <1>2, ConstantsAssumption DEF Term
  <2> QED BY <1>1, <2>1, <2>2, TypeParts
<1>15. breaches' \subseteq Breach /\ meta' \in MetaRecord /\ rd' \in ReadyRecord
  BY <1>1, TypeParts DEF Breach
<1>16. disk'.commit <= rd.snap /\ meta'.index <= rd.snap /\ FirstIndex' <= rd.snap + 1
  BY <1>1, <1>2, <1>4, <1>8, <1>12
<1>17. "adopt" \in {"snapshot"} \cup Imports
  BY DEF Imports
<1> QED BY <1>1, <1>5, <1>8, <1>9, <1>10, <1>11, <1>13, <1>14, <1>15, <1>16, <1>17, ImportingKeeps
-----------------------------------------------------------------------------
(* append, and what is handled. *)

\* At append: what it has still to put, and that nothing is being imported.
LEMMA AtAppend ==
    ASSUME TypeOK, NodeInv, "append" \in Left, mode = "up"
    PROVE  /\ UpInv /\ DiskInv /\ ~Importing /\ ~Loading /\ "advance" \in Left
           /\ rd.fresh /\ core.persisted < rd.next /\ rd.next <= Len(core.log)
           /\ rd.next \in 1 .. Len(core.log) /\ rd.next \in Index
           /\ Same(disk.log, core.log, rd.next - 1)
           /\ disk.commit <= core.persisted /\ FirstIndex <= core.persisted + 1
           /\ LastIndex + 1 >= rd.next
           /\ "last" \in Left => disk.log[rd.next] = core.log[rd.next]
<1>1. UpInv /\ DiskInv
  BY DEF NodeInv
<1>2. /\ "advance" \in Left
      /\ rd.fresh /\ core.persisted < rd.next /\ rd.next <= Len(core.log)
      /\ Same(disk.log, core.log, rd.next - 1)
      /\ disk.commit <= core.persisted /\ FirstIndex <= core.persisted + 1
      /\ LastIndex + 1 >= rd.next
      /\ "last" \in Left => disk.log[rd.next] = core.log[rd.next]
  BY <1>1 DEF UpInv, AppendInv
<1>3. /\ rd.next \in Nat /\ core.persisted \in Nat /\ Len(core.log) \in Nat
      /\ \A i \in 1 .. Len(core.log) : i \in Index
  BY Fields
<1>4. rd.next \in 1 .. Len(core.log) /\ rd.next \in Index
  BY <1>2, <1>3
<1>5. ~Loading /\ ~Importing
  BY <1>1, <1>2 DEF UpInv, LoadInv, ImportInv
<1> QED BY <1>1, <1>2, <1>4, <1>5

\* One entry of append.
LEMMA AppendEntryKeeps ==
    ASSUME TypeOK, NodeInv, AppendEntry
    PROVE  TypeOK' /\ NodeInv'
<1>1. /\ At("append") /\ todo' = <<"last">> \o todo
      /\ disk' = [disk EXCEPT !.log[rd.next] = core.log[rd.next]]
      /\ UNCHANGED <<lead, cmt, mine, meta, core, prev, rd, mode, acked, handled, breaches, crashes>>
  BY DEF AppendEntry, history
<1>2. PhasesOK
  BY Phases
<1>3. /\ mode = "up" /\ "append" \in Left
      /\ PhasesOK' /\ Left' = {"last"} \cup Left
  BY <1>1, <1>2, AtPhase, AppendPhases
<1>4. /\ UpInv /\ DiskInv /\ ~Importing /\ ~Loading /\ "advance" \in Left
      /\ rd.next \in 1 .. Len(core.log) /\ rd.next \in Index
      /\ Same(disk.log, core.log, rd.next - 1)
  BY <1>3, AtAppend
<1>5. core.log[rd.next] \in 0 .. MaxTerm /\ core.log[rd.next] # 0 /\ rd.next \in Nat
  <2>1. core.log[rd.next] \in Term /\ core.log[rd.next] # 0 /\ rd.next \in Nat BY <1>4, Fields
  <2> QED BY <2>1, ConstantsAssumption DEF Term
<1>6. disk \in DiskRecord
  BY TypeParts
<1>7. /\ disk' \in DiskRecord /\ disk'.commit = disk.commit /\ disk'.first = disk.first
      /\ disk'.last = disk.last
      /\ \A j \in Index : disk'.log[j] = IF j = rd.next THEN core.log[rd.next] ELSE disk.log[j]
  BY <1>1, <1>4, <1>5, <1>6 DEF DiskRecord
<1>8. TypeOK'
  <2>1. todo' \in Seq(PhaseName) BY <1>3 DEF PhasesOK
  <2> QED BY <1>1, <1>7, <2>1, TypeParts, TypePartsNext
<1>9. FirstIndex' = FirstIndex /\ LastIndex' = LastIndex /\ StoredEnd' = StoredEnd
  BY <1>1, <1>7 DEF FirstIndex, LastIndex, StoredEnd, Unset
<1>10. /\ ~Importing' /\ ~Loading' /\ (Handing' <=> Handing)
       /\ \A q \in PhaseName : q # "last" => (q \in Left' <=> q \in Left)
  BY <1>1, <1>3, <1>4 DEF Importing, Loading, Handing, Imports
<1>11. CoreInv'
  <2>1. CoreInv BY <1>4 DEF UpInv
  <2>2. High' = High /\ Deliverable(core)' = Deliverable(core) BY <1>1 DEF High, Deliverable
  <2>3. "lightHard" \notin Left
    BY <1>3, <2>1 DEF CoreInv
  <2>4. "lightHard" \notin Left' /\ ("create" \in Left' <=> "create" \in Left) BY <1>3, <2>3
  <2> QED BY <1>1, <1>3, <1>7, <1>9, <1>10, <2>1, <2>2, <2>3, <2>4 DEF CoreInv, Term
<1>12. HandleInv'
  <2>1. HandleInv BY <1>4 DEF UpInv
  <2> QED BY <1>1, <1>3, <1>5, <1>7, <1>10, <2>1 DEF HandleInv, Deliverable, Index
<1>13. StoredInv' /\ LoadInv' /\ ImportInv'
  BY <1>3, <1>10 DEF StoredInv, LoadInv, ImportInv, Importing, Imports
<1>14. UnsavedInv'
  BY <1>1, <1>3, <1>4, <1>7 DEF UpInv, UnsavedInv, Unset
<1>15. AppendInv'
  <2>1. Same(disk'.log, core.log, rd.next - 1)
    <3>1. \A i \in 1 .. rd.next - 1 : i \in 1 .. Len(core.log) /\ i # rd.next
      <4>1. rd.next <= Len(core.log) /\ Len(core.log) \in Nat /\ rd.next \in Nat
        BY <1>4, <1>5, Fields
      <4> QED BY <4>1, SMT
    <3>2. \A i \in 1 .. rd.next - 1 : i \in Index
      BY <3>1, Fields
    <3> QED BY <1>4, <1>7, <3>1, <3>2 DEF Same
  <2>2. disk'.log[rd.next] = core.log[rd.next] BY <1>4, <1>7
  <2>3. AppendInv BY <1>4 DEF UpInv
  <2> QED BY <1>1, <1>3, <1>7, <1>9, <2>1, <2>2, <2>3 DEF AppendInv
<1>16. DiskInv'
  BY <1>1, <1>3, <1>4, <1>5, <1>7, <1>9 DEF DiskInv, Index
<1> QED BY <1>3, <1>8, <1>11, <1>12, <1>13, <1>14, <1>15, <1>16 DEF NodeInv, UpInv, PhasesOK

\* last_index after it.
LEMMA AppendLastKeeps ==
    ASSUME TypeOK, NodeInv, AppendLast
    PROVE  TypeOK' /\ NodeInv'
<1>1. /\ At("last") /\ disk' = [disk EXCEPT !.last = rd.next]
      /\ rd' = [rd EXCEPT !.next = rd.next + 1]
      /\ todo' = IF rd.next = Len(core.log) THEN Tail(Tail(todo)) ELSE Tail(todo)
      /\ UNCHANGED <<lead, cmt, mine, meta, core, prev, mode, acked, handled, breaches, crashes>>
  BY DEF AppendLast, SaveLast, history
<1>2. PhasesOK
  BY Phases
<1>3. mode = "up" /\ "last" \in Left /\ "append" \in Left
  <2>1. mode = "up" /\ "last" \in Left BY <1>1, <1>2, AtPhase
  <2> QED BY <2>1 DEF NodeInv, UpInv, AppendInv
<1>4. /\ UpInv /\ DiskInv /\ ~Importing /\ ~Loading /\ "advance" \in Left
      /\ core.persisted < rd.next /\ rd.fresh
      /\ rd.next \in 1 .. Len(core.log) /\ rd.next \in Index
      /\ Same(disk.log, core.log, rd.next - 1) /\ disk.log[rd.next] = core.log[rd.next]
      /\ disk.commit <= core.persisted /\ FirstIndex <= core.persisted + 1
  BY <1>3, AtAppend
<1>5. /\ MaxLog \in Nat /\ Unset = MaxLog + 1 /\ Len(core.log) \in Nat /\ Len(core.log) <= MaxLog
      /\ rd.next \in Nat /\ core.persisted \in Nat
      /\ \A i \in 1 .. Len(core.log) : core.log[i] # 0 /\ i \in Index
  BY Fields
<1>6. /\ PhasesOK' /\ Left' = IF rd.next = Len(core.log) THEN Left \ {"last", "append"} ELSE Left \ {"last"}
  BY <1>1, <1>2, <1>3, AppendPhases
<1>7. disk \in DiskRecord /\ rd \in ReadyRecord
  BY TypeParts
<1>8. rd.next \in 0 .. Unset /\ rd.next # Unset /\ rd.next + 1 \in 0 .. MaxLog + 1
  <2>1. rd.next <= MaxLog BY <1>4, <1>5, SMT
  <2> QED BY <1>5, <2>1, SMT
<1>9. /\ disk' \in DiskRecord /\ disk'.commit = disk.commit /\ disk'.first = disk.first
      /\ disk'.last = rd.next /\ disk'.log = disk.log
  BY <1>1, <1>7, <1>8 DEF DiskRecord
<1>10. /\ rd' \in ReadyRecord /\ rd'.next = rd.next + 1 /\ rd'.fresh = rd.fresh
       /\ rd'.upto = rd.upto /\ rd'.extra = rd.extra /\ rd'.snap = rd.snap
  BY <1>1, <1>7, <1>8 DEF ReadyRecord
<1>11. TypeOK'
  <2>1. todo' \in Seq(PhaseName) BY <1>6 DEF PhasesOK
  <2> QED BY <1>1, <1>9, <1>10, <2>1, TypeParts, TypePartsNext
<1>12. FirstIndex' = FirstIndex /\ LastIndex' = rd.next /\ StoredEnd' = rd.next
  BY <1>1, <1>8, <1>9 DEF FirstIndex, LastIndex, StoredEnd, Unset
<1>13. Same(disk.log, core.log, rd.next)
  <2>1. \A i \in 1 .. rd.next : i \in 1 .. rd.next - 1 \/ i = rd.next BY <1>5
  <2> QED BY <1>4, <2>1 DEF Same
<1>14. /\ ~Importing' /\ ~Loading' /\ (Handing' <=> Handing)
       /\ \A q \in PhaseName : q \notin {"last", "append"} => (q \in Left' <=> q \in Left)
       /\ Left' \subseteq Left /\ "last" \notin Left'
  BY <1>4, <1>6, <1>10 DEF Importing, Loading, Handing, Imports
<1>15. CoreInv'
  <2>1. CoreInv BY <1>4 DEF UpInv
  <2>2. High' = High /\ Deliverable(core)' = Deliverable(core) BY <1>1 DEF High, Deliverable
  <2>3. {"handle", "advance", "create", "lightHard"} \subseteq PhaseName BY DEF PhaseName
  <2> QED BY <1>1, <1>9, <1>10, <1>12, <1>14, <2>1, <2>2, <2>3 DEF CoreInv, Term
<1>16. HandleInv'
  <2>1. HandleInv BY <1>4 DEF UpInv
  <2> QED BY <1>1, <1>9, <1>10, <1>14, <2>1 DEF HandleInv, Deliverable, Index
<1>17. LoadInv' /\ ImportInv'
  BY <1>14 DEF LoadInv, ImportInv, Importing, Imports
<1>18. UnsavedInv'
  BY <1>8, <1>9 DEF UnsavedInv, Unset
<1>19. StoredInv'
  <2>1. ASSUME "append" \notin Left' PROVE rd.next = Len(core.log)
    BY <1>3, <1>6, <2>1
  <2> QED BY <1>1, <1>9, <1>12, <1>13, <2>1 DEF StoredInv
<1>20. AppendInv'
  <2>1. ASSUME "append" \in Left'
        PROVE  /\ core.persisted < rd.next + 1 /\ rd.next + 1 <= Len(core.log)
               /\ Same(disk.log, core.log, rd.next + 1 - 1) /\ rd.next + 1 >= rd.next + 1
    <3>1. rd.next # Len(core.log) BY <1>6, <2>1
    <3>2. core.persisted < rd.next + 1 /\ rd.next + 1 <= Len(core.log) /\ rd.next + 1 - 1 = rd.next
      <4>1. core.persisted < rd.next /\ rd.next <= Len(core.log) BY <1>4, <1>5
      <4> QED BY <1>5, <3>1, <4>1, SMT
    <3> QED BY <1>5, <1>13, <3>2
  <2>2. "advance" \in Left' BY <1>4, <1>6
  <2> QED BY <1>1, <1>4, <1>9, <1>10, <1>12, <1>14, <2>1, <2>2 DEF AppendInv
<1>21. DiskInv'
  <2>1. \A i \in Index : i <= rd.next => disk.log[i] # 0
    <3>1. \A i \in Index : i <= rd.next => i \in 1 .. rd.next /\ i \in 1 .. Len(core.log)
      BY <1>4, <1>5 DEF Index
    <3> QED BY <1>5, <1>13, <3>1 DEF Same
  <2> QED BY <1>1, <1>3, <1>9, <1>12, <2>1 DEF DiskInv, Index
<1> QED BY <1>6, <1>11, <1>15, <1>16, <1>17, <1>18, <1>19, <1>20, <1>21 DEF NodeInv, UpInv, PhasesOK

\* Handling an entry, the one past the deliverable ones included.
LEMMA HandleEntryKeeps ==
    ASSUME TypeOK, NodeInv, HandleEntry
    PROVE  TypeOK' /\ NodeInv'
<1>1. PICK snapshot \in {Snapshots, FALSE} :
        /\ At("handle")
        /\ Then(Phase(snapshot, "create") \o Phase(core.applied + 1 < rd.upto, "handle"))
        /\ disk' = [disk EXCEPT !.commit = core.applied + 1, !.term = disk.log[core.applied + 1]]
        /\ core' = [core EXCEPT !.applied = core.applied + 1]
        /\ handled' = handled \cup {<<core.applied + 1, Routed>>}
        /\ breaches' = IF IsExtra THEN breaches \cup {"past"} ELSE breaches
        /\ UNCHANGED <<lead, cmt, mine, meta, prev, rd, mode, acked, crashes>>
  BY DEF HandleEntry, Committing, history
<1>2. PhasesOK
  BY Phases
<1>3. /\ mode = "up" /\ "handle" \in Left /\ Left \subseteq PhaseName
      /\ \A q \in Left : q = "handle" \/ Rank("handle") < Rank(q)
  BY <1>1, <1>2, AtPhase
<1>4. UpInv /\ DiskInv
  BY <1>3 DEF NodeInv
<1>5. /\ "create" \notin Left /\ "append" \notin Left /\ "last" \notin Left /\ "snapshot" \notin Left
      /\ "lightHard" \notin Left /\ Left \cap Imports = {} /\ ~Importing /\ ~Loading
  <2>1. Left \subseteq {"handle", "hard", "send", "advance", "apply"}
    BY <1>3 DEF PhaseName, Rank
  <2>2. ~Loading
    BY <1>3, <1>4 DEF UpInv, LoadInv, Imports
  <2> QED BY <2>1, <2>2 DEF Importing, Imports
<1>6. /\ Handing /\ core.applied < rd.upto
      /\ rd.extra = 0 => rd.upto = Deliverable(core)
      /\ rd.extra # 0 => /\ rd.upto = Deliverable(core) + 1 /\ rd.upto \in Index
                         /\ disk.log[rd.upto] # 0
  BY <1>3, <1>4 DEF UpInv, HandleInv
<1>7. /\ core.applied \in Nat /\ rd.upto \in Nat /\ rd.upto <= MaxLog /\ MaxLog \in Nat
      /\ Deliverable(core) \in Nat /\ core.commit \in Nat /\ core.persisted \in Nat
      /\ meta.index \in Nat /\ disk.commit \in Nat /\ FirstIndex \in Nat /\ MaxTerm \in Nat
  BY Fields
<1>8. core.applied + 1 \in Index /\ core.applied + 1 \in Index0
  BY <1>6, <1>7 DEF Index, Index0
<1>9. disk \in DiskRecord /\ core \in CoreRecord /\ rd \in ReadyRecord
  BY TypeParts
<1>10. disk.last # Unset
  BY <1>3, <1>4, <1>5 DEF UpInv, UnsavedInv
<1>11. /\ disk' \in DiskRecord /\ disk'.commit = core.applied + 1 /\ disk'.first = disk.first
       /\ disk'.last = disk.last /\ disk'.log = disk.log
  BY <1>1, <1>8, <1>9 DEF DiskRecord
<1>12. /\ core' \in CoreRecord /\ core'.applied = core.applied + 1 /\ core'.log = core.log
       /\ core'.commit = core.commit /\ core'.persisted = core.persisted
       /\ core'.role = core.role /\ core'.term = core.term
  BY <1>1, <1>8, <1>9 DEF CoreRecord
<1>13. PhasesOK' /\ Left' = (IF snapshot THEN {"create"} ELSE {})
                            \cup (IF core.applied + 1 < rd.upto THEN {"handle"} ELSE {})
                            \cup (Left \ {"handle"})
  <2> DEFINE ps == Phase(snapshot, "create") \o Phase(core.applied + 1 < rd.upto, "handle")
  <2>1. snapshot \in BOOLEAN /\ (core.applied + 1 < rd.upto) \in BOOLEAN
    <3>1. snapshot \in BOOLEAN BY ConstantsAssumption
    <3>2. (core.applied + 1 < rd.upto) \in BOOLEAN OBVIOUS
    <3> QED BY <3>1, <3>2
  <2>2. /\ ps \in Seq(PhaseName) /\ Ordered(ps)
        /\ SetOf(ps) = (IF snapshot THEN {"create"} ELSE {})
                       \cup (IF core.applied + 1 < rd.upto THEN {"handle"} ELSE {})
    BY <2>1, HandlingIs
  <2>3. Then(ps) BY <1>1
  <2> HIDE DEF ps
  <2>4. \A r \in SetOf(ps), q \in Left : q = "handle" \/ Rank(r) < Rank(q)
    BY <1>3, <2>2 DEF Rank, PhaseName
  <2>5. PhasesOK' /\ Left' = SetOf(ps) \cup (Left \ {"handle"})
    BY <1>1, <1>2, <2>2, <2>3, <2>4, ThenPhases
  <2> QED BY <2>2, <2>5
<1>14. TypeOK'
  <2>1. todo' \in Seq(PhaseName) BY <1>13 DEF PhasesOK
  <2>2. Routed \in 0 .. MaxTerm
    BY <1>8, <1>9 DEF Routed, Committing, DiskRecord, ReadyRecord
  <2>3. handled' \subseteq Index \X (0 .. MaxTerm)
    BY <1>1, <1>8, <2>2, TypeParts
  <2>4. breaches' \subseteq Breach BY <1>1, TypeParts DEF Breach
  <2> QED BY <1>1, <1>11, <1>12, <2>1, <2>3, <2>4, TypeParts, TypePartsNext
<1>15. /\ Handing' /\ "append" \notin Left' /\ "last" \notin Left' /\ "lightHard" \notin Left'
       /\ "snapshot" \notin Left' /\ Left' \cap Imports = {} /\ ~Importing' /\ ~Loading'
       /\ ("advance" \in Left' <=> "advance" \in Left)
  BY <1>1, <1>5, <1>6, <1>13 DEF Handing, Importing, Loading, Imports
<1>16. FirstIndex' = FirstIndex /\ LastIndex' = LastIndex /\ StoredEnd' = StoredEnd
  BY <1>1, <1>10, <1>11 DEF FirstIndex, LastIndex, StoredEnd, Unset
<1>17. Deliverable(core') = Deliverable(core)
  BY <1>12 DEF Deliverable
<1>18. CoreInv'
  <2>1. CoreInv BY <1>4 DEF UpInv
  <2>2. High' = Larger(core.commit, core.applied + 1) BY <1>12 DEF High
  <2>3. core.applied + 1 <= High' /\ High <= High' /\ High \in Nat /\ High' \in Nat
    BY <1>7, <2>2 DEF High, Larger
  <2>4. /\ disk'.commit <= High' /\ meta.index <= High' /\ FirstIndex <= High' + 1
    <3>1. meta.index <= High /\ FirstIndex <= High + 1 BY <2>1 DEF CoreInv
    <3> QED BY <1>7, <1>11, <2>3, <3>1, AtMost
  <2>5. core.applied + 1 < Deliverable(core) => "handle" \in Left'
    <3>1. core.applied + 1 < Deliverable(core) => core.applied + 1 < rd.upto
      BY <1>6, <1>7
    <3> QED BY <1>13, <3>1
  <2>6. "create" \in Left' => Snapshots
    <3>1. "create" \in Left' => snapshot BY <1>5, <1>13
    <3>2. snapshot => Snapshots BY Zenon
    <3> QED BY <3>1, <3>2
  <2>7. rd.fresh /\ "advance" \in Left =>
          /\ rd.snap = 0 /\ core.persisted < Len(core.log)
          /\ meta.index <= Larger(core.persisted, core.applied + 1)
          /\ FirstIndex <= Larger(core.persisted, core.applied + 1) + 1
    <3>1. rd.fresh /\ "advance" \in Left =>
            /\ rd.snap = 0 /\ core.persisted < Len(core.log)
            /\ meta.index <= Larger(core.persisted, core.applied)
            /\ FirstIndex <= Larger(core.persisted, core.applied) + 1
      BY <2>1 DEF CoreInv
    <3>2. /\ Larger(core.persisted, core.applied) <= Larger(core.persisted, core.applied + 1)
          /\ Larger(core.persisted, core.applied) \in Nat /\ Larger(core.persisted, core.applied + 1) \in Nat
      BY <1>7 DEF Larger
    <3> QED BY <1>7, <3>1, <3>2, AtMost, SMTT(20)
  <2>8. /\ core.role = "leader" => /\ core.term \in Term /\ core.term \in mine
                               /\ \/ core.persisted = Len(core.log)
                                  \/ rd.fresh /\ "advance" \in Left
        /\ core.commit <= Len(core.log) /\ core.persisted <= Len(core.log)
        /\ prev.commit = core.commit
    BY <2>1 DEF CoreInv
  <2> QED BY <1>1, <1>11, <1>12, <1>15, <1>16, <1>17, <2>4, <2>5, <2>6, <2>7, <2>8 DEF CoreInv, Term
<1>19. HandleInv'
  <2>1. "handle" \in Left' => core.applied + 1 < rd.upto
    BY <1>13
  <2> QED BY <1>1, <1>6, <1>11, <1>12, <1>15, <1>17, <2>1 DEF HandleInv, Index
<1>20. StoredInv' /\ UnsavedInv' /\ AppendInv' /\ LoadInv' /\ ImportInv'
  <2>1. StoredInv' BY <1>4, <1>5, <1>11, <1>12, <1>16 DEF UpInv, StoredInv, Same
  <2>2. UnsavedInv' BY <1>10, <1>11 DEF UnsavedInv, Unset
  <2> QED BY <1>15, <2>1, <2>2 DEF AppendInv, LoadInv, ImportInv
<1>21. DiskInv'
  BY <1>1, <1>3, <1>4, <1>11, <1>16 DEF DiskInv, Index
<1> QED BY <1>13, <1>14, <1>18, <1>19, <1>20, <1>21 DEF NodeInv, UpInv, PhasesOK
\* What the storage returns as its log.
LEMMA StoredIs ==
    ASSUME LastIndex \in Index0, \A i \in 1 .. LastIndex : disk.log[i] \in Term
    PROVE  Stored \in Log /\ Len(Stored) = LastIndex /\ Same(disk.log, Stored, LastIndex)
<1> DEFINE f == disk.log
           n == LastIndex
<1>1. Stored = [i \in 1 .. n |-> f[i]]
  BY DEF Stored
<1> HIDE DEF f, n
<1>2. n \in Index0 /\ \A i \in 1 .. n : f[i] \in Term
  BY DEF f, n
<1>3. /\ Stored \in Log /\ Len(Stored) = n /\ \A i \in 1 .. n : Stored[i] = f[i]
  BY <1>1, <1>2, LoadedIs
<1> QED BY <1>3 DEF f, n, Same

-----------------------------------------------------------------------------
(* The hard state, snapshots of one's own, messages, and the end of a turn. *)

LEMMA CreateSnapshotKeeps ==
    ASSUME TypeOK, NodeInv, CreateSnapshot
    PROVE  TypeOK' /\ NodeInv'
<1>1. /\ At("create") /\ Created /\ Then(<<>>)
      /\ UNCHANGED <<lead, cmt, mine, core, prev, rd, mode, acked, handled, breaches, crashes>>
  BY DEF CreateSnapshot, history
<1>2. PhasesOK
  BY Phases
<1>3. /\ mode = "up" /\ "create" \in Left /\ \A q \in Left : q = "create" \/ Rank("create") < Rank(q)
  BY <1>1, <1>2, AtPhase
<1>4. UpInv
  BY <1>3 DEF NodeInv
<1>5. "append" \notin Left /\ Left \cap ({"snapshot"} \cup Imports) = {}
  BY <1>3, SMT DEF Rank, Imports
<1>6. ~Importing /\ ~Loading
  <2>1. ~Importing BY <1>5 DEF Importing
  <2>2. ~Loading BY <1>3, <1>4 DEF UpInv, LoadInv, Imports
  <2> QED BY <2>1, <2>2
<1>7. disk.commit = core.applied
  BY <1>3, <1>4 DEF UpInv, CoreInv
<1>8. PhasesOK' /\ Left' = Left \ {"create"}
  BY <1>1, <1>2, ThenNothing
<1> QED BY <1>1, <1>3, <1>5, <1>6, <1>7, <1>8, CreatedKeeps

\* The committed index the core has emitted is stored: hard states that are set
\* after append and the import.
LEMMA CommitStored ==
    ASSUME TypeOK, NodeInv, mode = "up", "append" \notin Left, ~Importing, "create" \notin Left,
           UNCHANGED <<lead, cmt, mine, meta, core, prev, rd, mode, acked, handled, breaches, crashes>>,
           disk' \in DiskRecord, disk'.commit = core.commit,
           disk'.first = disk.first, disk'.last = disk.last, disk'.log = disk.log,
           PhasesOK', NEW p \in {"hard", "lightHard"}, Left' = Left \ {p}
    PROVE  TypeOK' /\ NodeInv'
<1>1. UpInv /\ DiskInv
  BY DEF NodeInv
<1>2. TypeOK'
  <2>1. todo' \in Seq(PhaseName) BY DEF PhasesOK
  <2> QED BY <2>1, TypeParts, TypePartsNext
<1>3. /\ ~Importing' /\ "append" \notin Left' /\ "last" \notin Left' /\ "create" \notin Left'
      /\ (Loading' <=> Loading) /\ (Handing' <=> Handing)
      /\ ("advance" \in Left' <=> "advance" \in Left) /\ ("handle" \in Left' <=> "handle" \in Left)
      /\ Left' \subseteq Left /\ "snapshot" \notin Left' /\ Left' \cap Imports = {}
  BY <1>1 DEF Importing, Loading, Handing, Imports, UpInv, AppendInv
<1>4. FirstIndex' = FirstIndex /\ LastIndex' = LastIndex
  BY DEF FirstIndex, LastIndex, Unset
<1>5. /\ core.commit \in Nat /\ core.applied \in Nat /\ Len(core.log) \in Nat /\ meta.index \in Nat
      /\ High \in Nat
  BY Fields
<1>6. disk.last = Unset =>
          /\ disk.commit = meta.index /\ core.commit = meta.index
          /\ core.applied = meta.index /\ core.persisted = meta.index
          /\ "handle" \notin Left
  <2> SUFFICES ASSUME disk.last = Unset
               PROVE  /\ disk.commit = meta.index /\ core.commit = meta.index
                      /\ core.applied = meta.index /\ core.persisted = meta.index
                      /\ "handle" \notin Left
    OBVIOUS
  <2>1. /\ disk.commit = meta.index /\ core.applied = meta.index /\ core.persisted = meta.index
        /\ meta.index <= core.commit /\ "handle" \notin Left
    BY <1>1 DEF UpInv, UnsavedInv
  <2>2. CASE Loading
    BY <1>1, <2>1, <2>2 DEF UpInv, LoadInv
  <2>3. CASE ~Loading
    <3>1. meta.index = Len(core.log) /\ core.commit <= Len(core.log)
      BY <1>1, <2>3 DEF UpInv, StoredInv, CoreInv, LastIndex
    <3> QED BY <1>5, <2>1, <3>1
  <2> QED BY <2>2, <2>3
<1>7. StoredEnd' = StoredEnd
  BY <1>6 DEF StoredEnd, Unset
<1>8. CoreInv'
  <2>1. CoreInv BY <1>1 DEF UpInv
  <2>2. High' = High /\ Deliverable(core)' = Deliverable(core) BY DEF High, Deliverable
  <2>3. core.commit <= High BY <1>5 DEF High, Larger
  <2>4. "lightHard" \in Left' => "lightHard" \in Left BY <1>3
  <2> QED BY <1>3, <1>4, <2>1, <2>2, <2>3, <2>4 DEF CoreInv, Term
<1>9. HandleInv'
  BY <1>1, <1>3 DEF UpInv, HandleInv, Deliverable, Index
<1>10. StoredInv' /\ LoadInv'
  <2>1. StoredInv'
    BY <1>1, <1>3, <1>4 DEF UpInv, StoredInv, Same
  <2>2. LoadInv'
    <3>1. Loading => LoadInv!2
      BY <1>1 DEF UpInv, LoadInv
    <3> QED BY <1>3, <1>4, <3>1 DEF LoadInv, Term, Same, Unset, Imports
  <2> QED BY <2>1, <2>2
<1>11. UnsavedInv' /\ AppendInv' /\ ImportInv'
  <2>1. UnsavedInv'
    <3>1. meta.index <= meta.index BY <1>5
    <3> QED BY <1>3, <1>6, <3>1 DEF UnsavedInv, Unset
  <2> QED BY <1>3, <2>1 DEF AppendInv, ImportInv
<1>12. DiskInv'
  BY <1>1, <1>7 DEF DiskInv, Index
<1> QED BY <1>2, <1>8, <1>9, <1>10, <1>11, <1>12 DEF NodeInv, UpInv, PhasesOK

\* set_hard_state stores what the Ready emitted.
LEMMA SetHardStateKeeps ==
    ASSUME TypeOK, NodeInv, SetHardState
    PROVE  TypeOK' /\ NodeInv'
<1>1. /\ At("hard") /\ Then(<<>>)
      /\ disk' = [disk EXCEPT !.term = prev.term, !.vote = prev.vote, !.commit = prev.commit]
      /\ UNCHANGED <<lead, cmt, mine, meta, core, prev, rd, mode, acked, handled, breaches, crashes>>
  BY DEF SetHardState, history
<1>2. PhasesOK
  BY Phases
<1>3. /\ mode = "up" /\ "hard" \in Left /\ \A q \in Left : q = "hard" \/ Rank("hard") < Rank(q)
  BY <1>1, <1>2, AtPhase
<1>4. "append" \notin Left /\ Left \cap ({"snapshot"} \cup Imports) = {} /\ "create" \notin Left
  BY <1>3, SMT DEF Rank, Imports
<1>5. ~Importing
  BY <1>4 DEF Importing
<1>6. PhasesOK' /\ Left' = Left \ {"hard"}
  BY <1>1, <1>2, ThenNothing
<1>7. prev.commit = core.commit
  BY <1>3 DEF NodeInv, UpInv, CoreInv
<1>8. /\ disk' \in DiskRecord /\ disk'.commit = core.commit
      /\ disk'.first = disk.first /\ disk'.last = disk.last /\ disk'.log = disk.log
  <2>1. disk \in DiskRecord /\ prev \in HardState
    BY TypeParts
  <2> QED BY <1>1, <1>7, <2>1 DEF DiskRecord, HardState
<1> QED BY <1>1, <1>3, <1>4, <1>5, <1>6, <1>8, CommitStored

\* set_hard_state_commit stores the committed index of the light ready.
LEMMA SetHardStateCommitKeeps ==
    ASSUME TypeOK, NodeInv, SetHardStateCommit
    PROVE  TypeOK' /\ NodeInv'
<1>1. /\ At("lightHard") /\ Then(<<>>)
      /\ disk' = [disk EXCEPT !.commit = prev.commit]
      /\ UNCHANGED <<lead, cmt, mine, meta, core, prev, rd, mode, acked, handled, breaches, crashes>>
  BY DEF SetHardStateCommit, history
<1>2. PhasesOK
  BY Phases
<1>3. mode = "up" /\ "lightHard" \in Left
  BY <1>1, <1>2, AtPhase
<1>4. Left \subseteq {"lightHard", "handle", "apply"} /\ prev.commit = core.commit
  BY <1>3 DEF NodeInv, UpInv, CoreInv
<1>5. "append" \notin Left /\ ~Importing /\ "create" \notin Left
  BY <1>4 DEF Importing, Imports
<1>6. PhasesOK' /\ Left' = Left \ {"lightHard"}
  BY <1>1, <1>2, ThenNothing
<1>8. /\ disk' \in DiskRecord /\ disk'.commit = core.commit
      /\ disk'.first = disk.first /\ disk'.last = disk.last /\ disk'.log = disk.log
  <2>1. disk \in DiskRecord /\ prev \in HardState
    BY TypeParts
  <2> QED BY <1>1, <1>4, <2>1 DEF DiskRecord, HardState
<1> QED BY <1>1, <1>3, <1>5, <1>6, <1>8, CommitStored

\* A phase that only sends messages, or finds nothing wrong with what was applied.
LEMMA PhaseDone ==
    ASSUME TypeOK, NodeInv, NEW p \in {"send", "apply"}, At(p), Then(<<>>),
           p = "apply" => core.applied <= Deliverable(core),
           UNCHANGED <<lead, cmt, mine, disk, meta, core, prev, rd, mode, handled, breaches, crashes>>,
           acked' \in Log
    PROVE  TypeOK' /\ NodeInv'
<1>1. PhasesOK
  BY Phases
<1>2. /\ mode = "up" /\ p \in Left /\ Left \subseteq PhaseName
      /\ \A q \in Left : q = p \/ Rank(p) < Rank(q)
  BY <1>1, AtPhase
<1>3. Left \subseteq {"send", "advance", "apply"} /\ (p = "apply" => Left = {"apply"})
  <2>1. CASE p = "send" BY <1>2, <2>1, SMT DEF PhaseName, Rank
  <2>2. CASE p = "apply" BY <1>2, <2>2, SMT DEF PhaseName, Rank
  <2> QED BY <2>1, <2>2
<1>4. PhasesOK' /\ Left' = Left \ {p}
  BY <1>1, ThenNothing
<1>5. UpInv /\ DiskInv
  BY <1>2 DEF NodeInv
<1>6. TypeOK'
  <2>1. todo' \in Seq(PhaseName) BY <1>4 DEF PhasesOK
  <2> QED BY <2>1, TypeParts, TypePartsNext
<1>7. FirstIndex' = FirstIndex /\ LastIndex' = LastIndex /\ StoredEnd' = StoredEnd
  BY DEF FirstIndex, LastIndex, StoredEnd, Unset
<1>8. /\ ~Importing /\ ~Importing' /\ "append" \notin Left /\ "append" \notin Left'
      /\ "last" \notin Left' /\ "handle" \notin Left /\ "handle" \notin Left'
      /\ "create" \notin Left' /\ "lightHard" \notin Left' /\ "snapshot" \notin Left'
      /\ Left' \cap Imports = {} /\ (Loading' <=> Loading)
      /\ ("advance" \in Left' <=> "advance" \in Left) /\ Left' \subseteq Left
  BY <1>3, <1>4 DEF Importing, Loading, Imports
<1>9. core.applied > Deliverable(core) => Handing'
  <2>1. core.applied \in Nat /\ Deliverable(core) \in Nat BY Fields
  <2>2. CASE p = "send"
    <3>1. Handing' <=> Handing BY <1>4, <2>2 DEF Handing
    <3> QED BY <1>5, <3>1 DEF UpInv, CoreInv
  <2>3. CASE p = "apply"
    BY <2>1, <2>3
  <2> QED BY <2>2, <2>3
<1>10. CoreInv'
  <2>1. CoreInv BY <1>5 DEF UpInv
  <2>2. High' = High /\ Deliverable(core)' = Deliverable(core) BY DEF High, Deliverable
  <2> QED BY <1>7, <1>8, <1>9, <2>1, <2>2 DEF CoreInv, Term
<1>11. HandleInv' /\ AppendInv' /\ ImportInv'
  BY <1>8 DEF HandleInv, AppendInv, ImportInv
<1>12. StoredInv' /\ UnsavedInv'
  BY <1>5, <1>7, <1>8 DEF UpInv, StoredInv, UnsavedInv, Same, Unset
<1>13. LoadInv'
  <2>1. Loading => LoadInv!2
    BY <1>5 DEF UpInv, LoadInv
  <2> QED BY <1>7, <1>8, <2>1 DEF LoadInv, Term, Same, Unset, Imports
<1>14. DiskInv'
  BY <1>2, <1>5, <1>7 DEF DiskInv, Index
<1> QED BY <1>4, <1>6, <1>10, <1>11, <1>12, <1>13, <1>14 DEF NodeInv, UpInv, PhasesOK

\* The persisted messages are sent: the node acknowledges its log.
LEMMA SendKeeps ==
    ASSUME TypeOK, NodeInv, Send
    PROVE  TypeOK' /\ NodeInv'
<1>1. /\ At("send") /\ Then(<<>>)
      /\ acked' = IF Len(acked) > Len(core.log) THEN acked ELSE core.log
      /\ UNCHANGED <<lead, cmt, mine, disk, meta, core, prev, rd, mode, handled, breaches, crashes>>
  BY DEF Send, history
<1>2. acked' \in Log
  BY <1>1, TypeParts DEF CoreRecord
<1> QED BY <1>1, <1>2, PhaseDone

\* advance_apply accepts what was applied.
LEMMA AdvanceApplyKeeps ==
    ASSUME TypeOK, NodeInv, AdvanceApply
    PROVE  TypeOK' /\ NodeInv'
<1>1. /\ At("apply") /\ core.applied <= Deliverable(core) /\ Then(<<>>)
      /\ UNCHANGED <<lead, cmt, mine, disk, meta, core, prev, rd, mode, acked, handled, breaches, crashes>>
  BY DEF AdvanceApply, history
<1>2. acked' \in Log
  BY <1>1, TypeParts
<1> QED BY <1>1, <1>2, PhaseDone

LEMMA PanicKeeps ==
    ASSUME TypeOK, NodeInv, Panic
    PROVE  TypeOK' /\ NodeInv'
BY FailKeeps DEF Panic, history

\* What is on disk at a crash is what the invariant says of the disk, in any phase.
LEMMA CrashKeeps ==
    ASSUME TypeOK, NodeInv, Crash
    PROVE  TypeOK' /\ NodeInv'
<1>1. /\ mode' = "down" /\ todo' = <<>> /\ rd' = NoReady
      /\ core' = NoCore /\ prev' = HardStateOf(NoCore)
      /\ meta' = [index |-> disk.commit, term |-> disk.term]
      /\ crashes' = crashes + 1 /\ crashes < MaxCrashes
      /\ breaches' \subseteq breaches \cup {"append", "import"}
      /\ UNCHANGED <<lead, cmt, mine, disk, acked, handled>>
  BY DEF Crash, history
<1>2. /\ MaxLog \in Nat /\ MaxTerm \in Nat /\ MaxCrashes \in Nat /\ crashes \in Nat
  BY TypeParts, ConstantsAssumption
<1>3. 0 \in Index0 /\ 0 \in 0 .. MaxTerm /\ 0 \in 0 .. MaxLog + 1 /\ Unset \in 0 .. Unset
  BY <1>2, SMT DEF Index0, Unset
<1>4. crashes' \in 0 .. MaxCrashes
  BY <1>1, <1>2
<1>5. core' \in CoreRecord
  <2>1. <<>> \in Log
    <3>1. <<>> \in Seq(Term) /\ Len(<<>>) = 0 OBVIOUS
    <3>2. Len(<<>>) <= MaxLog BY <1>2, <3>1
    <3> QED BY <3>1, <3>2, IsLog
  <2> QED BY <1>1, <1>3, <2>1 DEF NoCore, CoreRecord
<1>6. rd' \in ReadyRecord
  <2>1. 1 .. 0 \in SUBSET Index OBVIOUS
  <2> QED BY <1>1, <1>3, <2>1 DEF NoReady, Ready, NoSnapshot, ReadyRecord
<1>7. prev' \in HardState
  BY <1>1, <1>3 DEF HardStateOf, NoCore, HardState
<1>8. disk \in DiskRecord /\ meta' \in MetaRecord
  <2>1. disk \in DiskRecord BY TypeParts
  <2> QED BY <1>1, <2>1 DEF DiskRecord, MetaRecord
<1>9. TypeOK'
  <2>1. todo' \in Seq(PhaseName) BY <1>1
  <2>2. breaches' \subseteq Breach BY <1>1, TypeParts DEF Breach
  <2> QED BY <1>1, <1>4, <1>5, <1>6, <1>7, <1>8, <2>1, <2>2, TypeParts, TypePartsNext
<1>10. DiskInv'
  BY <1>1 DEF NodeInv, DiskInv, StoredEnd, Unset, Index
<1>11. Ordered(todo)'
  BY <1>1 DEF Ordered
<1> QED BY <1>1, <1>9, <1>10, <1>11 DEF NodeInv

\* What a successful restart finds.
LEMMA StartIs ==
    ASSUME TypeOK, NodeInv, Start, mode' # "failed"
    PROVE  /\ mode = "down" /\ mode' = "up" /\ todo = <<>> /\ todo' = <<>> /\ Left' = {}
           /\ LastIndex \in Index0 /\ LastIndex \in Nat /\ disk.commit <= LastIndex
           /\ LastIndex = StoredEnd /\ FirstIndex <= disk.commit + 1
           /\ meta.index = disk.commit
           /\ core' \in CoreRecord /\ core'.role = "follower" /\ core'.commit = disk.commit
           /\ core'.applied = disk.commit /\ core'.persisted = LastIndex
           /\ core'.term = disk.term /\ core'.log = Stored
           /\ Len(core'.log) = LastIndex /\ Same(disk.log, core'.log, LastIndex)
           /\ prev' = HardStateOf(core')
           /\ UNCHANGED <<lead, cmt, mine, disk, meta, rd, acked, handled, breaches, crashes>>
<1>1. /\ mode = "down" /\ Restartable /\ mode' = "up"
      /\ core' = [role |-> "follower", term |-> disk.term, vote |-> disk.vote,
                  log |-> Stored, commit |-> disk.commit,
                  applied |-> disk.commit, persisted |-> LastIndex]
      /\ prev' = HardStateOf(core')
      /\ UNCHANGED <<lead, cmt, mine, disk, meta, rd, todo, acked, handled, breaches, crashes>>
  BY DEF Start, history
<1>2. DiskInv /\ todo = <<>> /\ meta = [index |-> disk.commit, term |-> disk.term]
  BY <1>1 DEF NodeInv, DiskInv
<1>3. meta.index = disk.commit /\ LastIndex = StoredEnd
  BY <1>2 DEF LastIndex, StoredEnd
<1>4. LastIndex \in Index0 /\ LastIndex \in Nat /\ LastIndex <= MaxLog /\ MaxLog \in Nat
  <2>1. /\ disk.commit \in Nat /\ disk.commit <= MaxLog /\ disk.last \in Nat
        /\ disk.last <= Unset /\ Unset = MaxLog + 1 /\ MaxLog \in Nat
    BY Fields
  <2>2. disk.last # Unset => disk.last <= MaxLog
    BY <2>1, SMT
  <2> QED BY <1>3, <2>1, <2>2 DEF StoredEnd, Index0
<1>5. \A i \in 1 .. LastIndex : disk.log[i] \in Term
  <2>1. ASSUME NEW i \in 1 .. LastIndex PROVE disk.log[i] \in Term
    <3>1. i \in Index BY <1>4 DEF Index
    <3>2. disk.log[i] # 0 BY <1>2, <1>3, <3>1 DEF DiskInv
    <3>3. disk.log[i] \in 0 .. MaxTerm BY <3>1, Fields
    <3> QED BY <3>2, <3>3 DEF Term
  <2> QED BY <2>1
<1>6. Stored \in Log /\ Len(Stored) = LastIndex /\ Same(disk.log, Stored, LastIndex)
  BY <1>4, <1>5, StoredIs
<1>8. /\ core' \in CoreRecord /\ core'.role = "follower" /\ core'.commit = disk.commit
      /\ core'.applied = disk.commit /\ core'.persisted = LastIndex
      /\ core'.term = disk.term /\ core'.log = Stored
  <2>1. disk \in DiskRecord BY TypeParts
  <2> QED BY <1>1, <1>4, <1>6, <2>1 DEF DiskRecord, CoreRecord
<1>9. disk.commit <= LastIndex /\ FirstIndex <= disk.commit + 1
  BY <1>1 DEF Restartable
<1>10. Left' = {}
  BY <1>1, <1>2 DEF Left, SetOf
<1> QED BY <1>1, <1>2, <1>3, <1>4, <1>6, <1>8, <1>9, <1>10

\* A restart loads the log from disk, or refuses it.
LEMMA StartKeeps ==
    ASSUME TypeOK, NodeInv, Start
    PROVE  TypeOK' /\ NodeInv'
<1>1. CASE mode' = "failed"
  BY <1>1, FailKeeps DEF Start, history
<1>2. CASE mode' # "failed"
  <2>1. /\ mode = "down" /\ mode' = "up" /\ todo = <<>> /\ todo' = <<>> /\ Left' = {}
        /\ LastIndex \in Index0 /\ LastIndex \in Nat /\ disk.commit <= LastIndex
        /\ LastIndex = StoredEnd /\ FirstIndex <= disk.commit + 1
        /\ meta.index = disk.commit
        /\ core' \in CoreRecord /\ core'.role = "follower" /\ core'.commit = disk.commit
        /\ core'.applied = disk.commit /\ core'.persisted = LastIndex
        /\ Len(core'.log) = LastIndex /\ Same(disk.log, core'.log, LastIndex)
        /\ prev' = HardStateOf(core')
        /\ UNCHANGED <<lead, cmt, mine, disk, meta, rd, acked, handled, breaches, crashes>>
    BY <1>2, StartIs
  <2>2. prev' \in HardState /\ prev'.commit = core'.commit
    BY <2>1 DEF HardStateOf, CoreRecord, HardState
  <2>3. TypeOK'
    <3>1. todo' \in Seq(PhaseName) BY <2>1
    <3> QED BY <2>1, <2>2, <3>1, TypeParts, TypePartsNext
  <2>4. DiskInv
    BY DEF NodeInv
  <2>5. StoredEnd' = StoredEnd /\ LastIndex' = LastIndex /\ FirstIndex' = FirstIndex
    BY <2>1 DEF Unset, StoredEnd, LastIndex, FirstIndex
  <2>6. disk.commit \in Nat
    BY Fields
  <2>7. Deliverable(core') = disk.commit /\ High' = disk.commit
    BY <2>1, <2>6 DEF Deliverable, Smaller, High, Larger
  <2>8. ~Importing' /\ ~Loading' /\ ~Handing'
    BY <2>1 DEF Importing, Loading, Handing
  <2>9. CoreInv'
    <3>1. /\ ~(core'.applied > Deliverable(core')) /\ ~(core'.applied < Deliverable(core'))
          /\ core'.commit <= Len(core'.log) /\ core'.persisted <= Len(core'.log)
          /\ disk'.commit <= High' /\ meta'.index <= High' /\ FirstIndex' <= High' + 1
      BY <2>1, <2>5, <2>6, <2>7
    <3> QED BY <2>1, <2>2, <2>7, <3>1 DEF CoreInv
  <2>10. HandleInv' /\ AppendInv' /\ LoadInv' /\ ImportInv'
    BY <2>1, <2>8 DEF HandleInv, AppendInv, LoadInv, ImportInv
  <2>11. StoredInv'
    BY <2>1, <2>5 DEF StoredInv, Same
  <2>12. UnsavedInv'
    <3>1. disk.last = Unset => LastIndex = disk.commit
      BY <2>1 DEF StoredEnd
    <3>2. disk.commit <= disk.commit BY <2>6
    <3> QED BY <2>1, <3>1, <3>2 DEF UnsavedInv, Unset
  <2>13. DiskInv'
    BY <2>1, <2>4, <2>5 DEF DiskInv, Index
  <2>14. Ordered(todo)'
    BY <2>1 DEF Ordered
  <2> QED BY <2>3, <2>9, <2>10, <2>11, <2>12, <2>13, <2>14 DEF NodeInv, UpInv
<1> QED BY <1>1, <1>2
\* At advance nothing else is left, and the storage is where the core's log is.
LEMMA AtAdvance ==
    ASSUME TypeOK, NodeInv, At("advance")
    PROVE  /\ PhasesOK /\ mode = "up" /\ Left = {"advance"} /\ ~Importing /\ UpInv /\ DiskInv
           /\ LastIndex \in Index0 /\ LastIndex \in Nat /\ LastIndex = StoredEnd
           /\ Stored \in Log /\ Len(Stored) = LastIndex /\ Same(disk.log, Stored, LastIndex)
           /\ core.commit <= LastIndex /\ core.persisted <= LastIndex
           /\ IF rd.snap = 0
              THEN Same(disk.log, core.log, LastIndex) /\ LastIndex = Len(core.log)
              ELSE /\ ~rd.fresh /\ core.role = "follower" /\ rd.snap <= LastIndex
                   /\ core.commit = rd.snap /\ core.applied = rd.snap /\ core.persisted = rd.snap
<1>1. PhasesOK
  BY Phases
<1>2. /\ mode = "up" /\ "advance" \in Left /\ Left \subseteq PhaseName
      /\ \A q \in Left : q = "advance" \/ Rank("advance") < Rank(q)
  BY <1>1, AtPhase
<1>3. Left = {"advance"}
  BY <1>2, SMT DEF PhaseName, Rank
<1>4. ~Importing /\ UpInv /\ DiskInv
  BY <1>2, <1>3 DEF Importing, Imports, NodeInv
<1>5. /\ disk.commit \in Nat /\ disk.commit <= MaxLog /\ disk.last \in Nat
      /\ disk.last <= Unset /\ Unset = MaxLog + 1 /\ MaxLog \in Nat
      /\ meta.index \in Nat /\ rd.snap \in Nat /\ Len(core.log) \in Nat
  BY Fields
<1>6. LastIndex = StoredEnd
  <2>1. disk.last = Unset => disk.commit = meta.index
    BY <1>4 DEF UpInv, UnsavedInv
  <2> QED BY <2>1 DEF LastIndex, StoredEnd
<1>7. LastIndex \in Index0 /\ LastIndex \in Nat /\ LastIndex <= MaxLog
  <2>1. disk.last # Unset => disk.last <= MaxLog
    BY <1>5, SMT
  <2> QED BY <1>5, <1>6, <2>1 DEF StoredEnd, Index0
<1>8. \A i \in 1 .. LastIndex : disk.log[i] \in Term
  <2>1. ASSUME NEW i \in 1 .. LastIndex PROVE disk.log[i] \in Term
    <3>1. i \in Index BY <1>5, <1>7 DEF Index
    <3>2. disk.log[i] # 0 BY <1>4, <1>6, <3>1 DEF DiskInv
    <3>3. disk.log[i] \in 0 .. MaxTerm BY <3>1, Fields
    <3> QED BY <3>2, <3>3 DEF Term
  <2> QED BY <2>1
<1>9. Stored \in Log /\ Len(Stored) = LastIndex /\ Same(disk.log, Stored, LastIndex)
  BY <1>7, <1>8, StoredIs
<1>10. core.commit <= Len(core.log) /\ core.persisted <= Len(core.log)
  BY <1>4 DEF UpInv, CoreInv
<1>11. CASE rd.snap = 0
  <2>1. Same(disk.log, core.log, Len(core.log)) /\ LastIndex = Len(core.log)
    BY <1>3, <1>4, <1>11 DEF UpInv, StoredInv, Loading
  <2> QED BY <1>1, <1>2, <1>3, <1>4, <1>6, <1>7, <1>9, <1>10, <1>11, <2>1
<1>12. CASE rd.snap # 0
  <2>1. Loading
    BY <1>3, <1>12 DEF Loading
  <2>2. /\ ~rd.fresh /\ core.role = "follower" /\ LastIndex >= rd.snap
        /\ core.commit = rd.snap /\ core.applied = rd.snap /\ core.persisted = rd.snap
    BY <1>4, <2>1 DEF UpInv, LoadInv
  <2>3. rd.snap <= LastIndex
    BY <1>5, <1>7, <2>2
  <2> QED BY <1>1, <1>2, <1>3, <1>4, <1>6, <1>7, <1>9, <1>12, <2>2, <2>3
<1> QED BY <1>11, <1>12

\* What RawNode counts as persisted after it: everything, if the Ready brought
\* entries and they were not handed out already, and what it had otherwise.
LEMMA PersistedIs ==
    ASSUME TypeOK, NodeInv, At("advance")
    PROVE  /\ Persisted \in Nat /\ core.persisted <= Persisted /\ Persisted <= Len(core.log)
           /\ IF rd.fresh THEN /\ core.persisted < Len(core.log) /\ rd.snap = 0
                               /\ \/ Persisted = Len(core.log)
                                  \/ Persisted = core.persisted /\ core.applied > core.persisted
              ELSE Persisted = core.persisted
<1>1. /\ Left = {"advance"} /\ UpInv
      /\ rd.snap = 0 => Same(disk.log, core.log, LastIndex) /\ LastIndex = Len(core.log)
  BY AtAdvance
<1>2. /\ core.persisted \in Nat /\ core.applied \in Nat /\ Len(core.log) \in Nat
      /\ meta.index \in Nat /\ FirstIndex \in Nat
      /\ \A i \in 1 .. Len(core.log) : core.log[i] # 0
  BY Fields
<1>3. core.persisted <= Len(core.log)
  BY <1>1 DEF UpInv, CoreInv
<1>4. CASE ~rd.fresh
  BY <1>2, <1>3, <1>4 DEF Persisted
<1>5. CASE rd.fresh
  <2>1. /\ rd.snap = 0 /\ core.persisted < Len(core.log)
        /\ meta.index <= Larger(core.persisted, core.applied)
        /\ FirstIndex <= Larger(core.persisted, core.applied) + 1
    BY <1>1, <1>5 DEF UpInv, CoreInv
  <2> DEFINE n == Len(core.log)
  <2>2. Persisted = IF TermOf(n) = core.log[n] THEN n ELSE core.persisted
    BY <1>5 DEF Persisted
  <2>3. CASE TermOf(n) = core.log[n]
    BY <1>2, <1>5, <2>1, <2>2, <2>3
  <2>4. CASE TermOf(n) # core.log[n]
    <3>1. n \in 1 .. n
      BY <1>2, <2>1
    <3>2. disk.log[n] = core.log[n] /\ core.log[n] # 0 /\ n = LastIndex
      BY <1>1, <1>2, <2>1, <3>1 DEF Same
    <3>3. n = meta.index \/ n < FirstIndex
      <4>1. ~(n > LastIndex) BY <1>2, <3>2
      <4> QED BY <2>4, <3>2, <4>1 DEF TermOf
    <3> HIDE DEF n
    <3>4. n \in Nat /\ core.persisted < n BY <1>2, <2>1 DEF n
    <3>5. n <= Larger(core.persisted, core.applied)
      BY <1>2, <2>1, <3>3, <3>4, SMT DEF Larger
    <3>6. core.applied > core.persisted
      BY <1>2, <3>4, <3>5, SMT DEF Larger
    <3>7. Persisted = core.persisted BY <2>2, <2>4 DEF n
    <3> QED BY <1>2, <1>3, <1>5, <2>1, <3>6, <3>7
  <2> QED BY <2>3, <2>4
<1> QED BY <1>4, <1>5

\* The core that advance leaves when it does not panic.
LEMMA AdvanceIs ==
    ASSUME TypeOK, NodeInv, At("advance"), NEW i \in {core.commit} \cup Commits,
           ~(core.applied > Deliverable(Advanced(i)))
    PROVE  /\ Advanced(i) \in CoreRecord
           /\ Advanced(i).role = core.role /\ Advanced(i).term = core.term
           /\ Advanced(i).applied = core.applied /\ Advanced(i).commit = i
           /\ Advanced(i).persisted = Persisted
           /\ Advanced(i).log = IF rd.snap = 0 THEN core.log ELSE Stored
           /\ Len(Advanced(i).log) = LastIndex /\ Same(disk.log, Advanced(i).log, LastIndex)
           /\ i \in Nat /\ core.commit <= i /\ i <= LastIndex /\ i \in Index0
           /\ core.applied <= Deliverable(Advanced(i))
           /\ core.applied <= i /\ core.applied <= Persisted
           /\ core.persisted <= Persisted /\ Persisted <= LastIndex /\ Persisted \in Nat
           /\ rd.fresh => Persisted = LastIndex /\ rd.snap = 0 /\ core.persisted < LastIndex
           /\ ~rd.fresh => Persisted = core.persisted /\ i = core.commit
           /\ i # core.commit => core.role = "leader" /\ i \in LeaderCommits(Persisted)
<1>1. /\ Left = {"advance"} /\ UpInv
      /\ LastIndex \in Index0 /\ LastIndex \in Nat
      /\ Stored \in Log /\ Len(Stored) = LastIndex /\ Same(disk.log, Stored, LastIndex)
      /\ core.commit <= LastIndex /\ core.persisted <= LastIndex
      /\ IF rd.snap = 0
         THEN Same(disk.log, core.log, LastIndex) /\ LastIndex = Len(core.log)
         ELSE /\ ~rd.fresh /\ core.role = "follower" /\ rd.snap <= LastIndex
              /\ core.commit = rd.snap /\ core.applied = rd.snap /\ core.persisted = rd.snap
  BY AtAdvance
<1>2. /\ Persisted \in Nat /\ core.persisted <= Persisted /\ Persisted <= Len(core.log)
      /\ IF rd.fresh THEN /\ core.persisted < Len(core.log) /\ rd.snap = 0
                          /\ \/ Persisted = Len(core.log)
                             \/ Persisted = core.persisted /\ core.applied > core.persisted
         ELSE Persisted = core.persisted
  BY PersistedIs
<1>3. /\ core.commit \in Nat /\ core.applied \in Nat /\ core.persisted \in Nat
      /\ core.log \in Log /\ MaxLog \in Nat
  BY Fields
<1>4. Persisted <= LastIndex
  BY <1>1, <1>2
<1>5. i # core.commit => /\ core.role = "leader" /\ i \in LeaderCommits(Persisted)
                         /\ Persisted > core.persisted
  BY DEF Commits
<1>6. i \in Nat /\ core.commit <= i /\ i <= LastIndex
  <2>1. CASE i = core.commit
    BY <1>1, <1>3, <2>1
  <2>2. CASE i # core.commit
    <3>1. core.term \in Term
      BY <1>1, <1>5, <2>2 DEF UpInv, CoreInv
    <3>2. cmt[core.term] \in Nat
      BY <3>1, TypeParts DEF Index0
    <3>3. i \in core.commit + 1 .. Smaller(Persisted, cmt[core.term])
      BY <1>5, <2>2 DEF LeaderCommits
    <3>4. i \in Nat /\ core.commit <= i /\ i <= Persisted
      BY <1>2, <1>3, <3>2, <3>3, SMT DEF Smaller
    <3> QED BY <1>1, <1>2, <1>4, <3>4, SMT
  <2> QED BY <2>1, <2>2
<1>7. i \in Index0 /\ Persisted \in Index0
  BY <1>1, <1>2, <1>3, <1>4, <1>6 DEF Index0
<1> DEFINE l == IF rd.snap = 0 THEN core.log ELSE Stored
<1>8. l \in Log /\ Len(l) = LastIndex /\ Same(disk.log, l, LastIndex)
  BY <1>1, <1>3
<1>9. Advanced(i) = [core EXCEPT !.persisted = Persisted, !.commit = i, !.log = l]
  BY DEF Advanced
<1> HIDE DEF l
<1>10. /\ Advanced(i) \in CoreRecord
       /\ Advanced(i).role = core.role /\ Advanced(i).term = core.term
       /\ Advanced(i).applied = core.applied /\ Advanced(i).commit = i
       /\ Advanced(i).persisted = Persisted /\ Advanced(i).log = l
  <2>1. core \in CoreRecord BY TypeParts
  <2> QED BY <1>7, <1>8, <1>9, <2>1 DEF CoreRecord
<1>11. Deliverable(Advanced(i)) = Smaller(i, Persisted)
  BY <1>10 DEF Deliverable
<1>12. core.applied <= Smaller(i, Persisted) /\ core.applied <= i /\ core.applied <= Persisted
  <2>1. ~(core.applied > Smaller(i, Persisted))
    BY <1>11
  <2> QED BY <1>2, <1>3, <1>6, <2>1, SMT DEF Smaller
<1>13. rd.fresh => Persisted = LastIndex /\ rd.snap = 0 /\ core.persisted < LastIndex
  <2>1. rd.fresh => Persisted = Len(core.log)
    BY <1>2, <1>3, <1>12
  <2> QED BY <1>1, <1>2, <2>1
<1>14. ~rd.fresh => Persisted = core.persisted /\ i = core.commit
  BY <1>2, <1>3, <1>5
<1> QED BY <1>2, <1>4, <1>5, <1>6, <1>7, <1>8, <1>10, <1>11, <1>12, <1>13, <1>14 DEF l

\* The two ways advance ends.
Refuses(i) == core.applied > Deliverable(Advanced(i))
AdvancesTo(i) ==
    /\ core' = Advanced(i)
    /\ rd' = [rd EXCEPT !.upto = LastHanded(Advanced(i)), !.extra = Extra(Advanced(i))]
    /\ prev' = [prev EXCEPT !.commit = i]
    /\ Then(LightPhases(Advanced(i)))
    /\ mode' = mode

\* advance, when what was handled is what could be handed out.
LEMMA AdvancedKeeps ==
    ASSUME TypeOK, NodeInv, At("advance"), NEW i \in {core.commit} \cup Commits,
           ~Refuses(i), AdvancesTo(i),
           UNCHANGED <<lead, cmt, mine, disk, meta, acked, handled, breaches, crashes>>
    PROVE  TypeOK' /\ NodeInv'
<1> DEFINE c == Advanced(i)
<1>1. /\ PhasesOK /\ mode = "up" /\ Left = {"advance"} /\ ~Importing /\ UpInv /\ DiskInv
      /\ LastIndex \in Index0 /\ LastIndex \in Nat /\ LastIndex = StoredEnd
  BY AtAdvance
<1>2. /\ c \in CoreRecord
      /\ c.role = core.role /\ c.term = core.term
      /\ c.applied = core.applied /\ c.commit = i
      /\ c.persisted = Persisted
      /\ Len(c.log) = LastIndex /\ Same(disk.log, c.log, LastIndex)
      /\ i \in Nat /\ core.commit <= i /\ i <= LastIndex /\ i \in Index0
      /\ core.applied <= Deliverable(c)
      /\ core.applied <= i /\ core.applied <= Persisted
      /\ core.persisted <= Persisted /\ Persisted <= LastIndex /\ Persisted \in Nat
      /\ rd.fresh => Persisted = LastIndex /\ rd.snap = 0 /\ core.persisted < LastIndex
      /\ ~rd.fresh => Persisted = core.persisted /\ i = core.commit
  BY AdvanceIs DEF Refuses
<1>3. /\ core' = c /\ rd' = [rd EXCEPT !.upto = LastHanded(c), !.extra = Extra(c)]
      /\ Then(LightPhases(c)) /\ prev' = [prev EXCEPT !.commit = i] /\ mode' = mode
  BY DEF AdvancesTo
<1> HIDE DEF c
<1>4. /\ core.commit \in Nat /\ core.applied \in Nat /\ core.persisted \in Nat
      /\ FirstIndex \in Nat /\ disk.commit \in Nat /\ meta.index \in Nat /\ High \in Nat
  BY Fields
<1>5. /\ Deliverable(c) \in Nat /\ Deliverable(c) <= c.commit /\ Deliverable(c) <= c.persisted
      /\ LastHanded(c) \in Index0 /\ Extra(c) \in 0 .. MaxTerm
      /\ Extra(c) # 0 => /\ LastHanded(c) = Deliverable(c) + 1 /\ LastHanded(c) \in Index
                         /\ Extra(c) = disk.log[LastHanded(c)]
      /\ Extra(c) = 0 => LastHanded(c) = Deliverable(c)
      /\ c.applied < LastHanded(c) <=> c.applied < Deliverable(c)
  BY <1>2, HandedIs
<1>6. /\ rd' \in ReadyRecord /\ rd'.upto = LastHanded(c) /\ rd'.extra = Extra(c)
      /\ rd'.fresh = rd.fresh /\ rd'.snap = rd.snap
  <2>1. rd \in ReadyRecord BY TypeParts
  <2> QED BY <1>3, <1>5, <2>1 DEF ReadyRecord
<1>7. PhasesOK' /\ Left' = (IF i > core.commit THEN {"lightHard"} ELSE {})
                           \cup (IF c.applied < LastHanded(c) THEN {"handle", "apply"} ELSE {})
  <2> DEFINE ps == LightPhases(c)
  <2>1. /\ ps \in Seq(PhaseName) /\ Ordered(ps)
        /\ SetOf(ps) = (IF c.commit > core.commit THEN {"lightHard"} ELSE {})
                       \cup (IF c.applied < LastHanded(c) THEN {"handle", "apply"} ELSE {})
    BY LightIs
  <2>2. Then(ps) BY <1>3
  <2> HIDE DEF ps
  <2>3. \A r \in SetOf(ps), q \in Left : q = "advance" \/ Rank(r) < Rank(q)
    BY <1>1
  <2>4. PhasesOK' /\ Left' = SetOf(ps) \cup (Left \ {"advance"})
    BY <1>1, <2>1, <2>2, <2>3, ThenPhases
  <2> QED BY <1>1, <1>2, <2>1, <2>4
<1>8. /\ Left' \subseteq {"lightHard", "handle", "apply"}
      /\ "handle" \in Left' => "apply" \in Left' /\ c.applied < LastHanded(c)
      /\ c.applied < Deliverable(c) => "handle" \in Left'
  BY <1>5, <1>7
<1>9. /\ ~Importing' /\ ~Loading' /\ "advance" \notin Left' /\ "append" \notin Left'
      /\ "last" \notin Left' /\ "create" \notin Left' /\ "snapshot" \notin Left'
      /\ Left' \cap Imports = {} /\ ("handle" \in Left' => Handing')
  BY <1>8 DEF Importing, Imports, Loading, Handing
<1>10. TypeOK'
  <2>1. todo' \in Seq(PhaseName) BY <1>7 DEF PhasesOK
  <2>2. prev' \in HardState
    BY <1>2, <1>3, TypeParts DEF HardState
  <2>3. mode' \in {"down", "up", "failed"} BY <1>3, TypeParts
  <2> QED BY <1>2, <1>3, <1>6, <2>1, <2>2, <2>3, TypeParts, TypePartsNext
<1>11. FirstIndex' = FirstIndex /\ LastIndex' = LastIndex /\ StoredEnd' = StoredEnd
  BY DEF FirstIndex, LastIndex, StoredEnd, Unset
<1>12. CoreInv'
  <2>1. CoreInv BY <1>1 DEF UpInv
  <2>2. High' = Larger(i, core.applied) BY <1>2, <1>3 DEF High
  <2>3. High <= High' /\ High' \in Nat
    BY <1>2, <1>4, <2>2, SMT DEF High, Larger
  <2>4. disk.commit <= High' /\ meta.index <= High' /\ FirstIndex <= High' + 1
    <3>1. disk.commit <= High /\ meta.index <= High /\ FirstIndex <= High + 1
      BY <2>1 DEF CoreInv
    <3> QED BY <1>4, <2>3, <3>1, AtMost
  <2>5. core.role = "leader" => /\ core.term \in Term /\ core.term \in mine /\ Persisted = LastIndex
    <3>1. core.role = "leader" => /\ core.term \in Term /\ core.term \in mine
                                  /\ core.persisted = Len(core.log) \/ rd.fresh
      BY <2>1 DEF CoreInv
    <3>2. core.role = "leader" => LastIndex = Len(core.log)
      BY AtAdvance
    <3> QED BY <1>2, <3>1, <3>2
  <2>6. ~(c.applied > Deliverable(c))
    BY <1>2, <1>4, <1>5
  <2>7. prev'.commit = i
    BY <1>3, TypeParts DEF HardState
  <2>8. Deliverable(core') = Deliverable(c)
    BY <1>3
  <2> QED BY <1>2, <1>3, <1>8, <1>9, <1>11, <2>4, <2>5, <2>6, <2>7, <2>8 DEF CoreInv
<1>13. HandleInv'
  BY <1>3, <1>5, <1>6, <1>8, <1>9 DEF HandleInv, Index
<1>14. StoredInv' /\ AppendInv' /\ LoadInv' /\ ImportInv'
  BY <1>2, <1>3, <1>9, <1>11 DEF StoredInv, AppendInv, LoadInv, ImportInv, Same
<1>15. UnsavedInv'
  <2> SUFFICES ASSUME disk.last = Unset
               PROVE  /\ disk.commit = meta.index
                      /\ c.applied = meta.index /\ c.persisted = meta.index /\ meta.index <= i
                      /\ "handle" \notin Left'
    BY <1>2, <1>3, <1>9 DEF UnsavedInv, Unset
  <2>1. /\ disk.commit = meta.index /\ core.applied = meta.index
        /\ core.persisted = meta.index /\ meta.index <= core.commit
    BY <1>1 DEF UpInv, UnsavedInv
  <2>2. ~rd.fresh
    <3>1. LastIndex = meta.index BY DEF LastIndex
    <3> QED BY <1>2, <1>4, <2>1, <3>1
  <2>3. Persisted = meta.index
    BY <1>2, <2>1, <2>2
  <2>4. ~(c.applied < Deliverable(c))
    BY <1>2, <1>4, <1>5, <2>1, <2>3
  <2>5. "handle" \notin Left'
    BY <1>5, <1>8, <2>4
  <2> QED BY <1>2, <1>4, <2>1, <2>3, <2>5
<1>16. DiskInv'
  BY <1>1, <1>3, <1>11 DEF DiskInv, Index
<1> QED BY <1>7, <1>10, <1>12, <1>13, <1>14, <1>15, <1>16 DEF NodeInv, UpInv, PhasesOK

\* advance.
LEMMA AdvanceKeeps ==
    ASSUME TypeOK, NodeInv, Advance
    PROVE  TypeOK' /\ NodeInv'
<1>1. /\ At("advance")
      /\ UNCHANGED <<lead, cmt, mine, disk, meta, acked, handled, breaches, crashes>>
  BY DEF Advance, history
<1>2. PICK i \in {core.commit} \cup Commits :
        IF Refuses(i) THEN mode' = "failed" /\ UNCHANGED <<core, prev, rd, todo>>
        ELSE AdvancesTo(i)
  BY Zenon DEF Advance, AdvancesTo, Refuses
<1>3. CASE Refuses(i)
  BY <1>1, <1>2, <1>3, FailKeeps
<1>4. CASE ~Refuses(i)
  BY <1>1, <1>2, <1>4, AdvancedKeeps
<1> QED BY <1>3, <1>4

-----------------------------------------------------------------------------
(* The theorems. *)

\* An empty disk, before the first start.
LEMMA InitHolds ==
    ASSUME Init
    PROVE  TypeOK /\ NodeInv
<1>1. /\ lead \in [Term -> Log] /\ cmt \in [Term -> Index0] /\ mine \in Mines
      /\ disk = EmptyDisk /\ meta = [index |-> 0, term |-> 0] /\ core = NoCore
      /\ prev = [term |-> 0, vote |-> 0, commit |-> 0]
      /\ rd = NoReady /\ todo = <<>> /\ mode = "down"
      /\ acked = <<>> /\ handled = {} /\ breaches = {} /\ crashes = 0
  BY DEF Init
<1>2. MaxLog \in Nat /\ MaxTerm \in Nat /\ MaxCrashes \in Nat /\ mine \subseteq Term
  BY <1>1, ConstantsAssumption DEF Term
<1>3. 0 \in Index0 /\ 0 \in 0 .. MaxTerm /\ 0 \in 0 .. MaxLog + 1 /\ Unset \in 0 .. Unset
      /\ 0 \in 0 .. MaxCrashes
  BY <1>2, SMT DEF Index0, Unset
<1>4. <<>> \in Log
  <2>1. <<>> \in Seq(Term) /\ Len(<<>>) = 0 OBVIOUS
  <2>2. Len(<<>>) <= MaxLog BY <1>2, <2>1
  <2> QED BY <2>1, <2>2, IsLog
<1>5. disk \in DiskRecord
  BY <1>1, <1>3 DEF EmptyDisk, DiskRecord
<1>6. core \in CoreRecord
  BY <1>1, <1>3, <1>4 DEF NoCore, CoreRecord
<1>7. rd \in ReadyRecord
  <2>1. 1 .. 0 \in SUBSET Index OBVIOUS
  <2> QED BY <1>1, <1>3, <2>1 DEF NoReady, Ready, NoSnapshot, ReadyRecord
<1>8. prev \in HardState /\ meta \in MetaRecord
  BY <1>1, <1>3 DEF HardState, MetaRecord
<1>9. TypeOK
  <2>1. todo \in Seq(PhaseName) BY <1>1
  <2> QED BY <1>1, <1>2, <1>3, <1>4, <1>5, <1>6, <1>7, <1>8, <2>1, TypeParts
<1>10. DiskInv
  <2>1. disk.commit = 0 /\ disk.term = 0 /\ disk.last = Unset
    BY <1>1 DEF EmptyDisk
  <2>2. \A i \in Index : ~(i <= StoredEnd)
    BY <2>1 DEF StoredEnd, Index
  <2> QED BY <1>1, <2>1, <2>2 DEF DiskInv
<1>11. Ordered(todo)
  BY <1>1 DEF Ordered
<1> QED BY <1>1, <1>9, <1>10, <1>11 DEF NodeInv

\* Whatever does not change the node changes nothing the invariant speaks of.
LEMMA StutterKeeps ==
    ASSUME TypeOK, NodeInv, UNCHANGED vars
    PROVE  TypeOK' /\ NodeInv'
<1>1. UNCHANGED <<lead, cmt, mine, disk, meta, core, prev, rd, todo, mode, acked, handled,
                  breaches, crashes>>
  BY DEF vars, history, node
<1>2. TypeOK'
  BY <1>1, TypeParts, TypePartsNext
<1>3. /\ Left' = Left /\ FirstIndex' = FirstIndex /\ LastIndex' = LastIndex /\ Unset' = Unset
      /\ StoredEnd' = StoredEnd /\ High' = High /\ Deliverable(core)' = Deliverable(core)
  BY <1>1 DEF Left, SetOf, FirstIndex, LastIndex, Unset, StoredEnd, High, Deliverable
<1>4. Importing' = Importing /\ Loading' = Loading /\ Handing' = Handing /\ Waiting' = Waiting
  BY <1>1, <1>3 DEF Importing, Loading, Handing, Waiting, Imports
<1>5. Ordered(todo)' /\ DiskInv'
  BY <1>1, <1>3 DEF NodeInv, DiskInv, Ordered, Index
<1>6. UpInv => CoreInv' /\ HandleInv' /\ StoredInv' /\ UnsavedInv' /\ AppendInv'
  <2>1. UpInv => CoreInv'
    BY <1>1, <1>3, <1>4 DEF UpInv, CoreInv, Term
  <2>2. UpInv => HandleInv' /\ StoredInv' /\ UnsavedInv' /\ AppendInv'
    BY <1>1, <1>3, <1>4 DEF UpInv, HandleInv, StoredInv, UnsavedInv, AppendInv, Same, Index
  <2> QED BY <2>1, <2>2
<1>7. UpInv => LoadInv' /\ ImportInv'
  <2>1. UpInv => LoadInv'
    BY <1>1, <1>3, <1>4 DEF UpInv, LoadInv, Same, Term, Imports
  <2>2. UpInv => ImportInv'
    BY <1>1, <1>3, <1>4 DEF UpInv, ImportInv, Imports
  <2> QED BY <2>1, <2>2
<1> QED BY <1>1, <1>2, <1>5, <1>6, <1>7 DEF NodeInv, UpInv

\* Every step keeps types and invariant.
LEMMA NextKeeps ==
    ASSUME TypeOK, NodeInv, [Next]_vars
    PROVE  TypeOK' /\ NodeInv'
<1>1. CASE Step
  <2>1. CASE \E t \in Term, c \in Candidates \cup {0} : Vote(t, c)
    BY <2>1, VoteKeeps
  <2>2. CASE \E t \in Term, p, n, known \in Index0 : MsgAppend(t, p, n, known)
    BY <2>2, MsgAppendKeeps
  <2>3. CASE \E t, m \in Term, s, n \in Index, f \in Index \cup {Unset} : MsgSnapshot(t, s, n, f, m)
    BY <2>3, MsgSnapshotKeeps
  <2>4. CASE \E i \in Index : Quorum(i)
    BY <2>4, QuorumKeeps
  <2> QED BY <1>1, <2>1, <2>2, <2>3, <2>4, BecomeLeaderKeeps, ProposeKeeps, SnapshotForPeerKeeps
          DEF Step
<1>2. CASE ReadyLoop
  BY <1>2, ApplySnapshotKeeps, ImportEntryKeeps, ImportFirstKeeps, ImportHardKeeps,
     ImportLastKeeps, AdoptSnapshotKeeps, AppendEntryKeeps, AppendLastKeeps, HandleEntryKeeps,
     CreateSnapshotKeeps, PanicKeeps, SetHardStateKeeps, SendKeeps, AdvanceKeeps,
     SetHardStateCommitKeeps, AdvanceApplyKeeps DEF ReadyLoop
<1>3. CASE Crash \/ Start
  BY <1>3, CrashKeeps, StartKeeps
<1>4. CASE UNCHANGED vars
  BY <1>4, StutterKeeps
<1> QED BY <1>1, <1>2, <1>3, <1>4 DEF Next

\* Types and invariant hold in every reachable state: what the run loop, on_ready and
\* write_all have in memory and on disk agree, phase by phase.
THEOREM NodeInvariant == Spec => [](TypeOK /\ NodeInv)
<1>1. Init => TypeOK /\ NodeInv
  BY InitHolds
<1>2. TypeOK /\ NodeInv /\ [Next]_vars => TypeOK' /\ NodeInv'
  BY NextKeeps
<1> QED BY <1>1, <1>2, PTL DEF Spec

\* The variables keep their types, entry by entry and key by key.
THEOREM TypeCorrect == Spec => []TypeOK
<1> QED BY NodeInvariant, PTL

\* Between two turns the stored log is RawNode's, whatever was received, imported,
\* torn by a crash or loaded by a restart (append, save_last_index, write_all).
THEOREM StoredLogIsKept == Spec => []StoredLogIsTheCores
<1>1. TypeOK /\ NodeInv => StoredLogIsTheCores
  <2> SUFFICES ASSUME TypeOK, NodeInv, Idle PROVE Stored = core.log
    BY DEF StoredLogIsTheCores
  <2>1. Same(disk.log, core.log, Len(core.log)) /\ LastIndex = Len(core.log)
    BY AtIdle DEF Idle
  <2> DEFINE n == Len(core.log)
  <2>2. Stored = [i \in 1 .. n |-> core.log[i]]
    BY <2>1 DEF Stored, Same
  <2>3. core.log \in Log
    BY Fields
  <2>4. n \in Nat /\ DOMAIN core.log = 1 .. n /\ core.log \in Seq(Term)
    BY <2>3, LogIs
  <2> QED BY <2>2, <2>4
<1> QED BY <1>1, NodeInvariant, PTL

\* append is reached only where its assertions hold.
LEMMA AppendContinues ==
    ASSUME TypeOK, NodeInv, At("append")
    PROVE  ~Discontinuous
<1>1. PhasesOK
  BY Phases
<1>2. mode = "up" /\ "append" \in Left
  BY <1>1, AtPhase
<1>3. core.persisted < rd.next /\ FirstIndex <= core.persisted + 1 /\ LastIndex + 1 >= rd.next
  BY <1>2, AtAppend
<1>4. core.persisted \in Nat /\ rd.next \in Nat /\ FirstIndex \in Nat /\ LastIndex \in Nat
  BY Fields
<1> QED BY <1>3, <1>4, SMT DEF Discontinuous

\* append is reached only where its two assertions hold: what is left to append follows
\* what is stored, after any import, snapshot, replacement or crash (append).
THEOREM AppendIsContinuous == Spec => []AppendFollowsStored
<1>1. TypeOK /\ NodeInv => AppendFollowsStored
  BY AppendContinues DEF AppendFollowsStored
<1> QED BY <1>1, NodeInvariant, PTL


-----------------------------------------------------------------------------
(***************************************************************************)
(* While the storage has broken none of its contracts and no crash has     *)
(* fallen inside a write, nothing fails: what was handed out is committed  *)
(* and persisted, RawNode counts all it has as persisted between two turns *)
(* (or it would panic on the next entry), and what is on disk is something *)
(* RawNode::new accepts, but for the middle of an import.                  *)
(***************************************************************************)

\* write_all is past first_index's neighbours and has not come to last_index.
HalfImported == "importEntry" \notin Left /\ "importLast" \in Left

\* RawNode::new would accept what is stored.
RestartOK ==
    /\ disk.commit <= StoredEnd
    /\ disk.first # Unset => disk.first <= disk.commit + 1

CleanCore ==
    /\ core.applied <= Deliverable(core)
    /\ core.persisted = Len(core.log) \/ (rd.fresh /\ "advance" \in Left)
    /\ disk.first # Unset => disk.first <= core.applied + 1

CleanImport ==
    /\ Loading /\ ~Importing => disk.last = rd.snap
    /\ Left \cap Imports # {} /\ "importHard" \notin Left => disk.commit = rd.snap
    /\ Left \cap {"importEntry", "importFirst", "importHard"} # {} => "importLast" \in Left

CleanDisk == HalfImported \/ RestartOK

CleanInv ==
    breaches = {} =>
        /\ mode = "up" => CleanCore /\ CleanImport /\ CleanDisk
        /\ mode # "up" => RestartOK
        /\ mode = "failed" => todo # <<>> /\ Head(todo) = "handle" /\ Routed \in KvTerms

\* The state is clean and the node runs.
Fine == TypeOK /\ NodeInv /\ mode = "up" /\ breaches = {} /\ CleanCore /\ CleanImport /\ CleanDisk

\* The next one is.
StaysFine == mode' = "up" /\ CleanCore' /\ CleanImport' /\ CleanDisk'

\* Outside an import the disk is one that a restart accepts.
LEMMA FineDisk ==
    ASSUME Fine, Left \cap Imports = {}
    PROVE  RestartOK /\ ~HalfImported
BY DEF Fine, CleanDisk, HalfImported, Imports

\* A turn does not touch the disk; what it turns the core into has to be clean.
LEMMA CleanTurn ==
    ASSUME Fine, NEW c \in CoreRecord, NEW next \in Nat, NEW s, Turn(c, next, s),
           s = NoSnapshot \/ s.snap # 0,
           c.applied <= Deliverable(c), core.applied <= c.applied,
           c.persisted = Len(c.log) \/ next <= Len(c.log)
    PROVE  StaysFine
<1>1. /\ mode = "up" /\ mode' = "up" /\ todo = <<>> /\ Left = {}
      /\ core' = c /\ rd' = Ready(next <= Len(c.log), next, LastHanded(c), Extra(c), s)
      /\ disk' = disk
      /\ Left' \subseteq {"snapshot", "append", "handle", "hard", "send", "advance"}
      /\ "snapshot" \in Left' <=> s # NoSnapshot
      /\ "advance" \in Left'
  BY TurnIs DEF history, Fine
<1>2. RestartOK
  BY <1>1, FineDisk
<1>3. RestartOK'
  BY <1>1, <1>2 DEF RestartOK, StoredEnd, Unset
<1>4. CleanDisk'
  BY <1>3 DEF CleanDisk
<1>5. Left' \cap Imports = {}
  BY <1>1 DEF Imports
<1>6. rd'.fresh = (next <= Len(c.log)) /\ rd'.snap = s.snap
  BY <1>1 DEF Ready
<1>7. CleanImport'
  <2>1. Loading' => Importing'
    BY <1>1, <1>6 DEF Loading, Importing, NoSnapshot
  <2> QED BY <1>5, <2>1 DEF CleanImport, Imports
<1>8. CleanCore'
  <2>1. /\ core.applied \in Nat /\ disk.first \in Nat
    BY Fields DEF Fine
  <2>2. c.applied \in Nat
    BY DEF CoreRecord, Index0
  <2>3. disk.first # Unset => disk.first <= c.applied + 1
    BY <2>1, <2>2 DEF Fine, CleanCore
  <2>4. disk'.first # Unset' => disk'.first <= c.applied + 1
    BY <1>1, <2>3 DEF Unset
  <2>5. Deliverable(core)' = Deliverable(c)
    BY <1>1 DEF Deliverable
  <2> QED BY <1>1, <1>6, <2>4, <2>5 DEF CleanCore
<1> QED BY <1>1, <1>4, <1>7, <1>8 DEF StaysFine

\* What a fine node between two turns has: all it has is persisted and applied.
LEMMA FineIdle ==
    ASSUME Fine, todo = <<>>
    PROVE  /\ TypeOK /\ NodeInv /\ core \in CoreRecord
           /\ core.persisted = Len(core.log) /\ LastIndex = Len(core.log)
           /\ core.applied = core.commit /\ core.commit <= Len(core.log)
           /\ disk.commit <= core.commit
           /\ core.commit \in Nat /\ Len(core.log) \in Nat
<1>1. /\ TypeOK /\ NodeInv /\ mode = "up" /\ Left = {}
      /\ LastIndex = Len(core.log) /\ core.applied = Deliverable(core)
      /\ core.commit <= Len(core.log) /\ disk.commit <= core.commit
  BY AtIdle DEF Fine
<1>2. core.persisted = Len(core.log)
  BY <1>1 DEF Fine, CleanCore
<1>3. core.commit \in Nat /\ Len(core.log) \in Nat /\ core \in CoreRecord
  BY <1>1, Fields, TypeParts
<1>4. core.applied = core.commit
  BY <1>1, <1>2, <1>3, SMT DEF Deliverable, Smaller
<1> QED BY <1>1, <1>2, <1>3, <1>4

\* A turn that leaves log and applied entries alone and takes no commit back.
LEMMA CleanQuiet ==
    ASSUME Fine, NEW c \in CoreRecord, NEW next \in Nat, Turn(c, next, NoSnapshot),
           c.log = core.log, c.persisted = core.persisted, c.applied = core.applied,
           core.commit <= c.commit
    PROVE  StaysFine
<1>1. mode = "up" /\ todo = <<>>
  BY DEF Turn, Idle
<1>2. /\ core.persisted = Len(core.log) /\ core.applied = core.commit
      /\ core.commit <= Len(core.log) /\ core.commit \in Nat /\ Len(core.log) \in Nat
  BY <1>1, FineIdle
<1>3. c.commit \in Nat
  BY DEF CoreRecord, Index0
<1>4. c.applied <= Deliverable(c) /\ core.applied <= c.applied
  BY <1>2, <1>3, SMT DEF Deliverable, Smaller
<1> QED BY <1>2, <1>4, CleanTurn

LEMMA VoteClean ==
    ASSUME Fine, NEW t \in Term, NEW v \in Candidates \cup {0}, Vote(t, v)
    PROVE  StaysFine
<1> DEFINE c == IF v = 0 THEN InTerm(t) ELSE [InTerm(t) EXCEPT !.vote = v]
<1>1. /\ TypeOK /\ NodeInv /\ mode = "up" /\ todo = <<>> /\ t >= core.term
      /\ Turn(c, Len(c.log) + 1, NoSnapshot)
  BY DEF Vote, QuietTurn, Turn, Idle, Fine
<1>2. /\ c \in CoreRecord /\ c.log = core.log /\ c.commit = core.commit
      /\ c.applied = core.applied /\ c.persisted = core.persisted
  <2>1. /\ InTerm(t) \in CoreRecord
        /\ InTerm(t).log = core.log /\ InTerm(t).commit = core.commit
        /\ InTerm(t).applied = core.applied /\ InTerm(t).persisted = core.persisted
    BY <1>1, InTermIs
  <2> QED BY <2>1 DEF CoreRecord
<1> HIDE DEF c
<1>3. core.commit <= c.commit /\ Len(c.log) + 1 \in Nat
  BY <1>1, <1>2, FineIdle
<1> QED BY <1>1, <1>2, <1>3, CleanQuiet

\* No message makes RawNode put entries where it keeps none: what the storage has
\* an answer for ends where the persisted entries do.
LEMMA NoAbort ==
    ASSUME Fine, NEW t \in Term, NEW p \in Index0, NEW n \in Index0, NEW known \in Index0,
           MsgAppend(t, p, n, known)
    PROVE  mode' = "up"
<1> DEFINE l == Front(lead[t], n)
           k == Agreed(l, p)
           m == Larger(core.commit, Smaller(known, n))
<1>1. /\ mode = "up" /\ todo = <<>> /\ n <= Len(lead[t]) /\ p <= n
      /\ TypeOK /\ NodeInv
  BY MsgAppendIs DEF Fine, MsgAppend
<1>2. lead[t] \in Log /\ Len(lead[t]) \in Nat /\ n \in Nat /\ p \in Nat
  BY MsgAppendIs, <1>1 DEF Index0
<1>3. IF p < core.commit \/ (p > 0 /\ Answer(p) # l[p])
      THEN QuietTurn(InTerm(t)) ELSE Accept(t, l, k, m)
  BY DEF MsgAppend
<1>4. CASE QuietTurn(InTerm(t))
  BY <1>1, <1>4 DEF QuietTurn, Turn
<1>5. CASE Accept(t, l, k, m) /\ ~(p < core.commit \/ (p > 0 /\ Answer(p) # l[p]))
  <2>1. /\ l \in Log /\ Len(l) = n /\ \A i \in 1 .. n : l[i] = lead[t][i]
    BY <1>1, <1>2, FrontIs
  <2>2. \A i \in 1 .. n : l[i] # 0
    BY <1>2, <2>1, LogIs DEF Term
  <2>3. /\ k \in p .. n /\ \A i \in p + 1 .. k : Answer(i) = l[i]
    BY <1>1, <1>2, <2>1, AgreedIs
  <2>4. core.persisted = LastIndex /\ LastIndex \in Nat
    BY <1>1, FineIdle
  <2>5. k <= LastIndex
    <3>1. CASE k = 0
      BY <2>4, <3>1
    <3>2. CASE k # 0
      <4>1. k \in 1 .. n /\ Answer(k) = l[k]
        <5>1. CASE k = p
          BY <1>2, <1>5, <2>3, <3>2, <5>1
        <5>2. CASE k # p
          BY <1>2, <2>3, <3>2, <5>2
        <5> QED BY <5>1, <5>2
      <4> HIDE DEF l, k
      <4>2. Answer(k) # 0 /\ k \in Nat
        BY <1>2, <2>2, <4>1
      <4> QED BY <1>1, <4>2, AnswerIs
    <3> QED BY <3>1, <3>2
  <2> HIDE DEF l, k, m
  <2>6. ~(k > core.persisted)
    BY <1>2, <2>3, <2>4, <2>5
  <2> QED BY <1>1, <1>5, <2>6 DEF Accept, Turn
<1> QED BY <1>3, <1>4, <1>5

LEMMA MsgAppendClean ==
    ASSUME Fine, NEW t \in Term, NEW p \in Index0, NEW n \in Index0, NEW known \in Index0,
           MsgAppend(t, p, n, known)
    PROVE  StaysFine
<1>1. mode = "up" /\ todo = <<>> /\ t >= core.term /\ TypeOK /\ NodeInv /\ mode' = "up"
  BY MsgAppendIs, NoAbort DEF Fine
<1>2. CASE OnlyAnswered(t)
  <2>1. /\ InTerm(t) \in CoreRecord
        /\ InTerm(t).log = core.log /\ InTerm(t).commit = core.commit
        /\ InTerm(t).applied = core.applied /\ InTerm(t).persisted = core.persisted
    BY <1>1, InTermIs
  <2>2. Turn(InTerm(t), Len(InTerm(t).log) + 1, NoSnapshot)
    BY <1>2 DEF OnlyAnswered, QuietTurn
  <2>3. core.commit <= core.commit /\ Len(core.log) + 1 \in Nat
    BY <1>1, FineIdle
  <2> QED BY <2>1, <2>2, <2>3, CleanQuiet
<1>3. CASE Abort
  BY <1>1, <1>3 DEF Abort
<1>4. CASE /\ core' \in CoreRecord /\ core'.applied = core.applied
           /\ core.commit <= core'.commit
           /\ \/ TellsCommit(t, n, known)
              \/ \E k \in Nat : BringsLog(t, n, k, known)
  <2> DEFINE c == core'
  <2>1. CASE TellsCommit(t, n, known)
    <3>1. /\ Turn(c, Len(core.log) + 1, NoSnapshot)
          /\ c.log = core.log /\ c.persisted = core.persisted
      BY <2>1 DEF TellsCommit
    <3>2. Len(core.log) + 1 \in Nat
      BY <1>1, FineIdle
    <3>3. c \in CoreRecord /\ c.applied = core.applied /\ core.commit <= c.commit
      BY <1>4
    <3> HIDE DEF c
    <3> QED BY <3>1, <3>2, <3>3, CleanQuiet
  <2>2. CASE \E k \in Nat : BringsLog(t, n, k, known)
    <3>1. PICK k \in Nat : BringsLog(t, n, k, known)
      BY <2>2
    <3>2. /\ Turn(c, k + 1, NoSnapshot) /\ core.commit <= k /\ k < n
          /\ c.persisted = k /\ Len(c.log) = n
      BY <3>1 DEF BringsLog
    <3>3. n \in Nat /\ k + 1 <= n /\ k + 1 \in Nat
      BY <3>2 DEF Index0
    <3>4. core.applied = core.commit /\ core.commit \in Nat
      BY <1>1, FineIdle
    <3>5. c \in CoreRecord /\ c.applied = core.applied /\ core.commit <= c.commit
          /\ c.commit \in Nat
      BY <1>4 DEF CoreRecord, Index0
    <3> HIDE DEF c
    <3>6. c.applied <= Deliverable(c) /\ core.applied <= c.applied
      BY <3>2, <3>4, <3>5, SMT DEF Deliverable, Smaller
    <3> QED BY <3>2, <3>3, <3>5, <3>6, CleanTurn
  <2> QED BY <1>4, <2>1, <2>2
<1> QED BY <1>1, <1>2, <1>3, <1>4, MsgAppendIs DEF Fine

\* A leader's entry of its own.
LEMMA CleanGrow ==
    ASSUME Fine, core.term \in Term, core.term \in mine,
           Len(core.log) < Len(lead[core.term]),
           Turn([core EXCEPT !.role = "leader", !.log = Append(core.log, core.term)],
                Len(core.log) + 1, NoSnapshot)
    PROVE  StaysFine
<1> DEFINE c == [core EXCEPT !.role = "leader", !.log = Append(core.log, core.term)]
<1>1. mode = "up" /\ todo = <<>> /\ TypeOK /\ NodeInv
  BY DEF Turn, Idle, Fine
<1>2. /\ core \in CoreRecord /\ core.log \in Log /\ Len(core.log) \in Nat
      /\ core.applied <= Deliverable(core)
  BY <1>1, FineIdle, Fields DEF Fine, CleanCore
<1>3. Len(core.log) < MaxLog
  <2>1. lead[core.term] \in Log BY <1>1, TypeParts
  <2>2. Len(lead[core.term]) <= MaxLog /\ Len(lead[core.term]) \in Nat BY <2>1, LogIs
  <2> QED BY <1>2, <2>2, ConstantsAssumption
<1>4. Append(core.log, core.term) \in Log /\ Len(Append(core.log, core.term)) = Len(core.log) + 1
  BY <1>2, <1>3, AppendIs
<1>5. /\ c \in CoreRecord /\ c.log = Append(core.log, core.term) /\ c.commit = core.commit
      /\ c.applied = core.applied /\ c.persisted = core.persisted
  BY <1>2, <1>4 DEF CoreRecord
<1>6. Turn(c, Len(core.log) + 1, NoSnapshot)
  OBVIOUS
<1> HIDE DEF c
<1>7. Len(core.log) + 1 \in Nat /\ Len(core.log) + 1 <= Len(c.log)
  BY <1>2, <1>4, <1>5
<1>8. c.applied <= Deliverable(c) /\ core.applied <= c.applied
  <2>1. core.applied \in Nat BY <1>1, Fields
  <2>2. Deliverable(c) = Deliverable(core) BY <1>5 DEF Deliverable
  <2> QED BY <1>2, <1>5, <2>1, <2>2
<1> QED BY <1>5, <1>6, <1>7, <1>8, CleanTurn

LEMMA BecomeLeaderClean ==
    ASSUME Fine, BecomeLeader
    PROVE  StaysFine
<1>1. /\ core.term \in mine /\ core.term \in Term /\ Len(lead[core.term]) > Len(core.log)
      /\ TypeOK /\ NodeInv
  BY TypeParts DEF BecomeLeader, Fine
<1>2. lead[core.term] \in Log /\ core.log \in Log
  BY <1>1, TypeParts, Fields
<1>3. Len(core.log) < Len(lead[core.term])
  BY <1>1, <1>2, LogIs
<1>4. core.persisted = Len(core.log)
  <2>1. mode = "up" /\ todo = <<>> BY DEF BecomeLeader, Turn, Abort, Idle
  <2> QED BY <2>1, FineIdle
<1>5. Turn([core EXCEPT !.role = "leader", !.log = Append(core.log, core.term)],
           Len(core.log) + 1, NoSnapshot)
  BY <1>4 DEF BecomeLeader
<1> QED BY <1>1, <1>3, <1>5, CleanGrow

LEMMA ProposeClean ==
    ASSUME Fine, Propose
    PROVE  StaysFine
<1>1. /\ core.role = "leader" /\ Len(core.log) < Len(lead[core.term])
      /\ Turn([core EXCEPT !.log = Append(core.log, core.term)], Len(core.log) + 1, NoSnapshot)
      /\ TypeOK /\ NodeInv
  BY DEF Propose, Fine
<1>2. mode = "up" /\ todo = <<>>
  BY <1>1 DEF Turn, Idle
<1>3. core.term \in Term /\ core.term \in mine
  BY <1>1, <1>2, AtIdle
<1>4. [core EXCEPT !.log = Append(core.log, core.term)] =
          [core EXCEPT !.role = "leader", !.log = Append(core.log, core.term)]
  <2>1. core \in CoreRecord BY <1>1, TypeParts
  <2> DEFINE l == Append(core.log, core.term)
  <2> HIDE DEF l
  <2>2. [core EXCEPT !.log = l] = [core EXCEPT !.role = "leader", !.log = l]
    BY <1>1, <2>1 DEF CoreRecord
  <2> QED BY <2>2 DEF l
<1> QED BY <1>1, <1>3, <1>4, CleanGrow

LEMMA QuorumClean ==
    ASSUME Fine, NEW i \in Index, Quorum(i)
    PROVE  StaysFine
<1> DEFINE c == [core EXCEPT !.commit = i]
<1>1. /\ core.role = "leader" /\ i \in LeaderCommits(core.persisted)
      /\ Turn(c, Len(c.log) + 1, NoSnapshot) /\ mode = "up" /\ todo = <<>>
      /\ TypeOK /\ NodeInv
  BY DEF Quorum, QuietTurn, Turn, Idle, Fine
<1>2. /\ core \in CoreRecord /\ core.persisted = Len(core.log)
      /\ core.commit \in Nat /\ Len(core.log) \in Nat /\ core.term \in Term
      /\ i \in Nat /\ i \in Index0
  BY <1>1, FineIdle, AtIdle DEF Index, Index0
<1>3. i > core.commit
  <2>1. cmt[core.term] \in Nat
    BY <1>1, <1>2, TypeParts DEF Index0
  <2>2. i \in core.commit + 1 .. Smaller(core.persisted, cmt[core.term])
    BY <1>1 DEF LeaderCommits
  <2> QED BY <1>2, <2>1, <2>2 DEF Smaller
<1>4. /\ c \in CoreRecord /\ c.log = core.log /\ c.commit = i
      /\ c.applied = core.applied /\ c.persisted = core.persisted
  BY <1>2 DEF CoreRecord
<1> HIDE DEF c
<1>5. core.commit <= c.commit /\ Len(c.log) + 1 \in Nat
  BY <1>2, <1>3, <1>4
<1> QED BY <1>1, <1>4, <1>5, CleanQuiet

LEMMA MsgSnapshotClean ==
    ASSUME Fine, NEW t \in Term, NEW s \in Index, NEW n \in Index,
           NEW f \in Index \cup {Unset}, NEW m \in Term, MsgSnapshot(t, s, n, f, m)
    PROVE  StaysFine
<1> DEFINE c == core'
<1>1. /\ mode = "up" /\ todo = <<>> /\ s \in Nat /\ 1 <= s /\ core.commit <= s
      /\ c \in CoreRecord /\ c.commit = s /\ TypeOK /\ NodeInv
  BY MsgSnapshotIs DEF Fine
<1>2. CASE BringsSnapshot(t, s, n, f, m) /\ c.applied = s /\ c.persisted = s /\ Len(c.log) = s
  <2>1. Turn(c, s + 1, Brought(t, s, n, f, m))
    BY <1>2 DEF BringsSnapshot
  <2>2. Brought(t, s, n, f, m).snap # 0
    BY <1>1 DEF Brought
  <2>3. core.applied = core.commit /\ core.commit \in Nat
    BY <1>1, FineIdle
  <2> DEFINE b == Brought(t, s, n, f, m)
  <2> HIDE DEF c, b
  <2>4. c.applied <= Deliverable(c) /\ core.applied <= c.applied
    BY <1>1, <1>2, <2>3, SMT DEF Deliverable, Smaller
  <2>5. s + 1 \in Nat /\ c.persisted = Len(c.log)
    BY <1>1, <1>2
  <2>6. Turn(c, s + 1, b) /\ b.snap # 0
    BY <2>1, <2>2 DEF b
  <2> QED BY <1>1, <2>4, <2>5, <2>6, CleanTurn
<1>3. CASE TellsSnapshot(t, s) /\ c.log = core.log
           /\ c.applied = core.applied /\ c.persisted = core.persisted
  <2>1. Turn(c, Len(core.log) + 1, NoSnapshot)
    BY <1>3 DEF TellsSnapshot
  <2>2. Len(core.log) + 1 \in Nat
    BY <1>1, FineIdle
  <2> HIDE DEF c
  <2> QED BY <1>1, <1>3, <2>1, <2>2, CleanQuiet
<1> QED BY <1>2, <1>3, MsgSnapshotIs DEF Fine

LEMMA SnapshotForPeerClean ==
    ASSUME Fine, SnapshotForPeer
    PROVE  StaysFine
<1>1. /\ mode = "up" /\ todo = <<>> /\ todo' = todo /\ mode' = mode
      /\ UNCHANGED <<core, rd>> /\ disk' = [disk EXCEPT !.first = disk.commit]
  BY DEF SnapshotForPeer, Idle, Created
<1>2. Left = {} /\ Left' = {}
  BY <1>1, AtIdle DEF Left, SetOf
<1>3. /\ disk'.first = disk.commit /\ disk'.last = disk.last /\ disk'.commit = disk.commit
  BY <1>1, TypeParts DEF Fine, DiskRecord
<1>4. /\ disk.commit \in Nat /\ core.applied \in Nat /\ disk.commit <= core.applied
  BY <1>1, FineIdle, Fields DEF Fine
<1>5. RestartOK
  BY <1>2, FineDisk
<1>6. RestartOK'
  BY <1>3, <1>4, <1>5 DEF RestartOK, StoredEnd, Unset
<1>7. CleanCore'
  <2>1. Deliverable(core)' = Deliverable(core) BY <1>1 DEF Deliverable
  <2>2. disk'.first <= core.applied + 1
    BY <1>3, <1>4
  <2> QED BY <1>1, <1>2, <2>1, <2>2 DEF CleanCore, Fine
<1>8. CleanImport'
  BY <1>2 DEF CleanImport, Loading
<1> QED BY <1>1, <1>6, <1>7, <1>8 DEF StaysFine, CleanDisk, Fine

\* A phase that leaves the core, the Ready and first_index alone.
LEMMA CleanPhase ==
    ASSUME Fine, mode' = "up", UNCHANGED core, rd'.snap = rd.snap, rd'.fresh = rd.fresh,
           disk'.first = disk.first, "advance" \in Left' <=> "advance" \in Left,
           CleanImport', CleanDisk'
    PROVE  StaysFine
<1>1. Deliverable(core)' = Deliverable(core) /\ Unset' = Unset
  BY DEF Deliverable, Unset
<1>2. CleanCore'
  BY <1>1 DEF Fine, CleanCore
<1> QED BY <1>2 DEF StaysFine

\* Inside an import, before last_index.
LEMMA AtCleanImport ==
    ASSUME Fine, NEW p \in {"snapshot"} \cup Imports, At(p)
    PROVE  /\ TypeOK /\ NodeInv
           /\ PhasesOK /\ p \in Left /\ Loading /\ "advance" \in Left
           /\ \A q \in Left : q = p \/ Rank(p) < Rank(q)
           /\ rd.snap \in Nat /\ rd.last \in Nat /\ rd.snap <= rd.last /\ rd.last # Unset
           /\ core.applied = rd.snap
           /\ meta.index = rd.snap \/ p = "snapshot"
           /\ "importLast" \notin Left /\ p # "snapshot" => disk.last = rd.last
           /\ disk \in DiskRecord /\ rd \in ReadyRecord
           /\ disk.first \in Nat /\ disk.commit \in Nat
           /\ disk.first # Unset => disk.first <= rd.snap + 1
<1>0. TypeOK /\ NodeInv
  BY DEF Fine
<1>1. /\ PhasesOK /\ p \in Left /\ Loading /\ "advance" \in Left
      /\ \A q \in Left : q = p \/ Rank(p) < Rank(q)
      /\ rd.snap \in Nat /\ rd.last \in Nat /\ rd.snap <= rd.last /\ rd.last # Unset
      /\ core.applied = rd.snap /\ UpInv
  BY <1>0, AtImport
<1>2. ASSUME p # "snapshot"
      PROVE  meta.index = rd.snap /\ ("importLast" \notin Left => disk.last = rd.last)
  <2>1. Left \cap Imports # {} BY <1>1, <1>2
  <2> QED BY <1>1, <2>1 DEF UpInv, ImportInv
<1>3. disk \in DiskRecord /\ rd \in ReadyRecord /\ disk.first \in Nat /\ disk.commit \in Nat
  BY <1>0, TypeParts, Fields
<1>4. disk.first # Unset => disk.first <= rd.snap + 1
  BY <1>1 DEF Fine, CleanCore
<1> QED BY <1>0, <1>1, <1>2, <1>3, <1>4

\* A refused snapshot is one that RawNode already had.
LEMMA ApplySnapshotClean ==
    ASSUME Fine, ApplySnapshot
    PROVE  StaysFine
<1>1. /\ At("snapshot") /\ mode' = "up" /\ UNCHANGED <<core, rd, disk>>
  BY DEF ApplySnapshot, Fine
<1>2. /\ TypeOK /\ NodeInv /\ PhasesOK /\ "snapshot" \in Left /\ "advance" \in Left
      /\ Left \cap Imports = {}
      /\ ~(FirstIndex > rd.snap)
  <2>1. TypeOK /\ NodeInv /\ PhasesOK /\ "snapshot" \in Left /\ "advance" \in Left /\ UpInv
    BY <1>1, AtImport DEF Fine
  <2> QED BY <2>1 DEF UpInv, ImportInv, Fine
<1>3. Then(<<"importEntry", "importFirst", "importHard", "importLast", "adopt">>)
  BY <1>2 DEF ApplySnapshot
<1>4. Left' = Imports \cup (Left \ {"snapshot"})
  BY <1>1, <1>2, <1>3, ThenLeft, ImportPhasesAre
<1>5. CleanImport'
  BY <1>4 DEF CleanImport, Importing, Imports
<1>6. RestartOK'
  <2>1. RestartOK BY <1>2, FineDisk
  <2> QED BY <1>1, <2>1 DEF RestartOK, StoredEnd, Unset
<1>7. "advance" \in Left'
  BY <1>2, <1>4
<1> QED BY <1>1, <1>2, <1>5, <1>6, <1>7, CleanPhase DEF CleanDisk

LEMMA ImportEntryClean ==
    ASSUME Fine, ImportEntry
    PROVE  StaysFine
<1>1. PICK i \in rd.left :
        /\ At("importEntry") /\ mode' = "up" /\ UNCHANGED core
        /\ disk' = [disk EXCEPT !.log[i] = lead[rd.from][i]]
        /\ rd' = [rd EXCEPT !.left = rd.left \ {i}]
        /\ Then(Phase(rd.left # {i}, "importEntry"))
  BY DEF ImportEntry, Import, Fine
<1>2. /\ TypeOK /\ NodeInv /\ PhasesOK /\ "importEntry" \in Left /\ "advance" \in Left /\ Loading
      /\ disk \in DiskRecord /\ rd \in ReadyRecord
  BY <1>1, AtCleanImport DEF Imports
<1>3. /\ disk'.first = disk.first /\ disk'.last = disk.last /\ disk'.commit = disk.commit
      /\ rd'.snap = rd.snap /\ rd'.fresh = rd.fresh
  BY <1>1, <1>2 DEF DiskRecord, ReadyRecord
<1>4. Left' = Left \/ Left' = Left \ {"importEntry"}
  <2>1. /\ Phase(rd.left # {i}, "importEntry") \in Seq(PhaseName)
        /\ SetOf(Phase(rd.left # {i}, "importEntry")) = IF rd.left # {i} THEN {"importEntry"} ELSE {}
    BY PhaseIs DEF PhaseName
  <2>2. Left' = SetOf(Phase(rd.left # {i}, "importEntry")) \cup (Left \ {"importEntry"})
    BY <1>1, <1>2, <2>1, ThenLeft
  <2> QED BY <1>2, <2>1, <2>2
<1>5. "importLast" \in Left
  BY <1>2 DEF Fine, CleanImport
<1>6. "adopt" \in Left /\ RestartOK
  BY <1>2 DEF NodeInv, UpInv, ImportInv, Imports, Fine, CleanDisk, HalfImported
<1>7. RestartOK'
  BY <1>3, <1>6 DEF RestartOK, StoredEnd, Unset
<1>8. CleanImport'
  <2>1. Importing' /\ "importLast" \in Left' /\ Left \cap Imports # {}
        /\ ("importHard" \in Left' <=> "importHard" \in Left)
    BY <1>4, <1>5, <1>6 DEF Importing, Imports
  <2> QED BY <1>3, <2>1 DEF CleanImport, Fine
<1>9. "advance" \in Left'
  BY <1>2, <1>4
<1> QED BY <1>1, <1>2, <1>3, <1>7, <1>8, <1>9, CleanPhase DEF CleanDisk

LEMMA ImportFirstClean ==
    ASSUME Fine, ImportFirst
    PROVE  StaysFine
<1>1. /\ At("importFirst") /\ mode' = "up" /\ UNCHANGED <<core, rd>> /\ Then(<<>>)
      /\ disk' = [disk EXCEPT !.first = IF rd.first = Unset THEN disk.first ELSE rd.first]
  BY DEF ImportFirst, Import, Fine
<1>2. /\ TypeOK /\ NodeInv /\ PhasesOK /\ "importFirst" \in Left /\ "advance" \in Left /\ Loading
      /\ disk \in DiskRecord /\ rd \in ReadyRecord /\ core.applied = rd.snap
      /\ rd.snap \in Nat /\ disk.first \in Nat
      /\ disk.first # Unset => disk.first <= rd.snap + 1
      /\ \A q \in Left : q = "importFirst" \/ Rank("importFirst") < Rank(q)
  BY <1>1, AtCleanImport DEF Imports
<1>3. Left' = Left \ {"importFirst"}
  BY <1>1, <1>2, ThenNothing
<1>4. rd.first \in 1 .. rd.snap \cup {Unset}
  BY <1>2 DEF NodeInv, UpInv, LoadInv, Fine
<1>5. disk'.first # Unset => disk'.first <= core.applied + 1
  BY <1>1, <1>2, <1>4 DEF DiskRecord
<1>6. CleanCore'
  <2>1. Deliverable(core)' = Deliverable(core) /\ Unset' = Unset BY <1>1 DEF Deliverable, Unset
  <2>2. "advance" \in Left' BY <1>2, <1>3
  <2> QED BY <1>1, <1>2, <1>5, <2>1, <2>2 DEF CleanCore, Fine
<1>7. "importLast" \in Left' /\ "importEntry" \notin Left'
  BY <1>2, <1>3 DEF Fine, CleanImport, Rank
<1>8. CleanImport'
  <2>1. Importing' BY <1>7 DEF Importing, Imports
  <2>2. "importHard" \in Left' <=> "importHard" \in Left BY <1>3
  <2>3. Left \cap Imports # {} BY <1>2 DEF Imports
  <2>4. disk'.commit = disk.commit /\ rd' = rd BY <1>1, <1>2 DEF DiskRecord
  <2> QED BY <1>7, <2>1, <2>2, <2>3, <2>4 DEF CleanImport, Fine
<1> QED BY <1>1, <1>6, <1>7, <1>8 DEF StaysFine, CleanDisk, HalfImported

LEMMA ImportHardClean ==
    ASSUME Fine, ImportHard
    PROVE  StaysFine
<1>1. /\ At("importHard") /\ mode' = "up" /\ UNCHANGED <<core, rd>> /\ Then(<<>>)
      /\ disk' = [disk EXCEPT !.term = rd.term, !.vote = 2, !.commit = rd.snap]
  BY DEF ImportHard, Import, Fine
<1>2. /\ TypeOK /\ NodeInv /\ PhasesOK /\ "importHard" \in Left /\ "advance" \in Left
      /\ disk \in DiskRecord
      /\ \A q \in Left : q = "importHard" \/ Rank("importHard") < Rank(q)
  BY <1>1, AtCleanImport DEF Imports
<1>3. Left' = Left \ {"importHard"}
  BY <1>1, <1>2, ThenNothing
<1>4. "importLast" \in Left' /\ "importEntry" \notin Left'
  BY <1>2, <1>3 DEF Fine, CleanImport, Rank
<1>5. disk'.commit = rd'.snap /\ disk'.first = disk.first
  BY <1>1, <1>2 DEF DiskRecord
<1>6. CleanImport'
  <2>1. Importing' BY <1>4 DEF Importing, Imports
  <2> QED BY <1>4, <1>5, <2>1 DEF CleanImport
<1>7. "advance" \in Left'
  BY <1>2, <1>3
<1> QED BY <1>1, <1>2, <1>4, <1>5, <1>6, <1>7, CleanPhase DEF CleanDisk, HalfImported

LEMMA ImportLastClean ==
    ASSUME Fine, ImportLast
    PROVE  StaysFine
<1>1. /\ At("importLast") /\ mode' = "up" /\ UNCHANGED <<core, rd>> /\ Then(<<>>)
      /\ disk' = [disk EXCEPT !.last = rd.last]
  BY DEF ImportLast, Import, Fine, LastImported
<1>2. /\ TypeOK /\ NodeInv /\ PhasesOK /\ "importLast" \in Left /\ "advance" \in Left
      /\ disk \in DiskRecord /\ rd.snap \in Nat /\ rd.last \in Nat /\ rd.snap <= rd.last
      /\ rd.last # Unset /\ disk.first \in Nat
      /\ disk.first # Unset => disk.first <= rd.snap + 1
      /\ \A q \in Left : q = "importLast" \/ Rank("importLast") < Rank(q)
  BY <1>1, AtCleanImport DEF Imports
<1>3. Left' = Left \ {"importLast"}
  BY <1>1, <1>2, ThenNothing
<1>4. "importEntry" \notin Left /\ "importFirst" \notin Left /\ "importHard" \notin Left
  BY <1>2 DEF Rank
<1>5. disk.commit = rd.snap
  BY <1>2, <1>4 DEF Fine, CleanImport, Imports
<1>6. disk'.commit = rd.snap /\ disk'.first = disk.first /\ disk'.last = rd.last
  BY <1>1, <1>2, <1>5 DEF DiskRecord
<1>7. RestartOK'
  BY <1>2, <1>6 DEF RestartOK, StoredEnd, Unset
<1>8. CleanImport'
  <2>1. "adopt" \in Left' BY <1>2, <1>3 DEF NodeInv, UpInv, ImportInv, Imports, Fine
  <2>2. Importing' BY <2>1 DEF Importing, Imports
  <2> QED BY <1>1, <1>3, <1>4, <1>6, <2>2 DEF CleanImport
<1>9. "advance" \in Left'
  BY <1>2, <1>3
<1> QED BY <1>1, <1>2, <1>6, <1>7, <1>8, <1>9, CleanPhase DEF CleanDisk

LEMMA AdoptSnapshotClean ==
    ASSUME Fine, AdoptSnapshot, breaches' = {}
    PROVE  StaysFine
<1>1. /\ At("adopt") /\ mode' = "up" /\ UNCHANGED <<core, rd>> /\ Then(<<>>)
      /\ disk' = [disk EXCEPT !.term = Larger(disk.term, meta.term), !.commit = meta.index]
      /\ ~(rd.last > rd.snap)
  BY DEF AdoptSnapshot, Fine
<1>2. /\ TypeOK /\ NodeInv /\ PhasesOK /\ "adopt" \in Left /\ "advance" \in Left
      /\ disk \in DiskRecord /\ rd.snap \in Nat /\ rd.last \in Nat /\ rd.snap <= rd.last
      /\ rd.last # Unset /\ disk.first \in Nat /\ meta.index = rd.snap
      /\ disk.first # Unset => disk.first <= rd.snap + 1
      /\ "importLast" \notin Left => disk.last = rd.last
      /\ \A q \in Left : q = "adopt" \/ Rank("adopt") < Rank(q)
  BY <1>1, AtCleanImport DEF Imports
<1>3. Left' = Left \ {"adopt"}
  BY <1>1, <1>2, ThenNothing
<1>4. "importLast" \notin Left /\ Left' \cap Imports = {} /\ Left' \cap ({"snapshot"} \cup Imports) = {}
  BY <1>2, <1>3, SMT DEF Rank, Imports
<1>5. disk.last = rd.snap
  BY <1>1, <1>2, <1>4
<1>6. disk'.commit = rd.snap /\ disk'.first = disk.first /\ disk'.last = rd.snap
  BY <1>1, <1>2, <1>5 DEF DiskRecord
<1>7. RestartOK'
  BY <1>2, <1>6 DEF RestartOK, StoredEnd, Unset
<1>8. CleanImport'
  BY <1>1, <1>4, <1>6 DEF CleanImport, Imports
<1>9. "advance" \in Left'
  BY <1>2, <1>3
<1> QED BY <1>1, <1>2, <1>6, <1>7, <1>8, <1>9, CleanPhase DEF CleanDisk

LEMMA AppendEntryClean ==
    ASSUME Fine, AppendEntry
    PROVE  StaysFine
<1>1. /\ At("append") /\ mode' = "up" /\ UNCHANGED <<core, rd>>
      /\ disk' = [disk EXCEPT !.log[rd.next] = core.log[rd.next]]
      /\ todo' = <<"last">> \o todo
  BY DEF AppendEntry, Fine
<1>2. PhasesOK /\ TypeOK /\ NodeInv /\ "append" \in Left
  BY <1>1, Phases, AtPhase DEF Fine
<1>3. /\ ~Importing /\ ~Loading /\ disk \in DiskRecord
  BY <1>2, AtAppend, TypeParts DEF Fine
<1>4. Left' = Left \cup {"last"}
  <2>1. <<"last">> \in Seq(PhaseName) /\ SetOf(<<"last">>) = {"last"}
    <3>1. Phase(TRUE, "last") = <<"last">> BY DEF Phase
    <3>2. "last" \in PhaseName BY DEF PhaseName
    <3> QED BY <3>1, <3>2, PhaseIs
  <2>2. SetOf(<<"last">> \o todo) = SetOf(<<"last">>) \cup SetOf(todo)
    BY <1>2, <2>1, JoinedSet DEF PhasesOK
  <2> QED BY <1>1, <2>1, <2>2 DEF Left, SetOf
<1>5. disk'.first = disk.first /\ disk'.last = disk.last /\ disk'.commit = disk.commit
  BY <1>1, <1>3 DEF DiskRecord
<1>6. Left \cap Imports = {} /\ Left' \cap Imports = {}
  BY <1>3, <1>4 DEF Importing, Imports
<1>7. RestartOK'
  <2>1. RestartOK BY <1>6, FineDisk
  <2> QED BY <1>5, <2>1 DEF RestartOK, StoredEnd, Unset
<1>8. CleanImport'
  <2>1. ~Loading' BY <1>1, <1>3, <1>4 DEF Loading
  <2> QED BY <1>6, <2>1 DEF CleanImport, Imports
<1> QED BY <1>1, <1>4, <1>5, <1>7, <1>8, CleanPhase DEF CleanDisk

LEMMA AppendLastClean ==
    ASSUME Fine, AppendLast
    PROVE  StaysFine
<1>1. /\ At("last") /\ mode' = "up" /\ UNCHANGED core
      /\ disk' = [disk EXCEPT !.last = rd.next]
      /\ rd' = [rd EXCEPT !.next = rd.next + 1]
      /\ todo' = IF rd.next = Len(core.log) THEN Tail(Tail(todo)) ELSE Tail(todo)
  BY DEF AppendLast, SaveLast, Fine
<1>2. PhasesOK /\ TypeOK /\ NodeInv /\ "last" \in Left
  BY <1>1, Phases, AtPhase DEF Fine
<1>3. "append" \in Left
  BY <1>2 DEF NodeInv, UpInv, AppendInv, Fine
<1>4. /\ ~Importing /\ ~Loading /\ "advance" \in Left /\ rd.next \in Index
      /\ core.persisted < rd.next /\ disk.commit <= core.persisted
      /\ disk \in DiskRecord /\ rd \in ReadyRecord
      /\ core.persisted \in Nat /\ disk.commit \in Nat /\ disk.first \in Nat /\ MaxLog \in Nat
  BY <1>2, <1>3, AtAppend, TypeParts, Fields DEF Fine
<1>5. Left' \subseteq Left /\ "advance" \in Left'
  BY <1>1, <1>2, <1>3, <1>4, AppendPhases
<1>6. /\ disk'.first = disk.first /\ disk'.last = rd.next /\ disk'.commit = disk.commit
      /\ rd'.snap = rd.snap /\ rd'.fresh = rd.fresh
  BY <1>1, <1>4 DEF DiskRecord, ReadyRecord
<1>7. Left \cap Imports = {} /\ Left' \cap Imports = {}
  BY <1>4, <1>5 DEF Importing, Imports
<1>8. RestartOK'
  <2>1. RestartOK BY <1>7, FineDisk
  <2>2. rd.next \in Nat /\ rd.next # Unset /\ disk.commit <= rd.next
    BY <1>4 DEF Index, Unset
  <2> QED BY <1>6, <2>1, <2>2 DEF RestartOK, StoredEnd, Unset
<1>9. CleanImport'
  <2>1. ~Loading' BY <1>4, <1>5, <1>6 DEF Loading
  <2> QED BY <1>7, <2>1 DEF CleanImport, Imports
<1> QED BY <1>1, <1>4, <1>5, <1>6, <1>8, <1>9, CleanPhase DEF CleanDisk

\* Phases that come after every import and append.
Late == {"create", "handle", "hard", "send", "advance", "lightHard", "apply"}

\* At those, nothing of an import is left.
LEMMA AtLate ==
    ASSUME Fine, NEW p \in Late, At(p)
    PROVE  /\ TypeOK /\ NodeInv /\ UpInv /\ PhasesOK /\ p \in Left /\ Left \subseteq Late
           /\ \A q \in Left : q = p \/ Rank(p) < Rank(q)
           /\ Left \cap Imports = {} /\ ~Importing /\ "append" \notin Left /\ RestartOK
           /\ Loading => disk.last = rd.snap /\ core.commit = rd.snap /\ p \in {"hard", "send", "advance"}
           /\ ~Loading => LastIndex = Len(core.log) /\ Same(disk.log, core.log, Len(core.log))
           /\ core.applied <= Deliverable(core)
           /\ core.applied <= core.commit /\ core.applied <= core.persisted
           /\ core.commit <= Len(core.log) /\ core.persisted <= Len(core.log)
           /\ disk \in DiskRecord /\ core \in CoreRecord /\ rd \in ReadyRecord
           /\ disk.commit \in Nat /\ disk.first \in Nat /\ core.commit \in Nat
           /\ core.applied \in Nat /\ core.persisted \in Nat /\ Len(core.log) \in Nat
           /\ Deliverable(core) \in Nat /\ rd.snap \in Nat /\ rd.snap # Unset
           /\ disk.first # Unset => disk.first <= core.applied + 1
<1>1. /\ TypeOK /\ NodeInv /\ PhasesOK /\ mode = "up" /\ core.applied <= Deliverable(core)
      /\ disk.first # Unset => disk.first <= core.applied + 1
  BY Phases DEF Fine, CleanCore
<1>2. /\ p \in Left /\ Left \subseteq PhaseName /\ \A q \in Left : q = p \/ Rank(p) < Rank(q)
  BY <1>1, AtPhase
<1>3. UpInv
  BY <1>1 DEF NodeInv
<1>4. Left \subseteq Late
  <2>1. CASE p = "lightHard"
    BY <1>2, <1>3, <2>1 DEF UpInv, CoreInv, Late
  <2>2. CASE p # "lightHard"
    BY <1>2, <2>2, SMT DEF PhaseName, Rank, Late
  <2> QED BY <2>1, <2>2
<1>5. Left \cap Imports = {} /\ ~Importing /\ "append" \notin Left
  BY <1>4 DEF Late, Imports, Importing
<1>6. RestartOK
  BY <1>5, FineDisk
<1>7. Loading => disk.last = rd.snap /\ core.commit = rd.snap /\ p \in {"hard", "send", "advance"}
  <2>1. Loading => core.commit = rd.snap /\ Left \subseteq {"snapshot"} \cup Imports \cup {"hard", "send", "advance"}
    BY <1>3 DEF UpInv, LoadInv
  <2>2. Loading => disk.last = rd.snap
    BY <1>5 DEF Fine, CleanImport
  <2> QED BY <1>2, <1>4, <2>1, <2>2 DEF Imports, Late
<1>8. ~Loading => LastIndex = Len(core.log) /\ Same(disk.log, core.log, Len(core.log))
  BY <1>3, <1>5 DEF UpInv, StoredInv
<1>9. /\ disk \in DiskRecord /\ core \in CoreRecord /\ rd \in ReadyRecord
      /\ disk.commit \in Nat /\ disk.first \in Nat /\ core.commit \in Nat
      /\ core.applied \in Nat /\ core.persisted \in Nat /\ Len(core.log) \in Nat
      /\ Deliverable(core) \in Nat /\ rd.snap \in Nat
      /\ rd.snap <= MaxLog /\ Unset = MaxLog + 1 /\ MaxLog \in Nat
  BY <1>1, TypeParts, Fields
<1>10. core.applied <= core.commit /\ core.applied <= core.persisted
  BY <1>1, <1>9, SMT DEF Deliverable, Smaller
<1>11. core.commit <= Len(core.log) /\ core.persisted <= Len(core.log)
  BY <1>3 DEF UpInv, CoreInv
<1>12. rd.snap # Unset
  BY <1>9
<1> QED BY <1>1, <1>2, <1>3, <1>4, <1>5, <1>6, <1>7, <1>8, <1>9, <1>10, <1>11, <1>12

\* Without entries to append or to import, the import is no matter.
LEMMA NoImport ==
    ASSUME Left' \subseteq Late, Loading' => disk'.last = rd'.snap
    PROVE  CleanImport'
BY DEF CleanImport, Late, Imports

\* What a late phase has to show.
LEMMA LateStaysFine ==
    ASSUME Fine, NEW p \in Late, At(p), mode' = "up", core' = core, rd'.snap = rd.snap,
           rd'.fresh = rd.fresh, Left' = Left \ {p}, p # "advance",
           Loading => disk'.last = rd.snap,
           disk'.first # Unset => disk'.first <= core.applied + 1,
           RestartOK'
    PROVE  StaysFine
<1>1. Left \subseteq Late
  BY AtLate
<1>2. CleanImport'
  <2>1. Left' \subseteq Late BY <1>1
  <2>2. Loading' => Loading BY DEF Loading
  <2> QED BY <2>1, <2>2, NoImport
<1>3. CleanCore'
  <2>1. Deliverable(core)' = Deliverable(core) /\ Unset' = Unset BY DEF Deliverable, Unset
  <2>2. "advance" \in Left => "advance" \in Left' OBVIOUS
  <2> QED BY <2>1, <2>2 DEF CleanCore, Fine
<1> QED BY <1>2, <1>3 DEF StaysFine, CleanDisk

\* Storing the committed index that the core has.
LEMMA CommitClean ==
    ASSUME Fine, NEW p \in {"hard", "lightHard"}, At(p), Then(<<>>), UNCHANGED <<core, rd, mode>>,
           disk'.commit = core.commit, disk'.first = disk.first, disk'.last = disk.last
    PROVE  StaysFine
<1>0. p \in Late /\ p # "advance"
  BY DEF Late
<1>1. /\ PhasesOK /\ RestartOK
      /\ Loading => disk.last = rd.snap /\ core.commit = rd.snap
      /\ ~Loading => LastIndex = Len(core.log)
      /\ core.commit <= Len(core.log) /\ core.applied <= core.commit
      /\ disk.first \in Nat /\ core.commit \in Nat /\ core.applied \in Nat
      /\ disk.first # Unset => disk.first <= core.applied + 1
  BY <1>0, AtLate
<1>2. Left' = Left \ {p}
  BY <1>1, ThenNothing
<1>3. core.commit <= StoredEnd'
  <2>1. CASE disk.last = Unset
    BY <1>1, <2>1 DEF StoredEnd, Unset
  <2>2. CASE disk.last # Unset
    <3>1. core.commit <= disk.last
      BY <1>1, <2>2 DEF LastIndex
    <3> QED BY <2>2, <3>1 DEF StoredEnd, Unset
  <2> QED BY <2>1, <2>2
<1>4. disk'.first # Unset => disk'.first <= core.applied + 1 /\ disk'.first <= core.commit + 1
  BY <1>1
<1>5. RestartOK'
  <2>1. Unset' = Unset BY DEF Unset
  <2> QED BY <1>3, <1>4, <2>1 DEF RestartOK
<1>6. mode' = "up"
  BY DEF Fine
<1> QED BY <1>0, <1>1, <1>2, <1>4, <1>5, <1>6, LateStaysFine

LEMMA SetHardStateClean ==
    ASSUME Fine, SetHardState
    PROVE  StaysFine
<1>1. /\ At("hard") /\ Then(<<>>) /\ UNCHANGED <<core, rd, mode>>
      /\ disk' = [disk EXCEPT !.term = prev.term, !.vote = prev.vote, !.commit = prev.commit]
  BY DEF SetHardState
<1>2. prev.commit = core.commit /\ disk \in DiskRecord
  BY TypeParts DEF Fine, NodeInv, UpInv, CoreInv
<1>3. disk'.commit = core.commit /\ disk'.first = disk.first /\ disk'.last = disk.last
  BY <1>1, <1>2 DEF DiskRecord
<1> QED BY <1>1, <1>3, CommitClean

LEMMA SetHardStateCommitClean ==
    ASSUME Fine, SetHardStateCommit
    PROVE  StaysFine
<1>1. /\ At("lightHard") /\ Then(<<>>) /\ UNCHANGED <<core, rd, mode>>
      /\ disk' = [disk EXCEPT !.commit = prev.commit]
  BY DEF SetHardStateCommit
<1>2. prev.commit = core.commit /\ disk \in DiskRecord
  BY TypeParts DEF Fine, NodeInv, UpInv, CoreInv
<1>3. disk'.commit = core.commit /\ disk'.first = disk.first /\ disk'.last = disk.last
  BY <1>1, <1>2 DEF DiskRecord
<1> QED BY <1>1, <1>3, CommitClean

\* Phases that leave the node as it is.
LEMMA DoneClean ==
    ASSUME Fine, NEW p \in {"send", "apply"}, At(p), Then(<<>>), UNCHANGED <<disk, core, rd, mode>>
    PROVE  StaysFine
<1>0. p \in Late /\ p # "advance"
  BY DEF Late
<1>1. /\ PhasesOK /\ RestartOK /\ (Loading => disk.last = rd.snap)
      /\ disk.first # Unset => disk.first <= core.applied + 1
  BY <1>0, AtLate
<1>2. Left' = Left \ {p}
  BY <1>1, ThenNothing
<1>3. RestartOK'
  BY <1>1 DEF RestartOK, StoredEnd, Unset
<1>4. mode' = "up"
  BY DEF Fine
<1> QED BY <1>0, <1>1, <1>2, <1>3, <1>4, LateStaysFine

LEMMA CreateSnapshotClean ==
    ASSUME Fine, CreateSnapshot
    PROVE  StaysFine
<1>0. "create" \in Late
  BY DEF Late
<1>1. /\ At("create") /\ Then(<<>>) /\ UNCHANGED <<core, rd, mode>>
      /\ disk' = [disk EXCEPT !.first = disk.commit]
  BY DEF CreateSnapshot, Created
<1>2. /\ PhasesOK /\ RestartOK /\ "create" \in Left /\ ~Loading /\ UpInv
      /\ disk \in DiskRecord /\ disk.commit \in Nat
  BY <1>0, <1>1, AtLate
<1>3. disk.commit = core.applied
  BY <1>2 DEF UpInv, CoreInv
<1>4. Left' = Left \ {"create"}
  BY <1>1, <1>2, ThenNothing
<1>5. disk'.first = disk.commit /\ disk'.last = disk.last /\ disk'.commit = disk.commit
  BY <1>1, <1>2 DEF DiskRecord
<1>6. RestartOK'
  BY <1>2, <1>5 DEF RestartOK, StoredEnd, Unset
<1>7. disk'.first # Unset => disk'.first <= core.applied + 1
  BY <1>2, <1>3, <1>5
<1>8. mode' = "up"
  BY <1>1 DEF Fine
<1> QED BY <1>0, <1>1, <1>2, <1>4, <1>6, <1>7, <1>8, LateStaysFine

LEMMA HandleEntryClean ==
    ASSUME Fine, HandleEntry, breaches' = {}
    PROVE  StaysFine
<1>0. "handle" \in Late
  BY DEF Late
<1>1. PICK snapshot \in {Snapshots, FALSE} :
        /\ At("handle") /\ ~IsExtra /\ UNCHANGED <<rd, mode>>
        /\ Then(Phase(snapshot, "create") \o Phase(core.applied + 1 < rd.upto, "handle"))
        /\ disk' = [disk EXCEPT !.commit = core.applied + 1, !.term = disk.log[core.applied + 1]]
        /\ core' = [core EXCEPT !.applied = core.applied + 1]
  BY DEF HandleEntry, Committing
<1>2. /\ TypeOK /\ NodeInv /\ UpInv /\ PhasesOK /\ "handle" \in Left /\ Left \subseteq Late
      /\ ~Importing /\ ~Loading /\ RestartOK /\ "append" \notin Left
      /\ LastIndex = Len(core.log)
      /\ disk \in DiskRecord /\ core \in CoreRecord
      /\ disk.first \in Nat /\ core.applied \in Nat /\ Deliverable(core) \in Nat
      /\ core.commit \in Nat /\ core.persisted \in Nat /\ Len(core.log) \in Nat
      /\ core.commit <= Len(core.log)
      /\ disk.first # Unset => disk.first <= core.applied + 1
  BY <1>0, <1>1, AtLate
<1>3. /\ core.applied < rd.upto /\ rd.upto \in Nat
      /\ rd.extra = 0 => rd.upto = Deliverable(core)
      /\ rd.extra # 0 => rd.upto = Deliverable(core) + 1
  BY <1>2, Fields DEF UpInv, HandleInv
<1>4. core.applied + 1 <= Deliverable(core)
  <2>1. ~(rd.extra # 0 /\ core.applied + 1 = rd.upto)
    BY <1>1 DEF IsExtra
  <2>2. core.applied \in Nat /\ Deliverable(core) \in Nat
    BY <1>2
  <2> DEFINE d == Deliverable(core)
  <2> HIDE DEF d
  <2>3. core.applied < rd.upto /\ rd.upto \in Nat
    BY <1>3
  <2>4. CASE rd.extra = 0
    <3>1. rd.upto = d BY <1>3, <2>4 DEF d
    <3>2. core.applied + 1 <= d BY <2>2, <2>3, <3>1
    <3> QED BY <3>2 DEF d
  <2>5. CASE rd.extra # 0
    <3>1. rd.upto = d + 1 /\ core.applied + 1 # rd.upto BY <1>3, <2>1, <2>5 DEF d
    <3>2. d \in Nat BY <2>2 DEF d
    <3>3. core.applied + 1 <= d BY <2>2, <2>3, <3>1, <3>2
    <3> QED BY <3>3 DEF d
  <2> QED BY <2>4, <2>5
<1>5. disk.last # Unset /\ disk.last = Len(core.log)
  BY <1>2 DEF UpInv, UnsavedInv, LastIndex
<1>6. Deliverable(core) <= core.commit
  BY <1>2, SMT DEF Deliverable, Smaller
<1>7. /\ disk'.commit = core.applied + 1 /\ disk'.first = disk.first /\ disk'.last = disk.last
      /\ core'.applied = core.applied + 1 /\ core'.log = core.log
      /\ core'.commit = core.commit /\ core'.persisted = core.persisted
  BY <1>1, <1>2 DEF DiskRecord, CoreRecord
<1>8. Left' \subseteq Left \cup {"create", "handle"} /\ Left \ {"handle"} \subseteq Left'
  <2> DEFINE ps == Phase(snapshot, "create") \o Phase(core.applied + 1 < rd.upto, "handle")
  <2>1. snapshot \in BOOLEAN /\ (core.applied + 1 < rd.upto) \in BOOLEAN
    <3>1. snapshot \in BOOLEAN BY ConstantsAssumption
    <3>2. (core.applied + 1 < rd.upto) \in BOOLEAN OBVIOUS
    <3> QED BY <3>1, <3>2
  <2>2. /\ ps \in Seq(PhaseName)
        /\ SetOf(ps) = (IF snapshot THEN {"create"} ELSE {})
                       \cup (IF core.applied + 1 < rd.upto THEN {"handle"} ELSE {})
    BY <2>1, HandlingIs
  <2>3. Then(ps) BY <1>1
  <2> HIDE DEF ps
  <2>4. Left' = SetOf(ps) \cup (Left \ {"handle"})
    BY <1>1, <1>2, <2>2, <2>3, ThenLeft
  <2> QED BY <2>2, <2>4
<1>9. CleanImport'
  <2>1. Left' \subseteq Late BY <1>2, <1>8 DEF Late
  <2>2. ~Loading' BY <1>1, <1>2, <1>8 DEF Loading
  <2> QED BY <2>1, <2>2, NoImport
<1>10. CleanCore'
  <2>1. Deliverable(core)' = Deliverable(core) /\ Unset' = Unset BY <1>7 DEF Deliverable, Unset
  <2>2. disk'.first # Unset => disk'.first <= core.applied + 1 + 1 BY <1>2, <1>7
  <2>3. "advance" \in Left => "advance" \in Left' BY <1>8
  <2> QED BY <1>1, <1>4, <1>7, <2>1, <2>2, <2>3 DEF CleanCore, Fine
<1>11. RestartOK'
  <2>1. core.applied + 1 <= disk.last
    BY <1>2, <1>4, <1>5, <1>6
  <2>2. disk.first # Unset => disk.first <= core.applied + 1 + 1 BY <1>2
  <2> QED BY <1>5, <1>7, <2>1, <2>2 DEF RestartOK, StoredEnd, Unset
<1> QED BY <1>1, <1>9, <1>10, <1>11 DEF StaysFine, CleanDisk, Fine
LEMMA SendClean ==
    ASSUME Fine, Send
    PROVE  StaysFine
BY DoneClean DEF Send

LEMMA AdvanceApplyClean ==
    ASSUME Fine, AdvanceApply
    PROVE  StaysFine
BY DoneClean DEF AdvanceApply

\* What was handled stays within the committed and the persisted entries.
LEMMA NoRefusal ==
    ASSUME Fine, At("advance"), NEW i \in {core.commit} \cup Commits
    PROVE  ~Refuses(i)
<1>1. /\ TypeOK /\ NodeInv /\ UpInv /\ core \in CoreRecord
      /\ core.applied <= core.commit /\ core.applied <= core.persisted
      /\ core.commit \in Nat /\ core.applied \in Nat /\ core.persisted \in Nat
  <2>1. "advance" \in Late BY DEF Late
  <2> QED BY <2>1, AtLate
<1>2. Persisted \in Nat /\ core.persisted <= Persisted
  BY <1>1, PersistedIs
<1>3. i \in Nat /\ core.commit <= i
  <2>1. CASE i = core.commit
    BY <1>1, <2>1
  <2>2. CASE i # core.commit
    <3>1. i \in LeaderCommits(Persisted) /\ core.role = "leader"
      BY <2>2 DEF Commits
    <3>2. core.term \in Term
      BY <1>1, <3>1 DEF UpInv, CoreInv
    <3>3. cmt[core.term] \in Nat
      BY <1>1, <3>2, TypeParts DEF Index0
    <3>4. i \in core.commit + 1 .. Smaller(Persisted, cmt[core.term])
      BY <3>1 DEF LeaderCommits
    <3>5. Smaller(Persisted, cmt[core.term]) \in Nat
      BY <1>2, <3>3 DEF Smaller
    <3> QED BY <1>1, <3>4, <3>5
  <2> QED BY <2>1, <2>2
<1>4. Advanced(i).commit = i /\ Advanced(i).persisted = Persisted
  BY <1>1 DEF Advanced, CoreRecord
<1>5. Deliverable(Advanced(i)) = Smaller(i, Persisted)
  BY <1>4 DEF Deliverable
<1>6. ~(core.applied > Smaller(i, Persisted))
  BY <1>1, <1>2, <1>3, SMT DEF Smaller
<1> QED BY <1>5, <1>6 DEF Refuses

LEMMA AdvanceClean ==
    ASSUME Fine, Advance
    PROVE  StaysFine
<1>0. "advance" \in Late
  BY DEF Late
<1>1. At("advance") /\ disk' = disk
  BY DEF Advance
<1>2. PICK i \in {core.commit} \cup Commits :
        IF Refuses(i) THEN mode' = "failed" /\ UNCHANGED <<core, prev, rd, todo>>
        ELSE AdvancesTo(i)
  BY Zenon DEF Advance, AdvancesTo, Refuses
<1>3. AdvancesTo(i)
  BY <1>1, <1>2, NoRefusal
<1>4. /\ TypeOK /\ NodeInv /\ RestartOK /\ mode = "up"
      /\ Loading => disk.last = rd.snap
      /\ rd.snap # Unset
      /\ disk.first # Unset => disk.first <= core.applied + 1
  BY <1>0, <1>1, AtLate DEF Fine
<1>5. /\ PhasesOK /\ Left = {"advance"}
      /\ IF rd.snap = 0 THEN LastIndex = Len(core.log)
         ELSE core.persisted = rd.snap /\ ~rd.fresh
  BY <1>1, <1>4, AtAdvance
<1> DEFINE c == Advanced(i)
<1>6. /\ c.applied = core.applied /\ c.persisted = Persisted
      /\ Len(c.log) = LastIndex /\ c.applied <= Deliverable(c)
      /\ rd.fresh => Persisted = LastIndex
      /\ ~rd.fresh => Persisted = core.persisted
  BY <1>1, <1>2, <1>4, NoRefusal, AdvanceIs DEF Refuses
<1>7. core' = c /\ Then(LightPhases(c)) /\ mode' = "up"
  BY <1>3, <1>4 DEF AdvancesTo
<1> HIDE DEF c
<1>8. Left' \subseteq {"lightHard", "handle", "apply"}
  <2> DEFINE ps == LightPhases(c)
  <2>1. ps \in Seq(PhaseName) /\ SetOf(ps) \subseteq {"lightHard", "handle", "apply"}
    BY LightIs
  <2>2. Then(ps)
    BY <1>7
  <2> HIDE DEF ps
  <2>3. Left' = SetOf(ps) \cup (Left \ {"advance"})
    BY <1>1, <1>5, <2>1, <2>2, ThenLeft
  <2> QED BY <1>5, <2>1, <2>3
<1>9. c.persisted = Len(c.log)
  <2>1. CASE rd.fresh
    BY <1>6, <2>1
  <2>2. CASE ~rd.fresh /\ rd.snap = 0
    <3>1. core.persisted = Len(core.log)
      BY <2>2 DEF Fine, CleanCore
    <3> QED BY <1>5, <1>6, <2>2, <3>1
  <2>3. CASE ~rd.fresh /\ rd.snap # 0
    <3>1. disk.last = rd.snap /\ disk.last # Unset
      BY <1>4, <1>5, <2>3 DEF Loading
    <3>2. LastIndex = rd.snap
      BY <3>1 DEF LastIndex
    <3> QED BY <1>5, <1>6, <2>3, <3>2
  <2> QED BY <2>1, <2>2, <2>3
<1>10. CleanCore'
  <2>1. Unset' = Unset /\ Deliverable(core)' = Deliverable(c)
    BY <1>7 DEF Unset, Deliverable
  <2> QED BY <1>1, <1>4, <1>6, <1>7, <1>9, <2>1 DEF CleanCore
<1>11. CleanImport'
  <2>1. Left' \subseteq Late /\ ~Loading'
    BY <1>8 DEF Late, Loading
  <2> QED BY <2>1, NoImport
<1>12. RestartOK'
  BY <1>1, <1>4 DEF RestartOK, StoredEnd, Unset
<1> QED BY <1>7, <1>10, <1>11, <1>12 DEF StaysFine, CleanDisk
\* The entry that is to be handled is stored.
LEMMA HandledIsStored ==
    ASSUME Fine, At("handle")
    PROVE  disk.log[Committing] # 0
<1>1. /\ TypeOK /\ UpInv /\ "handle" \in Left /\ ~Loading /\ "append" \notin Left
      /\ Same(disk.log, core.log, Len(core.log))
      /\ core.commit <= Len(core.log)
      /\ core.commit \in Nat /\ core.applied \in Nat /\ Len(core.log) \in Nat
      /\ core.persisted \in Nat
  <2>1. "handle" \in Late BY DEF Late
  <2> QED BY <2>1, AtLate
<1>2. /\ core.applied < rd.upto /\ rd.upto \in Nat
      /\ rd.extra = 0 => rd.upto = Deliverable(core)
      /\ rd.extra # 0 => rd.upto = Deliverable(core) + 1 /\ disk.log[rd.upto] # 0
  BY <1>1, Fields DEF UpInv, HandleInv
<1>3. Deliverable(core) \in Nat /\ Deliverable(core) <= core.commit
  BY <1>1, SMT DEF Deliverable, Smaller
<1>4. CASE rd.extra # 0 /\ core.applied + 1 = rd.upto
  BY <1>2, <1>4 DEF Committing
<1>5. CASE ~(rd.extra # 0 /\ core.applied + 1 = rd.upto)
  <2> DEFINE d == Deliverable(core)
  <2>1. core.applied + 1 <= d
    <3> HIDE DEF d
    <3>1. d \in Nat BY <1>3 DEF d
    <3>2. rd.upto = d \/ (rd.upto = d + 1 /\ core.applied + 1 # rd.upto) BY <1>2, <1>5 DEF d
    <3>3. core.applied < rd.upto /\ rd.upto \in Nat /\ core.applied \in Nat BY <1>1, <1>2
    <3> QED BY <3>1, <3>2, <3>3
  <2>2. core.applied + 1 \in 1 .. Len(core.log)
    BY <1>1, <1>3, <2>1
  <2>3. disk.log[core.applied + 1] = core.log[core.applied + 1]
    BY <1>1, <2>2 DEF Same
  <2>4. core.log[core.applied + 1] # 0
    BY <1>1, <2>2, Fields
  <2> QED BY <2>3, <2>4 DEF Committing
<1> QED BY <1>4, <1>5

\* The one panic of a clean node is that of a KV command.
LEMMA PanicClean ==
    ASSUME Fine, Panic
    PROVE  /\ mode' = "failed" /\ RestartOK'
           /\ todo' # <<>> /\ Head(todo') = "handle" /\ Routed' \in KvTerms
<1>1. /\ Broken /\ mode' = "failed"
      /\ UNCHANGED <<disk, core, rd, todo>>
  BY DEF Panic
<1>2. TypeOK /\ NodeInv
  BY DEF Fine
<1>3. ~(At("apply") /\ core.applied > Deliverable(core))
  <2>1. ASSUME At("apply") PROVE ~(core.applied > Deliverable(core))
    <3>1. "apply" \in Late BY DEF Late
    <3> QED BY <2>1, <3>1, AtLate
  <2> QED BY <2>1
<1>4. At("handle") /\ Unroutable
  BY <1>1, <1>2, <1>3, AppendContinues DEF Broken
<1>5. Routed \in KvTerms
  BY <1>4, HandledIsStored DEF Unroutable
<1>6. RestartOK
  <2>1. "handle" \in Late BY DEF Late
  <2> QED BY <1>4, <2>1, AtLate
<1>7. RestartOK'
  BY <1>1, <1>6 DEF RestartOK, StoredEnd, Unset
<1>8. Routed' \in KvTerms
  BY <1>1, <1>5 DEF Routed, IsExtra, Committing
<1> QED BY <1>1, <1>4, <1>7, <1>8 DEF At

\* A crash that breaks no write leaves something to start from.
LEMMA CrashClean ==
    ASSUME TypeOK, NodeInv, CleanInv, Crash, breaches = {}, breaches' = {}
    PROVE  mode' = "down" /\ RestartOK'
<1>1. /\ mode \in {"up", "failed"} /\ mode' = "down" /\ disk' = disk /\ ~WithinImport
  BY DEF Crash
<1>2. ASSUME mode = "up", HalfImported PROVE FALSE
  <2> DEFINE p == Head(todo)
  <2>1. UpInv /\ PhasesOK
    BY <1>2, Phases DEF NodeInv
  <2>2. todo # <<>>
    BY <1>2, <2>1, NothingLeft DEF HalfImported, Left, PhasesOK
  <2>3. At(p)
    BY <1>2, <2>2 DEF At
  <2> HIDE DEF p
  <2>4. /\ p \in Left /\ Left \subseteq PhaseName
        /\ \A q \in Left : q = p \/ Rank(p) < Rank(q)
    BY <2>1, <2>3, AtPhase
  <2>5. p = "importLast" \/ Rank(p) < Rank("importLast")
    BY <1>2, <2>4 DEF HalfImported
  <2>6. p \in {"lightHard", "snapshot", "importFirst", "importHard", "importLast"}
    <3>1. p \in PhaseName /\ p # "importEntry" BY <1>2, <2>4 DEF HalfImported
    <3> QED BY <2>5, <3>1, SMT DEF PhaseName, Rank
  <2>7. p # "lightHard"
    BY <1>2, <2>1, <2>4 DEF HalfImported, UpInv, CoreInv
  <2>8. p # "snapshot"
    BY <1>2, <2>1, <2>4 DEF HalfImported, UpInv, ImportInv, Imports
  <2> QED BY <1>1, <2>3, <2>6, <2>7, <2>8 DEF WithinImport
<1>3. RestartOK
  BY <1>1, <1>2 DEF CleanInv, CleanDisk
<1> QED BY <1>1, <1>3 DEF RestartOK, StoredEnd, Unset

\* And RawNode::new accepts it.
LEMMA StartClean ==
    ASSUME TypeOK, NodeInv, CleanInv, Start, breaches = {}
    PROVE  StaysFine
<1>1. mode = "down" /\ RestartOK
  BY DEF Start, CleanInv
<1>2. DiskInv /\ meta.index = disk.commit
  <2>1. DiskInv BY DEF NodeInv
  <2> QED BY <1>1, <2>1 DEF DiskInv
<1>3. /\ disk.commit \in Nat /\ disk.first \in Nat
  BY Fields
<1>4. Restartable
  <2>1. FirstIndex <= disk.commit + 1
    BY <1>1, <1>2, <1>3 DEF RestartOK, FirstIndex
  <2>2. disk.commit <= LastIndex
    BY <1>1, <1>2 DEF RestartOK, StoredEnd, LastIndex
  <2> QED BY <2>1, <2>2 DEF Restartable
<1>5. mode' # "failed"
  BY <1>4 DEF Start
<1>6. /\ mode' = "up" /\ Left' = {} /\ disk' = disk
      /\ LastIndex \in Nat /\ disk.commit <= LastIndex
      /\ core'.commit = disk.commit /\ core'.applied = disk.commit
      /\ core'.persisted = LastIndex /\ Len(core'.log) = LastIndex
  BY <1>5, StartIs
<1>7. CleanCore'
  <2>1. Deliverable(core)' = Smaller(disk.commit, LastIndex) /\ Unset' = Unset
    BY <1>6 DEF Deliverable, Unset
  <2>2. disk.commit <= Smaller(disk.commit, LastIndex)
    BY <1>3, <1>6, SMT DEF Smaller
  <2> QED BY <1>1, <1>6, <2>1, <2>2 DEF CleanCore, RestartOK
<1>8. CleanImport'
  <2>1. Left' \subseteq Late /\ ~Loading' BY <1>6 DEF Loading
  <2> QED BY <2>1, NoImport
<1>9. RestartOK'
  BY <1>1, <1>6 DEF RestartOK, StoredEnd, Unset
<1> QED BY <1>6, <1>7, <1>8, <1>9 DEF StaysFine, CleanDisk
\* Only a node that runs takes part in anything, and nothing mends a breach.
LEMMA Running ==
    ASSUME Step \/ ReadyLoop
    PROVE  mode = "up" /\ breaches \subseteq breaches'
<1>1. ASSUME NEW c, NEW next, NEW s, Turn(c, next, s) PROVE mode = "up"
  BY <1>1 DEF Turn, Idle
<1>2. ASSUME NEW c, QuietTurn(c) PROVE mode = "up" /\ breaches' = breaches
  BY <1>1, <1>2 DEF QuietTurn
<1>3. Abort => mode = "up" /\ breaches' = breaches
  BY DEF Abort, Idle
<1>4. ASSUME NEW l, NEW k, Compared(l, k) PROVE breaches \subseteq breaches'
  BY <1>4 DEF Compared
<1>5. ASSUME NEW t, NEW l, NEW k, NEW m, Accept(t, l, k, m)
      PROVE  mode = "up" /\ breaches \subseteq breaches'
  <2>1. CASE k = Len(l)
    BY <1>1, <1>4, <1>5, <2>1 DEF Accept
  <2>2. CASE k # Len(l) /\ k > core.persisted
    BY <1>3, <1>5, <2>2 DEF Accept
  <2>3. CASE k # Len(l) /\ ~(k > core.persisted)
    BY <1>1, <1>4, <1>5, <2>3 DEF Accept
  <2> QED BY <2>1, <2>2, <2>3
<1>6. CASE \E t \in Term, c \in Candidates \cup {0} : Vote(t, c)
  BY <1>2, <1>6 DEF Vote
<1>7. ASSUME NEW t \in Term, NEW p \in Index0, NEW n \in Index0, NEW known \in Index0,
             MsgAppend(t, p, n, known)
      PROVE  mode = "up" /\ breaches \subseteq breaches'
  <2> DEFINE l == Front(lead[t], n)
             k == Agreed(l, p)
             m == Larger(core.commit, Smaller(known, n))
  <2>1. QuietTurn(InTerm(t)) \/ Accept(t, l, k, m)
    BY <1>7 DEF MsgAppend
  <2> HIDE DEF l, k, m
  <2> QED BY <1>2, <1>5, <2>1
<1>8. ASSUME NEW t \in Term, NEW m \in Term, NEW s \in Index, NEW n \in Index,
             NEW f \in Index \cup {Unset}, MsgSnapshot(t, s, n, f, m)
      PROVE  mode = "up" /\ breaches \subseteq breaches'
  <2>1. CASE Answer(s) = m
    BY <1>1, <1>4, <1>8, <2>1 DEF MsgSnapshot
  <2>2. CASE Answer(s) # m
    BY <1>1, <1>8, <2>2 DEF MsgSnapshot
  <2> QED BY <2>1, <2>2
<1>9. BecomeLeader => mode = "up" /\ breaches' = breaches
  BY <1>1, <1>3 DEF BecomeLeader
<1>10. Propose => mode = "up" /\ breaches' = breaches
  BY <1>1 DEF Propose
<1>11. ASSUME NEW i \in Index, Quorum(i) PROVE mode = "up" /\ breaches' = breaches
  BY <1>2, <1>11 DEF Quorum
<1>12. SnapshotForPeer => mode = "up" /\ breaches' = breaches
  BY DEF SnapshotForPeer, Idle
<1>13. CASE ReadyLoop
  <2>1. ImportEntry \/ ImportFirst \/ ImportHard \/ ImportLast
          => mode = "up" /\ breaches' = breaches
    BY DEF ImportEntry, ImportFirst, ImportHard, ImportLast, Import, At
  <2>2. AdoptSnapshot \/ HandleEntry => mode = "up" /\ breaches \subseteq breaches'
    BY DEF AdoptSnapshot, HandleEntry, At
  <2>3. ApplySnapshot \/ AppendEntry \/ AppendLast => mode = "up" /\ breaches' = breaches
    <3>1. ApplySnapshot => mode = "up" /\ breaches' = breaches BY DEF ApplySnapshot, At
    <3>2. AppendEntry => mode = "up" /\ breaches' = breaches BY DEF AppendEntry, At
    <3>3. AppendLast => mode = "up" /\ breaches' = breaches BY DEF AppendLast, At
    <3> QED BY <3>1, <3>2, <3>3
  <2>4. CreateSnapshot \/ SetHardState \/ Send \/ SetHardStateCommit \/ AdvanceApply \/ Advance
          => mode = "up" /\ breaches' = breaches
    <3>1. CreateSnapshot => mode = "up" /\ breaches' = breaches BY DEF CreateSnapshot, At
    <3>2. SetHardState => mode = "up" /\ breaches' = breaches BY DEF SetHardState, At
    <3>3. Send => mode = "up" /\ breaches' = breaches BY DEF Send, At
    <3>4. SetHardStateCommit => mode = "up" /\ breaches' = breaches BY DEF SetHardStateCommit, At
    <3>5. AdvanceApply => mode = "up" /\ breaches' = breaches BY DEF AdvanceApply, At
    <3>6. Advance => mode = "up" /\ breaches' = breaches BY DEF Advance, At
    <3> QED BY <3>1, <3>2, <3>3, <3>4, <3>5, <3>6
  <2>5. Panic => mode = "up" /\ breaches' = breaches
    BY DEF Panic, Broken, At
  <2> QED BY <1>13, <2>1, <2>2, <2>3, <2>4, <2>5 DEF ReadyLoop
<1>14. CASE Step
  BY <1>6, <1>7, <1>8, <1>9, <1>10, <1>11, <1>12, <1>14 DEF Step
<1> QED BY <1>13, <1>14

\* Every step of a clean node that breaks no contract leaves it clean, or fails
\* on a KV command.
LEMMA StepClean ==
    ASSUME Fine, Step
    PROVE  StaysFine
<1>1. CASE \E t \in Term, c \in Candidates \cup {0} : Vote(t, c)
  BY <1>1, VoteClean
<1>2. CASE \E t \in Term, p, n, known \in Index0 : MsgAppend(t, p, n, known)
  BY <1>2, MsgAppendClean
<1>3. CASE \E t, m \in Term, s, n \in Index, f \in Index \cup {Unset} : MsgSnapshot(t, s, n, f, m)
  BY <1>3, MsgSnapshotClean
<1>4. CASE \E i \in Index : Quorum(i)
  BY <1>4, QuorumClean
<1> QED BY <1>1, <1>2, <1>3, <1>4, BecomeLeaderClean, ProposeClean, SnapshotForPeerClean DEF Step

LEMMA ReadyClean ==
    ASSUME Fine, ReadyLoop, ~Panic, breaches' = {}
    PROVE  StaysFine
BY ApplySnapshotClean, ImportEntryClean, ImportFirstClean, ImportHardClean, ImportLastClean,
   AdoptSnapshotClean, AppendEntryClean, AppendLastClean, HandleEntryClean, CreateSnapshotClean,
   SetHardStateClean, SendClean, AdvanceClean, SetHardStateCommitClean, AdvanceApplyClean
   DEF ReadyLoop

\* An empty disk is one to start from.
LEMMA InitClean ==
    ASSUME Init
    PROVE  CleanInv
<1>1. mode = "down" /\ disk = EmptyDisk /\ MaxLog \in Nat
  BY ConstantsAssumption DEF Init
<1>2. disk.first = Unset /\ disk.last = Unset /\ disk.commit = 0
  BY <1>1 DEF EmptyDisk
<1>3. RestartOK
  BY <1>2 DEF RestartOK, StoredEnd
<1> QED BY <1>1, <1>3 DEF CleanInv

LEMMA StutterClean ==
    ASSUME CleanInv, UNCHANGED vars
    PROVE  CleanInv'
<1>1. UNCHANGED <<disk, meta, core, rd, todo, mode, breaches>>
  BY DEF vars, node
<1>2. Left' = Left /\ Unset' = Unset /\ StoredEnd' = StoredEnd /\ Routed' = Routed
      /\ Deliverable(core)' = Deliverable(core)
  BY <1>1 DEF Left, SetOf, Unset, StoredEnd, Routed, IsExtra, Committing, Deliverable
<1>3. Importing' = Importing /\ Loading' = Loading /\ HalfImported' = HalfImported
  BY <1>1, <1>2 DEF Importing, Loading, HalfImported, Imports
<1>4. (RestartOK => RestartOK') /\ (CleanDisk => CleanDisk')
  BY <1>1, <1>2, <1>3 DEF RestartOK, CleanDisk
<1>5. CleanCore => CleanCore'
  BY <1>1, <1>2 DEF CleanCore
<1>6. CleanImport => CleanImport'
  BY <1>1, <1>2, <1>3 DEF CleanImport, Imports
<1> QED BY <1>1, <1>2, <1>4, <1>5, <1>6 DEF CleanInv

LEMMA NextClean ==
    ASSUME TypeOK, NodeInv, CleanInv, [Next]_vars
    PROVE  CleanInv'
<1> SUFFICES ASSUME ~UNCHANGED vars, breaches' = {} PROVE CleanInv'
  BY StutterClean DEF CleanInv
<1>1. ASSUME StaysFine PROVE CleanInv'
  BY <1>1 DEF StaysFine, CleanInv
<1>2. CASE Step \/ ReadyLoop
  <2>1. mode = "up" /\ breaches = {}
    BY <1>2, Running
  <2>2. Fine
    BY <2>1 DEF Fine, CleanInv
  <2>3. CASE Panic
    BY <2>2, <2>3, PanicClean DEF CleanInv
  <2>4. CASE ~Panic
    BY <1>1, <1>2, <2>2, <2>4, StepClean, ReadyClean
  <2> QED BY <2>3, <2>4
<1>3. CASE Crash
  <2>1. breaches = {}
    BY <1>3 DEF Crash
  <2>2. mode' = "down" /\ RestartOK'
    BY <1>3, <2>1, CrashClean
  <2> QED BY <2>2 DEF CleanInv
<1>4. CASE Start
  <2>1. breaches = {}
    BY <1>4 DEF Start
  <2> QED BY <1>1, <1>4, <2>1, StartClean
<1> QED BY <1>2, <1>3, <1>4 DEF Next

\* Until the storage has broken one of its contracts, no assertion of append, no unwrap of
\* commmit_index, no check of RawNode::new and none of advance or advance_apply fails, at
\* any crash and in any order of messages; what may fail is route's unwrap of a KV command
\* (append, handle_committed_entries, commmit_index, on_ready).
THEOREM NothingFails == Spec => []NeverFails
<1>1. Init => TypeOK /\ NodeInv /\ CleanInv
  BY InitHolds, InitClean
<1>2. TypeOK /\ NodeInv /\ CleanInv /\ [Next]_vars => TypeOK' /\ NodeInv' /\ CleanInv'
  BY NextKeeps, NextClean
<1>3. CleanInv => NeverFails
  BY DEF CleanInv, NeverFails
<1> QED BY <1>1, <1>2, <1>3, PTL DEF Spec

=============================================================================

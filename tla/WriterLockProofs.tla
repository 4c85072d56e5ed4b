---------------------------- MODULE WriterLockProofs ----------------------------
(***************************************************************************)
(* Proofs about the writer lock, for any units, processes, assignment of   *)
(* units to processes and bound on failures.                               *)
(*                                                                         *)
(* The three step tables are first turned into places (AtPosition,         *)
(* WithinRange), so that no later proof looks into a table.  The inductive *)
(* invariant IInv then follows every write: it is in the transaction of    *)
(* its process until its unit commits and durable from there on, and in    *)
(* between the unit is the holder of the writer lock, so that no other     *)
(* unit of the process can commit it or roll it back.                      *)
(***************************************************************************)
EXTENDS WriterLock, TLAPS, SequenceTheorems

\* Where the locks are held, where a unit writes, and the commit after a write.
WriterRange(k) == IF k = "plain" THEN 2 .. 5 ELSE IF k = "guarded" THEN 2 .. 9 ELSE 2 .. 5
ProjectRange(k) == IF k = "plain" THEN {} ELSE IF k = "guarded" THEN 3 .. 6 ELSE 3 .. 7
WriteAt(k) == IF k = "plain" THEN {2, 3} ELSE IF k = "guarded" THEN {3, 7} ELSE {3}
CommitAfter(k, i) == IF k = "guarded" /\ i > 4 THEN 8 ELSE 4
Length(k) == IF k = "plain" THEN 5 ELSE IF k = "guarded" THEN 9 ELSE 7

Typed == Types /\ pc \in [Units -> Nat]

\* The steps of each kind, by place.
LEMMA PlainTable ==
    /\ Len(Steps("plain")) = 5
    /\ Steps("plain")[1] = "lockWriter" /\ Steps("plain")[2] = "write"
    /\ Steps("plain")[3] = "write" /\ Steps("plain")[4] = "commit"
    /\ Steps("plain")[5] = "unlockWriter"
  BY DEF Steps, PlainSteps

LEMMA GuardedTable ==
    /\ Len(Steps("guarded")) = 9
    /\ Steps("guarded")[1] = "lockWriter" /\ Steps("guarded")[2] = "lockProject"
    /\ Steps("guarded")[3] = "write" /\ Steps("guarded")[4] = "commit"
    /\ Steps("guarded")[5] = "effect" /\ Steps("guarded")[6] = "unlockProject"
    /\ Steps("guarded")[7] = "write" /\ Steps("guarded")[8] = "commit"
    /\ Steps("guarded")[9] = "unlockWriter"
  <1>1. Steps("guarded") = GuardedSteps
    BY DEF Steps
  <1>2. QED
    BY <1>1 DEF GuardedSteps

LEMMA IsolatedTable ==
    /\ Len(Steps("isolated")) = 7
    /\ Steps("isolated")[1] = "lockWriter" /\ Steps("isolated")[2] = "lockProject"
    /\ Steps("isolated")[3] = "write" /\ Steps("isolated")[4] = "commit"
    /\ Steps("isolated")[5] = "unlockWriter" /\ Steps("isolated")[6] = "effect"
    /\ Steps("isolated")[7] = "unlockProject"
  <1>1. Steps("isolated") = IsolatedSteps
    BY DEF Steps
  <1>2. QED
    BY <1>1 DEF IsolatedSteps

LEMMA PositionTyped ==
    ASSUME Typed, NEW u \in Units
    PROVE  kind[u] \in {"plain", "guarded", "isolated"} /\ pc[u] \in 0 .. Length(kind[u]) + 1
           /\ Len(Steps(kind[u])) = Length(kind[u])
  <1>1. kind[u] \in {"plain", "guarded", "isolated"} /\ pc[u] \in Nat
        /\ pc[u] \in 0 .. Len(Steps(kind[u])) + 1
    BY DEF Typed, Types, Kinds
  <1>2. /\ Len(Steps("plain")) = Length("plain")
        /\ Len(Steps("guarded")) = Length("guarded")
        /\ Len(Steps("isolated")) = Length("isolated")
    BY PlainTable, GuardedTable, IsolatedTable DEF Length
  <1>3. Len(Steps(kind[u])) = Length(kind[u])
    BY <1>1, <1>2
  <1>4. QED
    BY <1>1, <1>3

LEMMA AtPosition ==
    ASSUME Typed, NEW u \in Units
    PROVE  /\ \A s : At(u, s) => outcome[u] = "open" /\ pc[u] \in 1 .. Length(kind[u])
           /\ At(u, "lockWriter") => pc[u] = 1
           /\ At(u, "unlockWriter") => pc[u] = IF kind[u] = "guarded" THEN 9 ELSE 5
           /\ At(u, "lockProject") => kind[u] # "plain" /\ pc[u] = 2
           /\ At(u, "unlockProject") => kind[u] # "plain" /\ pc[u] = IF kind[u] = "isolated" THEN 7 ELSE 6
           /\ At(u, "write") => pc[u] \in WriteAt(kind[u])
           /\ At(u, "commit") => pc[u] \in IF kind[u] = "guarded" THEN {4, 8} ELSE {4}
           /\ At(u, "effect") => kind[u] # "plain" /\ pc[u] = IF kind[u] = "isolated" THEN 6 ELSE 5
  <1>1. CASE kind[u] = "plain"
    BY <1>1, PositionTyped, PlainTable DEF At, Length, WriteAt
  <1>2. CASE kind[u] = "guarded"
    <2>1. ASSUME NEW i \in 1 .. 9
          PROVE  LET s == Steps("guarded")[i] IN
                 /\ s = "lockWriter" => i = 1
                 /\ s = "lockProject" => i = 2
                 /\ s = "write" => i \in {3, 7}
                 /\ s = "commit" => i \in {4, 8}
                 /\ s = "effect" => i = 5
                 /\ s = "unlockProject" => i = 6
                 /\ s = "unlockWriter" => i = 9
      <3>1. i \in {1, 2, 3} \/ i \in {4, 5, 6} \/ i \in {7, 8, 9}
        OBVIOUS
      <3>2. QED
        BY <3>1, GuardedTable
    <2>2. pc[u] \in 0 .. 10 /\ Length(kind[u]) = 9
      BY <1>2, PositionTyped DEF Length
    <2>3. ASSUME NEW s, At(u, s)
          PROVE  outcome[u] = "open" /\ pc[u] \in 1 .. 9 /\ Steps("guarded")[pc[u]] = s
      BY <1>2, <2>2, <2>3, GuardedTable DEF At
    <2>4. WriteAt(kind[u]) = {3, 7}
      BY <1>2 DEF WriteAt
    <2>5. QED
      BY <1>2, <2>1, <2>2, <2>3, <2>4
  <1>3. CASE kind[u] = "isolated"
    <2>1. ASSUME NEW i \in 1 .. 7
          PROVE  LET s == Steps("isolated")[i] IN
                 /\ s = "lockWriter" => i = 1
                 /\ s = "lockProject" => i = 2
                 /\ s = "write" => i = 3
                 /\ s = "commit" => i = 4
                 /\ s = "unlockWriter" => i = 5
                 /\ s = "effect" => i = 6
                 /\ s = "unlockProject" => i = 7
      BY IsolatedTable
    <2>2. pc[u] \in 0 .. 8 /\ Length(kind[u]) = 7
      BY <1>3, PositionTyped DEF Length
    <2>3. ASSUME NEW s, At(u, s)
          PROVE  outcome[u] = "open" /\ pc[u] \in 1 .. 7 /\ Steps("isolated")[pc[u]] = s
      BY <1>3, <2>2, <2>3, IsolatedTable DEF At
    <2>4. WriteAt(kind[u]) = {3}
      BY <1>3 DEF WriteAt
    <2>5. QED
      BY <1>3, <2>1, <2>2, <2>3, <2>4
  <1>4. QED
    BY <1>1, <1>2, <1>3, PositionTyped

LEMMA WithinRange ==
    ASSUME Typed, NEW u \in Units
    PROVE  /\ Within(u, "lockWriter", "unlockWriter") <=>
                outcome[u] = "open" /\ pc[u] \in WriterRange(kind[u])
           /\ Within(u, "lockProject", "unlockProject") <=>
                outcome[u] = "open" /\ pc[u] \in ProjectRange(kind[u])
  <1>1. pc[u] \in 0 .. Length(kind[u]) + 1
    BY PositionTyped
  <1>2. CASE kind[u] = "plain"
    <2> DEFINE s == Steps("plain")
    <2>1. pc[u] \in 0 .. 6
      BY <1>1, <1>2 DEF Length
    <2>2. /\ (\E i \in 1 .. pc[u] - 1 : s[i] = "lockWriter") <=> pc[u] > 1
          /\ (\A i \in 1 .. pc[u] - 1 : s[i] # "unlockWriter") <=> pc[u] < 6
          /\ ~\E i \in 1 .. pc[u] - 1 : s[i] = "lockProject"
      <3>1. \A i \in 1 .. 5 : (s[i] = "lockWriter" <=> i = 1) /\ (s[i] = "unlockWriter" <=> i = 5)
                              /\ s[i] # "lockProject"
        BY PlainTable
      <3>2. QED
        BY <2>1, <3>1
    <2>3. QED
      BY <1>2, <2>1, <2>2 DEF Within, WriterRange, ProjectRange
  <1>3. CASE kind[u] = "guarded"
    <2> DEFINE s == Steps("guarded")
    <2>1. pc[u] \in 0 .. 10
      BY <1>1, <1>3 DEF Length
    <2>2. /\ (\E i \in 1 .. pc[u] - 1 : s[i] = "lockWriter") <=> pc[u] > 1
          /\ (\A i \in 1 .. pc[u] - 1 : s[i] # "unlockWriter") <=> pc[u] < 10
          /\ (\E i \in 1 .. pc[u] - 1 : s[i] = "lockProject") <=> pc[u] > 2
          /\ (\A i \in 1 .. pc[u] - 1 : s[i] # "unlockProject") <=> pc[u] < 7
      <3>1. \A i \in 1 .. 9 : (s[i] = "lockWriter" <=> i = 1) /\ (s[i] = "unlockWriter" <=> i = 9)
                              /\ (s[i] = "lockProject" <=> i = 2) /\ (s[i] = "unlockProject" <=> i = 6)
        BY GuardedTable
      <3>2. QED
        BY <2>1, <3>1
    <2>3. QED
      BY <1>3, <2>1, <2>2 DEF Within, WriterRange, ProjectRange
  <1>4. CASE kind[u] = "isolated"
    <2> DEFINE s == Steps("isolated")
    <2>1. pc[u] \in 0 .. 8
      BY <1>1, <1>4 DEF Length
    <2>2. /\ (\E i \in 1 .. pc[u] - 1 : s[i] = "lockWriter") <=> pc[u] > 1
          /\ (\A i \in 1 .. pc[u] - 1 : s[i] # "unlockWriter") <=> pc[u] < 6
          /\ (\E i \in 1 .. pc[u] - 1 : s[i] = "lockProject") <=> pc[u] > 2
          /\ (\A i \in 1 .. pc[u] - 1 : s[i] # "unlockProject") <=> pc[u] < 8
      <3>1. \A i \in 1 .. 7 : (s[i] = "lockWriter" <=> i = 1) /\ (s[i] = "unlockWriter" <=> i = 5)
                              /\ (s[i] = "lockProject" <=> i = 2) /\ (s[i] = "unlockProject" <=> i = 7)
        BY IsolatedTable
      <3>2. QED
        BY <2>1, <3>1
    <2>3. QED
      BY <1>4, <2>1, <2>2 DEF Within, WriterRange, ProjectRange
  <1>5. QED
    BY <1>2, <1>3, <1>4, PositionTyped

-----------------------------------------------------------------------------
(* The queues.                                                             *)

LEMMA OnePlace ==
    ASSUME NEW S, NEW s \in Seq(S), NEW e, Distinct(s), NEW k \in 1 .. Len(s), s[k] = e
    PROVE  RemoveFirst(s, e) = SubSeq(s, 1, k - 1) \o SubSeq(s, k + 1, Len(s))
  <1> DEFINE I == {i \in 1 .. Len(s) : s[i] = e}
  <1>1. I = {k}
    BY DEF Distinct
  <1>2. Min(I) = k
    BY <1>1 DEF Min
  <1>3. SelectInSeq(s, LAMBDA v : v = e) = k
    <2>1. SelectInSeq(s, LAMBDA v : v = e) = IF I # {} THEN Min(I) ELSE 0
      BY DEF SelectInSeq
    <2>2. QED
      BY <1>1, <1>2, <2>1
  <1>4. RemoveFirst(s, e) = RemoveAt(s, SelectInSeq(s, LAMBDA v : v = e))
    BY DEF RemoveFirst
  <1>5. QED
    BY <1>3, <1>4 DEF RemoveAt

LEMMA RemoveFirstOnce ==
    ASSUME NEW S, NEW s \in Seq(S), NEW e, Distinct(s)
    PROVE  /\ RemoveFirst(s, e) \in Seq(S)
           /\ Distinct(RemoveFirst(s, e))
           /\ \A i \in 1 .. Len(RemoveFirst(s, e)) :
                \E j \in 1 .. Len(s) : RemoveFirst(s, e)[i] = s[j] /\ s[j] # e
  <1>1. CASE \E k \in 1 .. Len(s) : s[k] = e
    <2>1. PICK k \in 1 .. Len(s) : s[k] = e
      BY <1>1
    <2> DEFINE a == SubSeq(s, 1, k - 1)
               b == SubSeq(s, k + 1, Len(s))
               r == a \o b
    <2>2. /\ a \in Seq(S) /\ Len(a) = k - 1 /\ \A i \in 1 .. k - 1 : a[i] = s[i]
          /\ b \in Seq(S) /\ Len(b) = Len(s) - k /\ \A i \in 1 .. Len(s) - k : b[i] = s[k + i]
      <3>1. k - 1 \in Int /\ k \in Nat /\ Len(s) \in Nat /\ \A i \in 1 .. Len(s) : s[i] \in S
        OBVIOUS
      <3>2. \A i \in 1 .. k - 1 : s[i] \in S
        BY <3>1
      <3>3. \A i \in k + 1 .. Len(s) : s[i] \in S
        BY <3>1
      <3>4. a \in Seq(S) /\ Len(a) = k - 1 /\ \A i \in 1 .. k - 1 : a[i] = s[i]
        BY <3>1, <3>2, SubSeqProperties
      <3>5. b \in Seq(S) /\ Len(b) = Len(s) - k /\ \A i \in 1 .. Len(s) - k : b[i] = s[k + i]
        BY <3>1, <3>3, SubSeqProperties
      <3>6. QED
        BY <3>4, <3>5
    <2> HIDE DEF a, b
    <2>3. /\ r \in Seq(S) /\ Len(r) = Len(s) - 1
          /\ \A i \in 1 .. Len(s) - 1 : r[i] = IF i < k THEN s[i] ELSE s[i + 1]
      <3>1. r \in Seq(S) /\ Len(r) = Len(a) + Len(b)
        BY <2>2, ConcatProperties
      <3>2. \A i \in 1 .. Len(a) + Len(b) : r[i] = IF i <= Len(a) THEN a[i] ELSE b[i - Len(a)]
        BY <2>2, ConcatProperties
      <3>3. k \in Nat /\ Len(s) \in Nat /\ Len(a) + Len(b) = Len(s) - 1
        BY <2>2
      <3> HIDE DEF r
      <3>4. \A i \in 1 .. Len(s) - 1 : r[i] = IF i < k THEN s[i] ELSE s[i + 1]
        <4>1. TAKE i \in 1 .. Len(s) - 1
        <4>2. CASE i < k
          <5>1. i <= Len(a) /\ i \in 1 .. Len(a) + Len(b)
            BY <2>2, <3>3, <4>2
          <5>2. r[i] = a[i]
            BY <3>2, <5>1
          <5>3. a[i] = s[i]
            BY <2>2, <5>1
          <5>4. QED
            BY <4>2, <5>2, <5>3
        <4>3. CASE i >= k
          <5>1. i - (k - 1) \in 1 .. Len(s) - k /\ k + (i - (k - 1)) = i + 1
            BY <3>3, <4>3
          <5>2. r[i] = b[i - (k - 1)]
            <6>1. Len(a) = k - 1 /\ i \in 1 .. Len(a) + Len(b) /\ ~(i <= Len(a))
              BY <2>2, <3>3, <4>3
            <6>2. QED
              BY <3>2, <6>1
          <5>3. QED
            BY <2>2, <4>3, <5>1, <5>2, <3>3
        <4>4. QED
          BY <4>2, <4>3, <3>3
      <3>5. QED
        BY <3>1, <3>3, <3>4
    <2> HIDE DEF r
    <2>4. k \in Nat /\ Len(s) \in Nat
      OBVIOUS
    <2>5. \A i \in 1 .. Len(r) : \E j \in 1 .. Len(s) : r[i] = s[j] /\ s[j] # e
      <3>1. TAKE i \in 1 .. Len(r)
      <3>2. CASE i < k
        <4>1. i \in 1 .. Len(s) /\ r[i] = s[i] /\ i # k
          BY <2>3, <2>4, <3>2
        <4>2. QED
          BY <2>1, <4>1 DEF Distinct
      <3>3. CASE i >= k
        <4>1. i + 1 \in 1 .. Len(s) /\ r[i] = s[i + 1] /\ i + 1 # k
          BY <2>3, <2>4, <3>3
        <4>2. QED
          BY <2>1, <4>1 DEF Distinct
      <3>4. i < k \/ i >= k
        BY <2>4
      <3>5. QED
        BY <3>2, <3>3, <3>4
    <2>6. Distinct(r)
      <3>1. ASSUME NEW i \in 1 .. Len(r), NEW j \in 1 .. Len(r), r[i] = r[j]
            PROVE  i = j
        <4> DEFINE m == IF i < k THEN i ELSE i + 1
                   n == IF j < k THEN j ELSE j + 1
        <4>1. m \in 1 .. Len(s) /\ n \in 1 .. Len(s)
          BY <2>3, <2>4
        <4>2. r[i] = s[m] /\ r[j] = s[n]
          BY <2>3, <2>4
        <4>3. m = n
          BY <3>1, <4>1, <4>2 DEF Distinct
        <4>4. QED
          BY <2>4, <4>3
      <3>2. QED
        BY <3>1 DEF Distinct
    <2>7. RemoveFirst(s, e) = r
      BY <2>1, OnePlace DEF r, a, b
    <2>8. QED
      BY <2>3, <2>5, <2>6, <2>7
  <1>2. CASE ~\E k \in 1 .. Len(s) : s[k] = e
    <2>1. RemoveFirst(s, e) = s
      BY <1>2 DEF RemoveFirst
    <2>2. QED
      BY <1>2, <2>1
  <1>3. QED
    BY <1>1, <1>2

-----------------------------------------------------------------------------
(* Type correctness.                                                       *)

\* A unit's step moves it on, leaves it where it is, or ends it.
Moves(u) ==
    /\ pc[u] \in 0 .. Length(kind[u])
    /\ pc' = [pc EXCEPT ![u] = @ + 1]
    /\ outcome' = [outcome EXCEPT ![u] = IF pc[u] = Length(kind[u]) THEN "done" ELSE @]
Stays(u) == UNCHANGED <<pc, outcome>>
Ends(u) ==
    /\ pc[u] > 0
    /\ UNCHANGED pc
    /\ \E how \in {"failed", "cancelled"} : outcome' = [outcome EXCEPT ![u] = how]

LEMMA AdvanceMoves ==
    ASSUME Typed, NEW u \in Units, NEW s, At(u, s), Advance(u)
    PROVE  outcome[u] = "open" /\ Moves(u)
  <1>1. Len(Steps(kind[u])) = Length(kind[u])
    BY PositionTyped
  <1>2. outcome[u] = "open" /\ pc[u] \in 1 .. Length(kind[u])
    BY <1>1 DEF At
  <1>3. Length(kind[u]) \in Nat
    BY DEF Length
  <1>4. pc[u] \in 0 .. Length(kind[u])
    BY <1>2, <1>3
  <1>5. QED
    BY <1>1, <1>2, <1>4 DEF Advance, Moves

LEMMA StepShape ==
    ASSUME Typed, NEW u \in Units, UnitStep(u)
    PROVE  kind' = kind /\ outcome[u] = "open" /\ (Moves(u) \/ Stays(u) \/ Ends(u))
  <1>1. CASE Start(u)
    <2>1. outcome' = [outcome EXCEPT ![u] = @] /\ pc[u] = 0 /\ pc[u] # Length(kind[u])
      BY <1>1, PositionTyped DEF Start, Typed, Types, Length
    <2>2. pc' = [pc EXCEPT ![u] = @ + 1]
      BY <1>1 DEF Start
    <2>3. pc[u] \in 0 .. Length(kind[u]) /\ kind' = kind
      BY <1>1, PositionTyped, <2>1 DEF Start, Length
    <2>4. Moves(u)
      BY <2>1, <2>2, <2>3 DEF Moves
    <2>5. QED
      BY <1>1, <2>3, <2>4 DEF Start
  <1>2. CASE WaitForWriter(u)
    BY <1>2 DEF WaitForWriter, At, Stays
  <1>3. ASSUME NEW s, At(u, s), Advance(u)
        PROVE  outcome[u] = "open" /\ Moves(u)
    BY <1>3, AdvanceMoves
  <1>4. CASE LockWriter(u) \/ UnlockWriter(u) \/ LockProject(u) \/ UnlockProject(u)
             \/ WriteRow(u) \/ Commit(u) \/ FileEffect(u)
    BY <1>3, <1>4 DEF LockWriter, UnlockWriter, LockProject, UnlockProject, WriteRow, Commit,
                      FileEffect
  <1>5. CASE BusyTimeout(u) \/ Fail(u) \/ QueueTimeout(u) \/ Cancel(u)
    BY <1>5 DEF BusyTimeout, Fail, QueueTimeout, Cancel, Abort, Ends
  <1>6. QED
    BY <1>1, <1>2, <1>4, <1>5 DEF UnitStep, Proceed

LEMMA StepsLength == \A k \in Kinds : Len(Steps(k)) = Length(k) /\ Length(k) \in Nat
  BY PlainTable, GuardedTable, IsolatedTable DEF Kinds, Length

LEMMA WritesInRange == \A k \in Kinds : \A i \in WriteAt(k) : i \in 1 .. 9
  BY DEF Kinds, WriteAt

LEMMA ProgressStep ==
    ASSUME Typed, NEW u \in Units, UnitStep(u)
    PROVE  /\ kind' \in [Units -> Kinds]
           /\ pc' \in [Units -> Nat]
           /\ outcome' \in [Units -> {"open", "done", "failed", "cancelled"}]
           /\ \A v \in Units :
                /\ pc'[v] \in 0 .. Len(Steps(kind'[v])) + 1
                /\ outcome'[v] = "done" <=> pc'[v] = Len(Steps(kind'[v])) + 1
  <1>1. /\ kind \in [Units -> Kinds]
        /\ pc \in [Units -> Nat]
        /\ outcome \in [Units -> {"open", "done", "failed", "cancelled"}]
    BY DEF Typed, Types
  <1>2. kind' = kind /\ outcome[u] = "open" /\ (Moves(u) \/ Stays(u) \/ Ends(u))
    BY StepShape
  <1>3. \A v \in Units : Len(Steps(kind[v])) = Length(kind[v]) /\ Length(kind[v]) \in Nat
    BY <1>1, StepsLength
  <1>4. \A v \in Units : /\ pc[v] \in 0 .. Length(kind[v]) + 1
                         /\ outcome[v] = "done" <=> pc[v] = Length(kind[v]) + 1
    BY <1>3 DEF Typed, Types
  <1>5. /\ pc' \in [Units -> Nat]
        /\ outcome' \in [Units -> {"open", "done", "failed", "cancelled"}]
    <2>1. CASE Moves(u)
      BY <1>1, <2>1 DEF Moves
    <2>2. CASE Stays(u)
      BY <1>1, <2>2 DEF Stays
    <2>3. CASE Ends(u)
      BY <1>1, <2>3 DEF Ends
    <2>4. QED
      BY <1>2, <2>1, <2>2, <2>3
  <1>6. ASSUME NEW v \in Units
        PROVE  /\ pc'[v] \in 0 .. Length(kind[v]) + 1
               /\ outcome'[v] = "done" <=> pc'[v] = Length(kind[v]) + 1
    <2>1. CASE Moves(u)
      <3>1. CASE v = u
        BY <1>1, <1>2, <1>3, <1>4, <2>1, <3>1 DEF Moves
      <3>2. CASE v # u
        BY <1>1, <1>4, <2>1, <3>2 DEF Moves
      <3>3. QED
        BY <3>1, <3>2
    <2>2. CASE Stays(u)
      BY <1>4, <2>2 DEF Stays
    <2>3. CASE Ends(u)
      BY <1>1, <1>2, <1>4, <2>3 DEF Ends
    <2>4. QED
      BY <1>2, <2>1, <2>2, <2>3
  <1>7. QED
    BY <1>1, <1>2, <1>3, <1>5, <1>6

LEMMA QueueTyped ==
    ASSUME Typed, NEW u \in Units, UnitStep(u),
           \A p \in Processes : Distinct(queue[p])
    PROVE  queue' \in [Processes -> Seq(Units)]
  <1>1. queue \in [Processes -> Seq(Units)] /\ Home[u] \in Processes
    BY HomeAssumption DEF Typed, Types
  <1>2. CASE WaitForWriter(u)
    BY <1>1, <1>2, AppendProperties DEF WaitForWriter
  <1>3. CASE LockWriter(u)
    BY <1>1, <1>3, HeadTailProperties DEF LockWriter
  <1>4. CASE Fail(u) \/ BusyTimeout(u) \/ QueueTimeout(u) \/ Cancel(u)
    <2>1. queue' = [queue EXCEPT ![Home[u]] = RemoveFirst(@, u)]
      BY <1>4 DEF Fail, BusyTimeout, QueueTimeout, Cancel, Abort, ReleaseAll
    <2>2. RemoveFirst(queue[Home[u]], u) \in Seq(Units)
      BY <1>1, RemoveFirstOnce
    <2>3. QED
      BY <1>1, <2>1, <2>2
  <1>5. CASE Start(u) \/ UnlockWriter(u) \/ LockProject(u) \/ UnlockProject(u) \/ WriteRow(u)
             \/ Commit(u) \/ FileEffect(u)
    BY <1>1, <1>5 DEF Start, UnlockWriter, LockProject, UnlockProject, WriteRow, Commit, FileEffect
  <1>6. QED
    BY <1>2, <1>3, <1>4, <1>5 DEF UnitStep, Proceed

LEMMA RestTyped ==
    ASSUME Typed, NEW u \in Units, UnitStep(u)
    PROVE  /\ holder' \in [Processes -> Units \cup {Nobody}]
           /\ projectHolder' \in Units \cup {Nobody}
           /\ tx' \in [Processes -> SUBSET Write]
           /\ durable' \subseteq Write
           /\ effects' \subseteq Units
           /\ aborts' \in Nat
  <1> USE HomeAssumption
  <1>1. /\ holder \in [Processes -> Units \cup {Nobody}]
        /\ projectHolder \in Units \cup {Nobody}
        /\ tx \in [Processes -> SUBSET Write]
        /\ durable \subseteq Write
        /\ effects \subseteq Units
        /\ aborts \in Nat
        /\ Home[u] \in Processes
    BY DEF Typed, Types
  <1>2. CASE Start(u) \/ WaitForWriter(u)
    BY <1>1, <1>2 DEF Start, WaitForWriter
  <1>3. CASE LockWriter(u) \/ UnlockWriter(u)
    BY <1>1, <1>3 DEF LockWriter, UnlockWriter
  <1>4. CASE LockProject(u) \/ UnlockProject(u) \/ FileEffect(u)
    BY <1>1, <1>4 DEF LockProject, UnlockProject, FileEffect
  <1>5. CASE WriteRow(u)
    <2>1. pc[u] \in 1 .. 9
      BY <1>5, AtPosition, PositionTyped, WritesInRange DEF WriteRow, Kinds
    <2>2. [unit |-> u, at |-> pc[u]] \in Write
      BY <2>1 DEF Write
    <2>3. tx' \in [Processes -> SUBSET Write]
      BY <1>1, <1>5, <2>2 DEF WriteRow
    <2>4. QED
      BY <1>1, <1>5, <2>3 DEF WriteRow
  <1>6. CASE Commit(u)
    BY <1>1, <1>6 DEF Commit
  <1>7. CASE Fail(u) \/ BusyTimeout(u) \/ QueueTimeout(u) \/ Cancel(u)
    <2>1. Abort(u, "failed") \/ Abort(u, "cancelled")
      BY <1>7 DEF Fail, BusyTimeout, QueueTimeout, Cancel
    <2>2. /\ holder' \in [Processes -> Units \cup {Nobody}]
          /\ projectHolder' \in Units \cup {Nobody}
          /\ durable' = durable /\ effects' = effects
      BY <1>1, <2>1 DEF Abort, ReleaseAll
    <2>3. tx' \in [Processes -> SUBSET Write] /\ aborts' \in Nat
      BY <1>1, <1>7 DEF Fail, BusyTimeout, QueueTimeout, Cancel, RollbackIfHolder
    <2>4. QED
      BY <1>1, <2>2, <2>3
  <1>8. QED
    BY <1>2, <1>3, <1>4, <1>5, <1>6, <1>7 DEF UnitStep, Proceed

LEMMA TypedStep ==
    ASSUME Typed, NEW u \in Units, UnitStep(u),
           \A p \in Processes : Distinct(queue[p])
    PROVE  Typed'
  BY ProgressStep, QueueTyped, RestTyped DEF Typed, Types

-----------------------------------------------------------------------------
(* The inductive invariant.                                                *)

\* LocksMatchProgress, by place.
HoldersByPlace ==
    \A u \in Units :
        /\ holder[Home[u]] = u <=> outcome[u] = "open" /\ pc[u] \in WriterRange(kind[u])
        /\ projectHolder = u <=> outcome[u] = "open" /\ pc[u] \in ProjectRange(kind[u])

Past(w) == w.at \in WriteAt(kind[w.unit]) /\ w.at < pc[w.unit]
Committed(w) == CommitAfter(kind[w.unit], w.at) < pc[w.unit]

\* An open transaction holds writes of its process, and those of a unit that
\* failed only if that unit had passed their commit.
OpenTransactions ==
    \A p \in Processes : \A w \in tx[p] :
        /\ Home[w.unit] = p
        /\ Past(w)
        /\ outcome[w.unit] = "failed" => Committed(w)

\* A write is durable before its unit's commit only if the unit was cancelled.
DurableWrites ==
    \A w \in durable : Past(w) /\ (outcome[w.unit] # "cancelled" => Committed(w))

\* A unit at work has its writes in the transaction up to its commit, and in
\* the database from there on.
WritesKept ==
    \A u \in Units : outcome[u] \in {"open", "done"} =>
        \A i \in WriteAt(kind[u]) : i < pc[u] =>
            [unit |-> u, at |-> i] \in
                IF CommitAfter(kind[u], i) < pc[u] THEN durable ELSE tx[Home[u]]

IInv ==
    /\ Typed
    /\ QueuesHoldWaiters
    /\ HoldersByPlace
    /\ OpenTransactions
    /\ DurableWrites
    /\ WritesKept
    /\ EffectsAreJournaled

LEMMA OtherUnitsWait ==
    ASSUME Typed, NEW u \in Units, UnitStep(u), NEW v \in Units
    PROVE  /\ kind' = kind
           /\ v # u => pc'[v] = pc[v] /\ outcome'[v] = outcome[v]
           /\ pc[v] \in Nat /\ pc'[v] \in {pc[v], pc[v] + 1}
  <1>1. kind' = kind /\ (Moves(u) \/ Stays(u) \/ Ends(u))
    BY StepShape
  <1>2. pc \in [Units -> Nat] /\ outcome \in [Units -> {"open", "done", "failed", "cancelled"}]
    BY DEF Typed, Types
  <1>3. CASE Moves(u)
    BY <1>1, <1>2, <1>3 DEF Moves
  <1>4. CASE Stays(u)
    BY <1>1, <1>2, <1>4 DEF Stays
  <1>5. CASE Ends(u)
    BY <1>1, <1>2, <1>5 DEF Ends
  <1>6. QED
    BY <1>1, <1>3, <1>4, <1>5

\* What the four ways out of a unit have in common.
LEMMA EarlyEnds ==
    ASSUME Typed, NEW u \in Units, Fail(u) \/ BusyTimeout(u) \/ QueueTimeout(u) \/ Cancel(u)
    PROVE  /\ outcome[u] = "open" /\ pc' = pc
           /\ outcome'[u] \in {"failed", "cancelled"}
           /\ outcome'[u] = "cancelled" => tx' = tx
           /\ outcome'[u] = "failed" => RollbackIfHolder(u) \/ (tx' = tx /\ QueueTimeout(u))
           /\ durable' = durable /\ effects' = effects
           /\ ReleaseAll(u)
  <1>1. outcome \in [Units -> {"open", "done", "failed", "cancelled"}]
    BY DEF Typed, Types
  <1>2. CASE Fail(u)
    BY <1>1, <1>2 DEF Fail, Abort
  <1>3. CASE BusyTimeout(u)
    BY <1>1, <1>3 DEF BusyTimeout, Abort
  <1>4. CASE QueueTimeout(u)
    BY <1>1, <1>4 DEF QueueTimeout, Abort
  <1>5. CASE Cancel(u)
    BY <1>1, <1>5 DEF Cancel, Abort
  <1>6. QED
    BY <1>2, <1>3, <1>4, <1>5

LEMMA QueueStep ==
    ASSUME Typed, QueuesHoldWaiters, NEW u \in Units, UnitStep(u)
    PROVE  QueuesHoldWaiters'
  <1> USE HomeAssumption
  <1>1. /\ queue \in [Processes -> Seq(Units)] /\ Home[u] \in Processes
        /\ pc \in [Units -> Nat]
        /\ outcome \in [Units -> {"open", "done", "failed", "cancelled"}]
    BY DEF Typed, Types
  <1> DEFINE Waiting(v) == outcome[v] = "open" /\ pc[v] = 1
  <1>2. ASSUME NEW p \in Processes, NEW i \in 1 .. Len(queue[p])
        PROVE  queue[p][i] \in Units /\ Home[queue[p][i]] = p /\ Waiting(queue[p][i])
    BY <1>1 DEF QueuesHoldWaiters
  <1>3. \A p \in Processes : Distinct(queue[p])
    BY DEF QueuesHoldWaiters
  <1>4. \A v \in Units : v # u /\ Waiting(v) => Waiting(v)'
    BY OtherUnitsWait
  <1>5. \A p \in Processes : p # Home[u] => \A i \in 1 .. Len(queue[p]) : queue[p][i] # u
    BY <1>2
  <1>6. CASE WaitForWriter(u)
    <2>1. outcome' = outcome /\ pc' = pc /\ Waiting(u)
      BY <1>6, AtPosition DEF WaitForWriter
    <2>2. queue' = [queue EXCEPT ![Home[u]] = Append(@, u)]
          /\ \A i \in 1 .. Len(queue[Home[u]]) : queue[Home[u]][i] # u
      BY <1>6 DEF WaitForWriter, Queued
    <2>3. ASSUME NEW p \in Processes
          PROVE  /\ Distinct(queue'[p])
                 /\ \A i \in 1 .. Len(queue'[p]) : Home[queue'[p][i]] = p /\ Waiting(queue'[p][i])
      <3>1. CASE p = Home[u]
        <4> DEFINE q == queue[p]
        <4>1. q \in Seq(Units) /\ Len(q) \in Nat /\ queue'[p] = Append(q, u)
          BY <1>1, <2>2, <3>1
        <4>2. /\ Len(Append(q, u)) = Len(q) + 1
              /\ \A i \in 1 .. Len(q) : Append(q, u)[i] = q[i]
              /\ Append(q, u)[Len(q) + 1] = u
          BY <4>1, AppendProperties
        <4>3. \A i \in 1 .. Len(q) : q[i] # u /\ Home[q[i]] = p /\ Waiting(q[i])
          BY <1>2, <2>2, <3>1
        <4>4. Distinct(q)
          BY <1>3
        <4> HIDE DEF Waiting, q
        <4>5. \A i \in 1 .. Len(q) + 1 : i \in 1 .. Len(q) \/ i = Len(q) + 1
          BY <4>1
        <4>6. Distinct(Append(q, u))
          BY <4>2, <4>3, <4>4, <4>5 DEF Distinct
        <4>7. QED
          BY <2>1, <3>1, <4>1, <4>2, <4>3, <4>5, <4>6
      <3>2. CASE p # Home[u]
        BY <1>1, <1>2, <1>3, <2>2, <3>2
      <3>3. QED
        BY <3>1, <3>2
    <2>4. QED
      BY <2>1, <2>3 DEF QueuesHoldWaiters
  <1>7. CASE LockWriter(u)
    <2>1. /\ queue' = [queue EXCEPT ![Home[u]] = Tail(@)]
          /\ queue[Home[u]] # <<>> /\ Head(queue[Home[u]]) = u
      BY <1>7 DEF LockWriter
    <2>2. ASSUME NEW p \in Processes
          PROVE  /\ Distinct(queue'[p])
                 /\ \A i \in 1 .. Len(queue'[p]) : /\ queue'[p][i] \in Units /\ queue'[p][i] # u
                                                   /\ Home[queue'[p][i]] = p /\ Waiting(queue'[p][i])
      <3>1. CASE p = Home[u]
        <4> DEFINE q == queue[p]
        <4>1. q \in Seq(Units) /\ Len(q) \in Nat /\ queue'[p] = Tail(q) /\ q # <<>> /\ q[1] = u
          BY <1>1, <2>1, <3>1
        <4>2. /\ Len(Tail(q)) = Len(q) - 1
              /\ \A i \in 1 .. Len(Tail(q)) : Tail(q)[i] = q[i + 1]
          BY <4>1, HeadTailProperties
        <4>3. Len(q) >= 1
          BY <4>1
        <4>4. Distinct(q) /\ \A i \in 1 .. Len(q) : q[i] \in Units /\ Home[q[i]] = p /\ Waiting(q[i])
          BY <1>2, <1>3
        <4> HIDE DEF Waiting, q
        <4>5. \A i \in 1 .. Len(Tail(q)) : i + 1 \in 1 .. Len(q) /\ i + 1 # 1 /\ 1 \in 1 .. Len(q)
          BY <4>1, <4>2, <4>3
        <4>6. Distinct(Tail(q))
          BY <4>1, <4>2, <4>4, <4>5 DEF Distinct
        <4>7. \A i \in 1 .. Len(Tail(q)) : Tail(q)[i] # u
          BY <4>1, <4>2, <4>4, <4>5 DEF Distinct
        <4>8. QED
          BY <4>1, <4>2, <4>4, <4>5, <4>6, <4>7
      <3>2. CASE p # Home[u]
        BY <1>1, <1>2, <1>3, <1>5, <2>1, <3>2
      <3>3. QED
        BY <3>1, <3>2
    <2>3. QED
      BY <1>4, <2>2 DEF QueuesHoldWaiters
  <1>8. CASE Fail(u) \/ BusyTimeout(u) \/ QueueTimeout(u) \/ Cancel(u)
    <2>1. queue' = [queue EXCEPT ![Home[u]] = RemoveFirst(@, u)]
      BY <1>8, EarlyEnds DEF ReleaseAll
    <2>2. ASSUME NEW p \in Processes
          PROVE  /\ Distinct(queue'[p])
                 /\ \A i \in 1 .. Len(queue'[p]) : /\ queue'[p][i] \in Units /\ queue'[p][i] # u
                                                   /\ Home[queue'[p][i]] = p /\ Waiting(queue'[p][i])
      <3>1. CASE p = Home[u]
        <4> DEFINE q == queue[p]
        <4>1. q \in Seq(Units) /\ queue'[p] = RemoveFirst(q, u)
          BY <1>1, <2>1, <3>1
        <4>2. Distinct(q) /\ \A i \in 1 .. Len(q) : q[i] \in Units /\ Home[q[i]] = p /\ Waiting(q[i])
          BY <1>2, <1>3
        <4> HIDE DEF Waiting, q
        <4>3. QED
          BY <4>1, <4>2, RemoveFirstOnce
      <3>2. CASE p # Home[u]
        BY <1>1, <1>2, <1>3, <1>5, <2>1, <3>2
      <3>3. QED
        BY <3>1, <3>2
    <2>3. QED
      BY <1>4, <2>2 DEF QueuesHoldWaiters
  <1>9. CASE Start(u) \/ UnlockWriter(u) \/ LockProject(u) \/ UnlockProject(u) \/ WriteRow(u)
             \/ Commit(u) \/ FileEffect(u)
    <2>1. queue' = queue
      BY <1>9 DEF Start, UnlockWriter, LockProject, UnlockProject, WriteRow, Commit, FileEffect
    <2>2. ~Waiting(u)
      <3>1. CASE Start(u)
        BY <3>1 DEF Start
      <3>2. CASE ~Start(u)
        <4>1. pc[u] # 1
          <5>1. \/ At(u, "unlockWriter") \/ At(u, "lockProject") \/ At(u, "unlockProject")
                \/ At(u, "write") \/ At(u, "commit") \/ At(u, "effect")
            BY <1>9, <3>2 DEF UnlockWriter, LockProject, UnlockProject, WriteRow, Commit, FileEffect
          <5>2. CASE At(u, "write")
            <6>1. pc[u] \in WriteAt(kind[u])
              BY <5>2, AtPosition
            <6>2. QED
              BY <6>1 DEF WriteAt
          <5>3. CASE At(u, "commit")
            <6>1. pc[u] \in IF kind[u] = "guarded" THEN {4, 8} ELSE {4}
              BY <5>3, AtPosition
            <6>2. QED
              BY <6>1
          <5>4. CASE At(u, "unlockWriter") \/ At(u, "unlockProject")
            <6>1. pc[u] \in {9, 5, 7, 6}
              BY <5>4, AtPosition
            <6>2. QED
              BY <6>1
          <5>5. CASE At(u, "lockProject") \/ At(u, "effect")
            <6>1. pc[u] \in {2, 6, 5}
              BY <5>5, AtPosition
            <6>2. QED
              BY <6>1
          <5>6. QED
            BY <5>1, <5>2, <5>3, <5>4, <5>5
        <4>2. QED
          BY <4>1
      <3>3. QED
        BY <3>1, <3>2
    <2>3. \A p \in Processes : \A i \in 1 .. Len(queue[p]) :
            queue[p][i] \in Units /\ queue[p][i] # u /\ Waiting(queue[p][i])
      BY <1>2, <2>2
    <2>4. QED
      BY <1>2, <1>3, <1>4, <2>1, <2>3 DEF QueuesHoldWaiters
  <1>10. QED
    BY <1>6, <1>7, <1>8, <1>9 DEF UnitStep, Proceed

\* A step by a unit that goes on, by place.
LEMMA MoveByPlace ==
    ASSUME Typed, NEW u \in Units, UnitStep(u), Moves(u)
    PROVE  /\ pc'[u] = pc[u] + 1
           /\ outcome'[u] = IF pc[u] = Length(kind[u]) THEN "done" ELSE "open"
  <1>1. pc \in [Units -> Nat] /\ outcome \in [Units -> {"open", "done", "failed", "cancelled"}]
    BY DEF Typed, Types
  <1>2. outcome[u] = "open"
    BY StepShape
  <1>3. QED
    BY <1>1, <1>2 DEF Moves

\* The steps that leave the locks alone do not cross the ends of their ranges.
LEMMA PlaceStep ==
    ASSUME Typed, QueuesHoldWaiters, HoldersByPlace, NEW u \in Units, UnitStep(u)
    PROVE  HoldersByPlace'
  <1> USE HomeAssumption, NobodyAssumption
  <1> DEFINE Writing(v) == outcome[v] = "open" /\ pc[v] \in WriterRange(kind[v])
             Locking(v) == outcome[v] = "open" /\ pc[v] \in ProjectRange(kind[v])
  <1>1. /\ holder \in [Processes -> Units \cup {Nobody}] /\ Home \in [Units -> Processes]
        /\ projectHolder \in Units \cup {Nobody}
    BY DEF Typed, Types
  <1>2. \A v \in Units : v # u => (Writing(v)' <=> Writing(v)) /\ (Locking(v)' <=> Locking(v))
    BY OtherUnitsWait
  <1>3. \A v \in Units : (holder[Home[v]] = v <=> Writing(v)) /\ (projectHolder = v <=> Locking(v))
    BY DEF HoldersByPlace
  <1>4. SUFFICES \A v \in Units : /\ holder'[Home[v]] = v <=> Writing(v)'
                                  /\ projectHolder' = v <=> Locking(v)'
    BY DEF HoldersByPlace
  <1>5. kind' = kind /\ kind[u] \in Kinds /\ outcome[u] = "open"
        /\ pc[u] \in 0 .. Length(kind[u]) + 1
    BY StepShape, PositionTyped DEF Kinds
  <1>6. CASE WaitForWriter(u)
    <2>1. holder' = holder /\ projectHolder' = projectHolder /\ pc' = pc /\ outcome' = outcome
      BY <1>6 DEF WaitForWriter
    <2>2. QED
      BY <1>3, <1>5, <2>1
  <1>7. CASE LockWriter(u)
    <2>1. /\ holder' = [holder EXCEPT ![Home[u]] = u] /\ holder[Home[u]] = Nobody
          /\ projectHolder' = projectHolder /\ pc[u] = 1
          /\ pc'[u] = 2 /\ outcome'[u] = "open"
      <3>1. pc[u] = 1 /\ Moves(u)
        BY <1>7, AtPosition, AdvanceMoves DEF LockWriter
      <3>2. QED
        BY <1>7, <3>1, MoveByPlace DEF LockWriter, Length
    <2>2. Writing(u)' /\ ~Writing(u) /\ ~Locking(u) /\ ~Locking(u)'
      BY <1>5, <2>1 DEF WriterRange, ProjectRange, Kinds
    <2>3. QED
      BY <1>1, <1>2, <1>3, <2>1, <2>2
  <1>8. CASE UnlockWriter(u)
    <2>1. /\ holder' = [holder EXCEPT ![Home[u]] = Nobody]
          /\ projectHolder' = projectHolder
          /\ pc[u] = IF kind[u] = "guarded" THEN 9 ELSE 5
          /\ pc'[u] = pc[u] + 1 /\ outcome'[u] = IF pc[u] = Length(kind[u]) THEN "done" ELSE "open"
      <3>1. pc[u] = IF kind[u] = "guarded" THEN 9 ELSE 5
        BY <1>8, AtPosition DEF UnlockWriter
      <3>2. Moves(u)
        BY <1>8, AdvanceMoves DEF UnlockWriter
      <3>3. QED
        BY <1>8, <3>1, <3>2, MoveByPlace DEF UnlockWriter
    <2>2. ~Writing(u)' /\ Writing(u) /\ (Locking(u)' <=> Locking(u))
      BY <1>5, <2>1 DEF WriterRange, ProjectRange, Kinds, Length
    <2>3. QED
      BY <1>1, <1>2, <1>3, <2>1, <2>2
  <1>9. CASE LockProject(u)
    <2>1. /\ holder' = holder
          /\ projectHolder' = u /\ projectHolder = Nobody
          /\ kind[u] # "plain" /\ pc[u] = 2
          /\ pc'[u] = 3 /\ outcome'[u] = "open"
      <3>1. pc[u] = 2 /\ kind[u] # "plain"
        BY <1>9, AtPosition DEF LockProject
      <3>2. Moves(u)
        BY <1>9, AdvanceMoves DEF LockProject
      <3>3. QED
        BY <1>9, <3>1, <3>2, MoveByPlace DEF LockProject, Length
    <2>2. Writing(u)' /\ Writing(u) /\ ~Locking(u) /\ Locking(u)'
      BY <1>5, <2>1 DEF WriterRange, ProjectRange, Kinds
    <2>3. QED
      BY <1>1, <1>2, <1>3, <2>1, <2>2
  <1>10. CASE UnlockProject(u)
    <2>1. /\ holder' = holder
          /\ projectHolder' = Nobody
          /\ kind[u] # "plain" /\ pc[u] = IF kind[u] = "isolated" THEN 7 ELSE 6
          /\ pc'[u] = pc[u] + 1 /\ outcome'[u] = IF pc[u] = Length(kind[u]) THEN "done" ELSE "open"
      <3>1. kind[u] # "plain" /\ pc[u] = IF kind[u] = "isolated" THEN 7 ELSE 6
        BY <1>10, AtPosition DEF UnlockProject
      <3>2. Moves(u)
        BY <1>10, AdvanceMoves DEF UnlockProject
      <3>3. QED
        BY <1>10, <3>1, <3>2, MoveByPlace DEF UnlockProject, Length
    <2>2. (Writing(u)' <=> Writing(u)) /\ Locking(u) /\ ~Locking(u)'
      BY <1>5, <2>1 DEF WriterRange, ProjectRange, Kinds, Length
    <2>3. QED
      BY <1>1, <1>2, <1>3, <2>1, <2>2
  <1>11. CASE Start(u) \/ WriteRow(u) \/ Commit(u) \/ FileEffect(u)
    <2>1. /\ holder' = holder /\ projectHolder' = projectHolder
          /\ \/ pc[u] = 0
             \/ pc[u] \in WriteAt(kind[u])
             \/ pc[u] \in IF kind[u] = "guarded" THEN {4, 8} ELSE {4}
             \/ kind[u] # "plain" /\ pc[u] = IF kind[u] = "isolated" THEN 6 ELSE 5
      BY <1>11, AtPosition DEF Start, WriteRow, Commit, FileEffect
    <2>2. Moves(u)
      <3>1. CASE Start(u)
        <4>1. pc[u] = 0 /\ pc'[u] = 1
          BY <3>1 DEF Start, Typed
        <4>2. QED
          BY <4>1, StepShape DEF Stays, Ends
      <3>2. CASE WriteRow(u) \/ Commit(u) \/ FileEffect(u)
        BY <3>2, AdvanceMoves DEF WriteRow, Commit, FileEffect
      <3>3. QED
        BY <1>11, <3>1, <3>2
    <2>3. pc'[u] = pc[u] + 1 /\ outcome'[u] = "open"
      BY <1>5, <2>1, <2>2, MoveByPlace DEF Kinds, WriteAt, Length
    <2>4. (Writing(u)' <=> Writing(u)) /\ (Locking(u)' <=> Locking(u))
      BY <1>5, <2>1, <2>3 DEF Kinds, WriteAt, WriterRange, ProjectRange
    <2>5. QED
      BY <1>2, <1>3, <2>1, <2>4
  <1>12. CASE Fail(u) \/ BusyTimeout(u) \/ QueueTimeout(u) \/ Cancel(u)
    <2>1. /\ holder' = [holder EXCEPT ![Home[u]] = IF @ = u THEN Nobody ELSE @]
          /\ projectHolder' = IF projectHolder = u THEN Nobody ELSE projectHolder
          /\ outcome'[u] # "open"
      BY <1>12, EarlyEnds DEF ReleaseAll
    <2>2. ~Writing(u)' /\ ~Locking(u)'
      BY <2>1
    <2>3. QED
      BY <1>1, <1>2, <1>3, <2>1, <2>2
  <1>13. QED
    BY <1>6, <1>7, <1>8, <1>9, <1>10, <1>11, <1>12 DEF UnitStep, Proceed

\* Between a write and its commit a unit holds the writer lock, unless it ended.
LEMMA UncommittedIsHeld ==
    ASSUME Typed, HoldersByPlace, NEW v \in Units, NEW i \in WriteAt(kind[v]),
           i < pc[v], ~(CommitAfter(kind[v], i) < pc[v])
    PROVE  /\ outcome[v] # "done"
           /\ outcome[v] = "open" => holder[Home[v]] = v
  <1>1. kind[v] \in Kinds /\ pc[v] \in Nat
    BY PositionTyped DEF Typed, Types
  <1>2. pc[v] \in WriterRange(kind[v]) /\ pc[v] < Length(kind[v]) + 1
    BY <1>1 DEF Kinds, WriteAt, CommitAfter, WriterRange, Length
  <1>3. outcome[v] = "done" => pc[v] = Length(kind[v]) + 1
    BY PositionTyped DEF Typed, Types
  <1>4. QED
    BY <1>1, <1>2, <1>3 DEF HoldersByPlace, Kinds, Length

LEMMA WriteTyped ==
    ASSUME Typed
    PROVE  /\ \A p \in Processes : \A w \in tx[p] : w.unit \in Units /\ w.at \in Nat
           /\ \A w \in durable : w.unit \in Units /\ w.at \in Nat
  <1>1. tx \in [Processes -> SUBSET Write] /\ durable \subseteq Write
    BY DEF Typed, Types
  <1>2. QED
    BY <1>1 DEF Write

\* Passing a write or its commit is for good.
LEMMA ProgressIsKept ==
    ASSUME Typed, NEW u \in Units, UnitStep(u), NEW w, w.unit \in Units, w.at \in Nat
    PROVE  (Past(w) => Past(w)') /\ (Committed(w) => Committed(w)')
  <1>1. kind' = kind /\ pc[w.unit] \in Nat /\ pc'[w.unit] \in {pc[w.unit], pc[w.unit] + 1}
    BY OtherUnitsWait
  <1>2. CommitAfter(kind[w.unit], w.at) \in Nat
    BY DEF CommitAfter
  <1>3. QED
    BY <1>1, <1>2 DEF Past, Committed

LEMMA CommitsAsHolder ==
    ASSUME Typed, HoldersByPlace, NEW u \in Units, Commit(u)
    PROVE  /\ holder[Home[u]] = u
           /\ pc[u] \in IF kind[u] = "guarded" THEN {4, 8} ELSE {4}
           /\ pc'[u] = pc[u] + 1 /\ outcome[u] = "open" /\ outcome'[u] = "open"
  <1>1. pc[u] \in IF kind[u] = "guarded" THEN {4, 8} ELSE {4}
    BY AtPosition DEF Commit
  <1>2. outcome[u] = "open" /\ Moves(u)
    BY AdvanceMoves DEF Commit
  <1>3. kind[u] \in Kinds
    BY PositionTyped DEF Kinds
  <1>4. holder[Home[u]] = u
    BY <1>1, <1>2, <1>3 DEF HoldersByPlace, WriterRange, Kinds
  <1>5. UnitStep(u)
    BY DEF UnitStep, Proceed
  <1>6. QED
    BY <1>1, <1>2, <1>3, <1>4, <1>5, MoveByPlace DEF Length, Kinds

\* A unit that is not ended by its step does not fail in it.
LEMMA NoFailure ==
    ASSUME Typed, NEW u \in Units, UnitStep(u),
           ~(Fail(u) \/ BusyTimeout(u) \/ QueueTimeout(u) \/ Cancel(u))
    PROVE  outcome'[u] \in {"open", "done"}
  <1>1. outcome[u] = "open" /\ outcome \in [Units -> {"open", "done", "failed", "cancelled"}]
    BY StepShape DEF Typed, Types
  <1>2. CASE Start(u) \/ WaitForWriter(u)
    BY <1>1, <1>2 DEF Start, WaitForWriter
  <1>3. CASE LockWriter(u) \/ UnlockWriter(u) \/ LockProject(u) \/ UnlockProject(u)
             \/ WriteRow(u) \/ Commit(u) \/ FileEffect(u)
    <2>1. Moves(u)
      BY <1>3, AdvanceMoves DEF LockWriter, UnlockWriter, LockProject, UnlockProject, WriteRow,
                                Commit, FileEffect
    <2>2. QED
      BY <2>1, MoveByPlace
  <1>4. QED
    BY <1>2, <1>3 DEF UnitStep, Proceed

LEMMA TransactionsStep ==
    ASSUME IInv, NEW u \in Units, UnitStep(u)
    PROVE  OpenTransactions'
  <1> USE HomeAssumption
  <1>1. /\ Typed /\ HoldersByPlace /\ OpenTransactions /\ QueuesHoldWaiters
        /\ tx \in [Processes -> SUBSET Write] /\ Home[u] \in Processes
        /\ outcome[u] = "open"
    BY StepShape DEF IInv, Typed, Types
  <1>2. ASSUME NEW p \in Processes, NEW w \in tx[p]
        PROVE  /\ w.unit \in Units /\ w.at \in Nat /\ Home[w.unit] = p /\ Past(w)'
               /\ w.unit # u => (outcome'[w.unit] = "failed" => Committed(w)')
               /\ Committed(w) => Committed(w)'
    BY <1>1, WriteTyped, ProgressIsKept, OtherUnitsWait DEF OpenTransactions
  <1>3. CASE WriteRow(u)
    <2> DEFINE new == [unit |-> u, at |-> pc[u]]
    <2>1. tx' = [tx EXCEPT ![Home[u]] = @ \cup {new}] /\ pc[u] \in WriteAt(kind[u])
          /\ pc[u] \in Nat /\ kind' = kind
      BY <1>1, <1>3, AtPosition DEF WriteRow, Typed
    <2>2. pc'[u] = pc[u] + 1 /\ outcome'[u] # "failed"
      <3>1. outcome[u] = "open" /\ Moves(u)
        BY <1>1, <1>3, AdvanceMoves DEF WriteRow
      <3>2. QED
        BY <1>1, <3>1, MoveByPlace
    <2>3. ASSUME NEW w, w = new
          PROVE  Past(w)' /\ w.unit = u
      <3>1. w.unit = u /\ w.at = pc[u]
        BY <2>3
      <3>2. QED
        BY <2>1, <2>2, <3>1 DEF Past
    <2>4. \A p \in Processes : \A w \in tx'[p] : w \in tx[p] \/ (w = new /\ p = Home[u])
      BY <1>1, <2>1
    <2> HIDE DEF new
    <2>5. QED
      BY <1>2, <2>2, <2>3, <2>4 DEF OpenTransactions
  <1>4. CASE Fail(u) \/ BusyTimeout(u) \/ QueueTimeout(u) \/ Cancel(u)
    <2>1. CASE outcome'[u] = "cancelled"
      <3>1. tx' = tx
        BY <1>1, <1>4, <2>1, EarlyEnds
      <3>2. QED
        BY <1>2, <2>1, <3>1 DEF OpenTransactions
    <2>2. CASE outcome'[u] = "failed" /\ RollbackIfHolder(u) /\ holder[Home[u]] = u
      <3>1. \A p \in Processes : \A w \in tx'[p] : w \in tx[p] /\ p # Home[u]
        BY <1>1, <2>2 DEF RollbackIfHolder
      <3>2. QED
        BY <1>2, <3>1 DEF OpenTransactions
    <2>3. CASE outcome'[u] = "failed" /\ RollbackIfHolder(u) /\ holder[Home[u]] # u
      <3>1. tx' = tx
        BY <1>1, <2>3 DEF RollbackIfHolder
      <3>2. ASSUME NEW p \in Processes, NEW w \in tx[p], w.unit = u
            PROVE  Committed(w)
        BY <1>1, <2>3, <3>2, UncommittedIsHeld DEF OpenTransactions, Past, Committed
      <3>3. QED
        BY <1>2, <3>1, <3>2 DEF OpenTransactions
    <2>4. CASE tx' = tx /\ QueueTimeout(u)
      <3>1. pc[u] = 1
        BY <1>1, <2>4 DEF QueueTimeout, Queued, QueuesHoldWaiters
      <3>2. ASSUME NEW p \in Processes, NEW w \in tx[p]
            PROVE  w.unit # u
        <4>1. SUFFICES ASSUME w.unit = u PROVE FALSE
          OBVIOUS
        <4>2. w.at \in WriteAt(kind[u]) /\ w.at < 1 /\ kind[u] \in Kinds
          BY <1>1, <3>1, <4>1, PositionTyped DEF OpenTransactions, Past, Kinds
        <4>3. QED
          BY <4>2, WritesInRange
      <3>3. QED
        BY <1>2, <2>4, <3>2 DEF OpenTransactions
    <2>5. QED
      BY <1>1, <1>4, <2>1, <2>2, <2>3, <2>4, EarlyEnds
  <1>5. CASE ~(Fail(u) \/ BusyTimeout(u) \/ QueueTimeout(u) \/ Cancel(u)) /\ ~WriteRow(u)
    <2>1. \A p \in Processes : tx'[p] \subseteq tx[p]
      BY <1>1, <1>5 DEF UnitStep, Proceed, Start, WaitForWriter, LockWriter, UnlockWriter,
                        LockProject, UnlockProject, Commit, FileEffect
    <2>2. outcome'[u] # "failed"
      BY <1>1, <1>5, NoFailure
    <2>3. QED
      BY <1>2, <2>1, <2>2 DEF OpenTransactions
  <1>6. QED
    BY <1>3, <1>4, <1>5

LEMMA DurableStep ==
    ASSUME IInv, NEW u \in Units, UnitStep(u)
    PROVE  DurableWrites'
  <1> USE HomeAssumption
  <1>1. /\ Typed /\ HoldersByPlace /\ OpenTransactions /\ DurableWrites
        /\ Home[u] \in Processes /\ outcome[u] = "open"
    BY StepShape DEF IInv, Typed, Types
  <1>2. ASSUME NEW w \in durable
        PROVE  Past(w)' /\ (outcome'[w.unit] # "cancelled" => Committed(w)')
    <2>1. w.unit \in Units /\ w.at \in Nat /\ Past(w)
          /\ (outcome[w.unit] # "cancelled" => Committed(w))
      BY <1>1, WriteTyped DEF DurableWrites
    <2>2. outcome'[w.unit] # "cancelled" => outcome[w.unit] # "cancelled"
      BY <1>1, <2>1, OtherUnitsWait
    <2>3. QED
      BY <1>1, <2>1, <2>2, ProgressIsKept
  <1>3. CASE Commit(u)
    <2>1. durable' = durable \cup tx[Home[u]] /\ kind' = kind
      BY <1>3 DEF Commit
    <2>2. ASSUME NEW w \in tx[Home[u]]
          PROVE  Past(w)' /\ (outcome'[w.unit] # "cancelled" => Committed(w)')
      <3>1. /\ w.unit \in Units /\ w.at \in Nat /\ Home[w.unit] = Home[u] /\ Past(w)
            /\ outcome[w.unit] = "failed" => Committed(w)
        BY <1>1, WriteTyped DEF OpenTransactions
      <3>2. CASE w.unit = u
        <4>1. CommitAfter(kind[u], w.at) < pc[u] + 1
          <5>1. kind[u] \in Kinds
            BY <1>1, PositionTyped DEF Kinds
          <5>2. w.at \in WriteAt(kind[u]) /\ w.at < pc[u]
            BY <3>1, <3>2 DEF Past
          <5>3. pc[u] \in IF kind[u] = "guarded" THEN {4, 8} ELSE {4}
            BY <1>1, <1>3, CommitsAsHolder
          <5>4. QED
            BY <5>1, <5>2, <5>3 DEF Kinds, CommitAfter, WriteAt
        <4>2. QED
          BY <1>1, <1>3, <2>1, <3>1, <3>2, <4>1, CommitsAsHolder, ProgressIsKept DEF Committed
      <3>3. CASE w.unit # u
        <4>1. outcome[w.unit] # "cancelled" => Committed(w)
          <5>1. outcome[w.unit] \in {"open", "done", "failed", "cancelled"}
            BY <1>1, <3>1 DEF Typed, Types
          <5>2. holder[Home[u]] = u
            BY <1>1, <1>3, CommitsAsHolder
          <5>3. QED
            BY <1>1, <3>1, <3>3, <5>1, <5>2, UncommittedIsHeld DEF Past, Committed
        <4>2. QED
          BY <1>1, <3>1, <3>3, <4>1, ProgressIsKept, OtherUnitsWait
      <3>4. QED
        BY <3>2, <3>3
    <2>3. QED
      BY <1>2, <2>1, <2>2 DEF DurableWrites
  <1>4. CASE ~Commit(u)
    <2>1. durable' = durable
      BY <1>4 DEF UnitStep, Proceed, Start, WaitForWriter, LockWriter, UnlockWriter, LockProject,
                  UnlockProject, WriteRow, FileEffect, Fail, BusyTimeout, QueueTimeout, Cancel,
                  Abort
    <2>2. QED
      BY <1>2, <2>1 DEF DurableWrites
  <1>5. QED
    BY <1>3, <1>4

\* Which step a unit takes when it writes and when it commits.
LEMMA StepByPlace ==
    ASSUME Typed, NEW u \in Units, UnitStep(u), pc'[u] # pc[u], NEW i \in WriteAt(kind[u])
    PROVE  /\ pc[u] = i => WriteRow(u)
           /\ pc[u] = CommitAfter(kind[u], i) => Commit(u)
  <1>1. kind[u] \in Kinds /\ pc[u] \in Nat
    BY PositionTyped DEF Kinds, Typed
  <1>2. CASE Start(u)
    BY <1>1, <1>2 DEF Start, WriteAt, CommitAfter, Kinds
  <1>3. CASE WaitForWriter(u) \/ Fail(u) \/ BusyTimeout(u) \/ QueueTimeout(u) \/ Cancel(u)
    BY <1>3, EarlyEnds DEF WaitForWriter
  <1>4. CASE LockWriter(u) \/ UnlockWriter(u)
    BY <1>1, <1>4, AtPosition DEF LockWriter, UnlockWriter, WriteAt, CommitAfter, Kinds
  <1>5. CASE LockProject(u) \/ UnlockProject(u) \/ FileEffect(u)
    BY <1>1, <1>5, AtPosition
       DEF LockProject, UnlockProject, FileEffect, WriteAt, CommitAfter, Kinds
  <1>6. CASE WriteRow(u)
    BY <1>1, <1>6, AtPosition DEF WriteRow, WriteAt, CommitAfter, Kinds
  <1>7. CASE Commit(u)
    BY <1>1, <1>7, AtPosition DEF Commit, WriteAt, CommitAfter, Kinds
  <1>8. QED
    BY <1>2, <1>3, <1>4, <1>5, <1>6, <1>7 DEF UnitStep, Proceed

\* What is durable stays so, and a transaction only loses writes to a commit
\* that makes them durable or to the rollback of its holder.
LEMMA WritesOnlyMove ==
    ASSUME Typed, HoldersByPlace, NEW u \in Units, UnitStep(u)
    PROVE  /\ durable \subseteq durable'
           /\ \A p \in Processes :
                p # Home[u] \/ holder[Home[u]] # u => tx[p] \subseteq tx'[p]
           /\ Commit(u) => tx[Home[u]] \subseteq durable'
           /\ outcome'[u] \in {"open", "done"} /\ ~Commit(u) => tx[Home[u]] \subseteq tx'[Home[u]]
  <1> USE HomeAssumption
  <1>1. tx \in [Processes -> SUBSET Write] /\ Home[u] \in Processes
    BY DEF Typed, Types
  <1>2. CASE Commit(u)
    BY <1>1, <1>2, CommitsAsHolder DEF Commit
  <1>3. CASE Fail(u) \/ BusyTimeout(u) \/ QueueTimeout(u) \/ Cancel(u)
    <2>1. durable' = durable /\ (RollbackIfHolder(u) \/ tx' = tx)
          /\ outcome'[u] \in {"failed", "cancelled"}
      BY <1>3, EarlyEnds
    <2>2. \A p \in Processes : p # Home[u] \/ holder[Home[u]] # u => tx[p] \subseteq tx'[p]
      BY <1>1, <2>1 DEF RollbackIfHolder
    <2>3. ~Commit(u)
      <3>1. CASE Commit(u)
        BY <2>1, <3>1, CommitsAsHolder
      <3>2. QED
        BY <3>1
    <2>4. QED
      BY <2>1, <2>2, <2>3
  <1>4. CASE WriteRow(u)
    <2>1. tx' = [tx EXCEPT ![Home[u]] = @ \cup {[unit |-> u, at |-> pc[u]]}] /\ durable' = durable
      BY <1>4 DEF WriteRow
    <2>2. \A p \in Processes : tx[p] \subseteq tx'[p]
      BY <1>1, <2>1
    <2>3. CASE Commit(u)
      BY <1>2, <2>3
    <2>4. QED
      BY <1>1, <2>1, <2>2, <2>3
  <1>5. CASE ~Commit(u) /\ (Start(u) \/ WaitForWriter(u) \/ LockWriter(u) \/ UnlockWriter(u)
                            \/ LockProject(u) \/ UnlockProject(u) \/ FileEffect(u))
    BY <1>5 DEF Start, WaitForWriter, LockWriter, UnlockWriter, LockProject, UnlockProject,
                FileEffect
  <1>6. QED
    BY <1>2, <1>3, <1>4, <1>5 DEF UnitStep, Proceed

LEMMA KeptStep ==
    ASSUME IInv, NEW u \in Units, UnitStep(u)
    PROVE  WritesKept'
  <1> USE HomeAssumption
  <1>1. /\ Typed /\ HoldersByPlace /\ WritesKept
        /\ tx \in [Processes -> SUBSET Write]
        /\ Home \in [Units -> Processes] /\ outcome[u] = "open" /\ kind' = kind
    BY StepShape DEF IInv, Typed, Types
  <1>2. SUFFICES ASSUME NEW v \in Units, outcome'[v] \in {"open", "done"},
                        NEW i \in WriteAt(kind[v]), i < pc'[v]
                 PROVE  [unit |-> v, at |-> i] \in
                            IF CommitAfter(kind[v], i) < pc'[v] THEN durable' ELSE tx'[Home[v]]
    BY <1>1 DEF WritesKept
  <1>3. kind[v] \in Kinds /\ i \in Nat /\ CommitAfter(kind[v], i) \in Nat
        /\ i < CommitAfter(kind[v], i)
    <2>1. kind[v] \in Kinds
      BY <1>1, PositionTyped DEF Kinds
    <2>2. QED
      BY <2>1 DEF Kinds, WriteAt, CommitAfter
  <1>4. pc[v] \in Nat /\ pc'[v] \in {pc[v], pc[v] + 1}
    BY <1>1, OtherUnitsWait
  <1> DEFINE w == [unit |-> v, at |-> i]
  <1>5. outcome[v] \in {"open", "done"} /\ i < pc[v] =>
            w \in IF CommitAfter(kind[v], i) < pc[v] THEN durable ELSE tx[Home[v]]
    BY <1>1 DEF WritesKept
  <1> HIDE DEF w
  <1>6. CASE v = u
    <2>1. CASE pc'[u] = pc[u]
      <3>1. ~Commit(u)
        BY <1>1, <1>4, <1>6, <2>1, CommitsAsHolder
      <3>2. w \in IF CommitAfter(kind[v], i) < pc[v] THEN durable ELSE tx[Home[v]]
        BY <1>1, <1>2, <1>5, <1>6, <2>1
      <3>3. QED
        BY <1>1, <1>2, <1>6, <2>1, <3>1, <3>2, WritesOnlyMove DEF w
    <2>2. CASE pc'[u] # pc[u]
      <3>1. pc'[u] = pc[u] + 1
        BY <1>4, <1>6, <2>2
      <3>2. CASE i = pc[u]
        <4>1. WriteRow(u)
          BY <1>1, <1>6, <2>2, <3>2, StepByPlace
        <4>2. tx' = [tx EXCEPT ![Home[u]] = @ \cup {w}]
          BY <1>6, <3>2, <4>1 DEF WriteRow, w
        <4>3. w \in tx'[Home[u]]
          BY <1>1, <4>2
        <4>4. ~(CommitAfter(kind[v], i) < pc'[v])
          BY <1>3, <1>6, <3>1, <3>2
        <4>5. QED
          BY <1>6, <4>3, <4>4 DEF w
      <3>3. CASE i < pc[u] /\ pc[u] = CommitAfter(kind[u], i)
        <4>1. Commit(u)
          BY <1>1, <1>6, <2>2, <3>3, StepByPlace
        <4>2. w \in tx[Home[u]]
          BY <1>1, <1>3, <1>5, <1>6, <3>3
        <4>3. QED
          BY <1>1, <1>3, <1>6, <3>1, <3>3, <4>1, <4>2, WritesOnlyMove DEF w
      <3>4. CASE i < pc[u] /\ CommitAfter(kind[u], i) < pc[u]
        BY <1>1, <1>3, <1>4, <1>5, <1>6, <3>1, <3>4, WritesOnlyMove DEF w
      <3>5. CASE i < pc[u] /\ pc[u] < CommitAfter(kind[u], i)
        <4>1. ~Commit(u)
          <5>1. SUFFICES ASSUME Commit(u) PROVE FALSE
            OBVIOUS
          <5>2. pc[u] \in IF kind[u] = "guarded" THEN {4, 8} ELSE {4}
            BY <1>1, <5>1, CommitsAsHolder
          <5>3. QED
            BY <1>3, <1>6, <3>5, <5>2 DEF CommitAfter, WriteAt, Kinds
        <4>2. w \in tx[Home[u]]
          BY <1>1, <1>3, <1>4, <1>5, <1>6, <3>5
        <4>3. ~(CommitAfter(kind[v], i) < pc'[v])
          BY <1>3, <1>4, <1>6, <3>1, <3>5
        <4>4. QED
          BY <1>1, <1>2, <1>6, <4>1, <4>2, <4>3, WritesOnlyMove DEF w
      <3>6. QED
        BY <1>2, <1>3, <1>4, <1>6, <3>1, <3>2, <3>3, <3>4, <3>5
    <2>3. QED
      BY <2>1, <2>2
  <1>7. CASE v # u
    <2>1. pc'[v] = pc[v] /\ outcome'[v] = outcome[v]
      BY <1>1, <1>7, OtherUnitsWait
    <2>2. w \in IF CommitAfter(kind[v], i) < pc[v] THEN durable ELSE tx[Home[v]]
      BY <1>2, <1>5, <2>1
    <2>3. CASE CommitAfter(kind[v], i) < pc[v]
      BY <1>1, <2>1, <2>2, <2>3, WritesOnlyMove DEF w
    <2>4. CASE ~(CommitAfter(kind[v], i) < pc[v])
      <3>1. holder[Home[v]] = v
        BY <1>1, <1>2, <2>1, <2>4, UncommittedIsHeld
      <3>2. tx[Home[v]] \subseteq tx'[Home[v]]
        BY <1>1, <1>7, <3>1, WritesOnlyMove
      <3>3. QED
        BY <2>1, <2>2, <2>4, <3>2 DEF w
    <2>5. QED
      BY <2>3, <2>4
  <1>8. QED
    BY <1>6, <1>7

LEMMA EffectsStep ==
    ASSUME IInv, NEW u \in Units, UnitStep(u)
    PROVE  EffectsAreJournaled'
  <1>1. Typed /\ HoldersByPlace /\ WritesKept /\ EffectsAreJournaled
    BY DEF IInv
  <1>2. durable \subseteq durable'
    BY <1>1, WritesOnlyMove
  <1>3. CASE FileEffect(u)
    <2>1. /\ outcome[u] = "open" /\ kind[u] \in Kinds
          /\ kind[u] # "plain" /\ pc[u] = IF kind[u] = "isolated" THEN 6 ELSE 5
      BY <1>1, <1>3, AtPosition, PositionTyped, StepShape DEF FileEffect, Kinds
    <2>2. 3 \in WriteAt(kind[u]) /\ CommitAfter(kind[u], 3) = 4 /\ 4 < pc[u] /\ 3 < pc[u]
      BY <2>1 DEF WriteAt, CommitAfter, Kinds
    <2>3. [unit |-> u, at |-> 3] \in durable
      BY <1>1, <2>1, <2>2 DEF WritesKept
    <2>4. effects' = effects \cup {u}
      BY <1>3 DEF FileEffect
    <2>5. QED
      BY <1>1, <1>2, <2>3, <2>4 DEF EffectsAreJournaled
  <1>4. CASE ~FileEffect(u)
    <2>1. effects' = effects
      BY <1>4 DEF UnitStep, Proceed, Start, WaitForWriter, LockWriter, UnlockWriter, LockProject,
                  UnlockProject, WriteRow, Commit, Fail, BusyTimeout, QueueTimeout, Cancel, Abort
    <2>2. QED
      BY <1>1, <1>2, <2>1 DEF EffectsAreJournaled
  <1>5. QED
    BY <1>3, <1>4

LEMMA IInvInit == Init => IInv
  <1> SUFFICES ASSUME Init PROVE IInv
    OBVIOUS
  <1> USE NobodyAssumption, HomeAssumption
  <1>1. /\ kind \in [Units -> Kinds] /\ pc = [u \in Units |-> 0]
        /\ outcome = [u \in Units |-> "open"]
        /\ holder = [p \in Processes |-> Nobody] /\ queue = [p \in Processes |-> <<>>]
        /\ projectHolder = Nobody /\ tx = [p \in Processes |-> {}]
        /\ durable = {} /\ effects = {} /\ aborts = 0
    BY DEF Init
  <1>2. Typed
    <2>1. \A u \in Units : /\ pc[u] \in 0 .. Len(Steps(kind[u])) + 1
                           /\ outcome[u] = "done" <=> pc[u] = Len(Steps(kind[u])) + 1
      BY <1>1, StepsLength
    <2>2. queue \in [Processes -> Seq(Units)]
      BY <1>1
    <2>3. /\ outcome \in [Units -> {"open", "done", "failed", "cancelled"}]
          /\ holder \in [Processes -> Units \cup {Nobody}]
          /\ tx \in [Processes -> SUBSET Write]
          /\ pc \in [Units -> Nat]
      BY <1>1
    <2>4. QED
      BY <1>1, <2>1, <2>2, <2>3 DEF Typed, Types
  <1>3. QueuesHoldWaiters
    BY <1>1 DEF QueuesHoldWaiters, Distinct
  <1>4. HoldersByPlace
    BY <1>1 DEF HoldersByPlace, WriterRange, ProjectRange
  <1>5. OpenTransactions /\ DurableWrites /\ EffectsAreJournaled
    BY <1>1 DEF OpenTransactions, DurableWrites, EffectsAreJournaled
  <1>6. WritesKept
    BY <1>1 DEF WritesKept, WriteAt
  <1>7. QED
    BY <1>2, <1>3, <1>4, <1>5, <1>6 DEF IInv

LEMMA IInvNext == IInv /\ [Next]_vars => IInv'
  <1>1. ASSUME IInv, NEW u \in Units, UnitStep(u)
        PROVE  IInv'
    <2>1. Typed /\ QueuesHoldWaiters /\ HoldersByPlace /\ \A p \in Processes : Distinct(queue[p])
      BY <1>1 DEF IInv, QueuesHoldWaiters
    <2>2. QED
      BY <1>1, <2>1, TypedStep, QueueStep, PlaceStep, TransactionsStep, DurableStep, KeptStep,
         EffectsStep DEF IInv
  <1>2. ASSUME IInv, UNCHANGED vars
        PROVE  IInv'
    <2>1. UNCHANGED <<kind, pc, outcome, holder, queue, projectHolder, tx, durable, effects, aborts>>
      BY <1>2 DEF vars
    <2>2. Typed'
      BY <1>2, <2>1 DEF IInv, Typed, Types
    <2>3. QueuesHoldWaiters' /\ HoldersByPlace'
      BY <1>2, <2>1 DEF IInv, QueuesHoldWaiters, HoldersByPlace, Distinct
    <2>4. OpenTransactions' /\ DurableWrites'
      BY <1>2, <2>1 DEF IInv, OpenTransactions, DurableWrites, Past, Committed
    <2>5. WritesKept' /\ EffectsAreJournaled'
      BY <1>2, <2>1 DEF IInv, WritesKept, EffectsAreJournaled
    <2>6. QED
      BY <2>2, <2>3, <2>4, <2>5 DEF IInv
  <1>3. QED
    BY <1>1, <1>2 DEF Next

LEMMA IInvAlways == Spec => []IInv
  BY IInvInit, IInvNext, PTL DEF Spec

\* Every place a unit has passed its commit at holds a commit.
LEMMA CommitPassed ==
    ASSUME Typed, NEW w, w.unit \in Units, Past(w), Committed(w)
    PROVE  ~Uncommitted(w)
  <1> DEFINE k == kind[w.unit]
             c == CommitAfter(k, w.at)
  <1>1. k \in Kinds /\ pc[w.unit] \in Nat
    BY PositionTyped DEF Kinds, Typed
  <1>2. w.at \in WriteAt(k) /\ c < pc[w.unit]
    BY DEF Past, Committed
  <1>3. c \in w.at .. pc[w.unit] - 1
    BY <1>1, <1>2 DEF Kinds, WriteAt, CommitAfter
  <1>4. Steps(k)[c] = "commit"
    BY <1>1, PlainTable, GuardedTable, IsolatedTable DEF Kinds, CommitAfter
  <1>5. QED
    BY <1>3, <1>4 DEF Uncommitted

-----------------------------------------------------------------------------
(* The theorems.                                                           *)

\* The variables of the single-writer model keep their types, and whoever gave
\* up the wait for the writer lock has left its queue.
THEOREM TypeCorrect == Spec => []TypeOK
  <1>1. IInv => TypeOK
    BY DEF IInv, Typed, TypeOK
  <1>2. QED
    BY <1>1, IInvAlways, PTL

\* _write_lock and the project lock are held exactly by the units between
\* their acquire and their release, whoever times out, fails or is cancelled.
THEOREM LocksFollowProgress == Spec => []LocksMatchProgress
  <1>1. IInv => LocksMatchProgress
    BY WithinRange DEF IInv, HoldersByPlace, LocksMatchProgress
  <1>2. QED
    BY <1>1, IInvAlways, PTL

\* A row that a unit left behind before its commit is there because the unit
\* was cancelled: neither a failure nor another unit's commit leaves one.
OnlyCancelledUnitsLeave ==
    \A w \in durable : Uncommitted(w) => outcome[w.unit] = "cancelled"

THEOREM OnlyCancellationLeaves == Spec => []OnlyCancelledUnitsLeave
  <1>1. IInv => OnlyCancelledUnitsLeave
    BY CommitPassed, WriteTyped DEF IInv, DurableWrites, OnlyCancelledUnitsLeave
  <1>2. QED
    BY <1>1, IInvAlways, PTL

\* A unit that raised leaves none of the writes it had not committed, with any
\* number of units on one connection and of processes on one database.
THEOREM FailuresRollBack == Spec => []FailedUnitsLeaveNothing
  <1>1. OnlyCancelledUnitsLeave => FailedUnitsLeaveNothing
    BY DEF OnlyCancelledUnitsLeave, FailedUnitsLeaveNothing
  <1>2. QED
    BY <1>1, OnlyCancellationLeaves, PTL

\* guarded_project_file_write and isolated_project_file_write expose a file
\* effect only after their journal row is durable.
THEOREM JournalBeforeEffect == Spec => []EffectsAreJournaled
  <1>1. IInv => EffectsAreJournaled
    BY DEF IInv
  <1>2. QED
    BY <1>1, IInvAlways, PTL
=============================================================================

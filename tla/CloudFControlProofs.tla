-------------------------- MODULE CloudFControlProofs --------------------------
(***************************************************************************)
(* Machine-checked proofs about CloudFControl, for every set of processes, *)
(* operations, kinds and actors and for every bound.                       *)
(*                                                                         *)
(* The inductive invariant is IInv.  LeaseMatchesRegistry alone is not     *)
(* inductive: whether an acquire that commits is entitled to the lease     *)
(* depends on what it read earlier, which PendingAcquiresFenced relates to *)
(* the current state.                                                      *)
(***************************************************************************)
EXTENDS CloudFControl, TLAPS

IInv ==
    /\ TypeOK
    /\ LeaseMatchesRegistry
    /\ PendingAcquiresFenced
    /\ OneChangePerEpoch

-----------------------------------------------------------------------------
(* The calls.                                                              *)

\* A pending call that says it acquires (completes) has the fields of one.
LEMMA CallShapes ==
    ASSUME TypeOK, NEW p \in Callers
    PROVE  /\ call[p].type = "acquire" => call[p] \in AcquireCall
           /\ call[p].type = "complete" => call[p] \in CompleteCall
  <1>1. call[p] \in {Idle} \cup AcquireCall \cup CompleteCall
    BY DEF TypeOK
  <1>2. CASE call[p] = Idle
    BY <1>2 DEF Idle
  <1>3. CASE call[p] \in AcquireCall
    BY <1>3 DEF AcquireCall
  <1>4. CASE call[p] \in CompleteCall
    BY <1>4 DEF CompleteCall
  <1>5. QED
    BY <1>1, <1>2, <1>3, <1>4

-----------------------------------------------------------------------------
(* Type correctness.                                                       *)

LEMMA InitTypeOK == Init => TypeOK
  <1> SUFFICES ASSUME Init PROVE TypeOK
    OBVIOUS
  <1>1. /\ active \in [Ops -> Row \cup {NoRow}]
        /\ journal \in [Ops -> JournalRow \cup {NoRow}]
        /\ call \in [Callers -> {Idle} \cup AcquireCall \cup CompleteCall]
    BY DEF Init
  <1>2. QED
    BY <1>1 DEF Init, TypeOK

LEMMA NextTypeOK ==
    ASSUME TypeOK, [Next]_vars
    PROVE  TypeOK'
  <1>1. ASSUME Tick PROVE TypeOK'
    BY <1>1 DEF Tick, TypeOK, cloudVars, controlVars
  <1>2. ASSUME NEW p \in Callers, NEW o \in Ops, NEW k \in Kinds, NEW a \in Actors,
               NEW x \in 1 .. MaxTime + 1, AcquireRead(p, o, k, a, x)
        PROVE  TypeOK'
    <2>0. x \in Nat
      BY BoundAssumption
    <2>1. [type |-> "acquire", op |-> o, kind |-> k, actor |-> a,
           epoch |-> epoch, generation |-> generation,
           same |-> leaseOp = o, renew |-> IsActive(o),
           now |-> now, expires |-> x] \in AcquireCall
      BY <2>0 DEF TypeOK, AcquireCall, IsActive
    <2>2. call' \in [Callers -> {Idle} \cup AcquireCall \cup CompleteCall]
      BY <1>2, <2>1 DEF TypeOK, AcquireRead
    <2>3. QED
      BY <1>2, <2>2 DEF TypeOK, AcquireRead, cloudVars, controlVars
  <1>3. ASSUME NEW p \in Callers, NEW o \in Ops, NEW a \in Actors,
               NEW adv \in BOOLEAN, CompleteRead(p, o, a, adv)
        PROVE  TypeOK'
    <2>1. [type |-> "complete", op |-> o, actor |-> a, epoch |-> epoch,
           generation |-> generation, advance |-> adv, now |-> now] \in CompleteCall
      BY DEF TypeOK, CompleteCall
    <2>2. call' \in [Callers -> {Idle} \cup AcquireCall \cup CompleteCall]
      BY <1>3, <2>1 DEF TypeOK, CompleteRead
    <2>3. QED
      BY <1>3, <2>2 DEF TypeOK, CompleteRead, cloudVars, controlVars
  <1>4. ASSUME NEW p \in Callers, NEW bootstrap \in BOOLEAN, Activate(p, bootstrap)
        PROVE  TypeOK'
    BY <1>4 DEF Activate, TypeOK
  <1>5. ASSUME NEW p \in Callers, AcquireCommit(p) PROVE TypeOK'
    <2> DEFINE c == call[p]
    <2>1. c \in AcquireCall
      BY <1>5, CallShapes DEF AcquireCommit
    <2>2. GrantedGeneration(c) \in Nat
      BY <2>1 DEF GrantedGeneration, AcquireCall
    <2>3. RegistryRow(c) \in Row
      BY <2>1, <2>2 DEF RegistryRow, Row, AcquireCall
    <2>4. [state |-> "active", kind |-> c.kind, actor |-> c.actor,
           base |-> c.epoch, generation |-> GrantedGeneration(c),
           advance |-> FALSE, result |-> 0] \in JournalRow
      BY <2>1, <2>2 DEF JournalRow, AcquireCall
    <2>5. active' \in [Ops -> Row \cup {NoRow}]
      BY <1>5, <2>3 DEF TypeOK, AcquireCommit
    <2>6. journal' \in [Ops -> JournalRow \cup {NoRow}]
      BY <1>5, <2>4 DEF TypeOK, AcquireCommit
    <2>7. /\ generation' \in Nat
          /\ leaseOp' \in Ops \cup {NoOp}
          /\ leaseOwner' \in Actors \cup {NoActor}
          /\ leaseExpires' \in Nat
      BY <1>5, <2>1, <2>2 DEF AcquireCommit, AcquireCall
    <2>8. call' \in [Callers -> {Idle} \cup AcquireCall \cup CompleteCall]
      BY <1>5 DEF TypeOK, AcquireCommit
    <2>9. QED
      BY <1>5, <2>5, <2>6, <2>7, <2>8 DEF TypeOK, AcquireCommit
  <1>6. ASSUME NEW p \in Callers, CompleteCommit(p) PROVE TypeOK'
    <2> DEFINE c == call[p]
    <2>1. c \in CompleteCall
      BY <1>6, CallShapes DEF CompleteCommit
    <2>2. CompletedEpoch(c) \in Nat
      BY <2>1 DEF CompletedEpoch, CompleteCall
    <2>3. c.op \in Ops /\ c.advance \in BOOLEAN
      BY <2>1 DEF CompleteCall
    <2>4. journal[c.op] \in JournalRow
      BY <1>6, <2>3 DEF TypeOK, CompleteCommit, RowsForComplete
    <2>5. [journal[c.op] EXCEPT !.state = "completed", !.advance = c.advance,
                                !.result = CompletedEpoch(c)] \in JournalRow
      BY <2>2, <2>3, <2>4 DEF JournalRow
    <2>6. journal' \in [Ops -> JournalRow \cup {NoRow}]
      BY <1>6, <2>3, <2>5 DEF TypeOK, CompleteCommit
    <2>7. active' \in [Ops -> Row \cup {NoRow}]
      BY <1>6 DEF TypeOK, CompleteCommit
    <2>8. call' \in [Callers -> {Idle} \cup AcquireCall \cup CompleteCall]
      BY <1>6 DEF TypeOK, CompleteCommit
    <2>9. QED
      BY <1>6, <2>2, <2>6, <2>7, <2>8 DEF TypeOK, CompleteCommit
  <1>7. ASSUME NEW p \in Callers, Rollback(p) PROVE TypeOK'
    BY <1>7 DEF Rollback, TypeOK, cloudVars, controlVars
  <1>8. ASSUME UNCHANGED vars PROVE TypeOK'
    BY <1>8 DEF vars, TypeOK, cloudVars, controlVars
  <1>9. QED
    BY <1>1, <1>2, <1>3, <1>4, <1>5, <1>6, <1>7, <1>8 DEF Next, CallStart, CallEnd

\* Every reachable state of the control is well typed.
THEOREM TypeCorrect == Spec => []TypeOK
  <1>1. TypeOK /\ [Next]_vars => TypeOK'
    BY NextTypeOK
  <1>2. QED
    BY <1>1, InitTypeOK, PTL DEF Spec

-----------------------------------------------------------------------------
(* The lease, the registry and the journal.                                *)

\* The steps that read, fail or wait leave the control alone.
LEMMA ReadersChangeNothing ==
    ASSUME [Next]_vars,
           \A p \in Callers : ~AcquireCommit(p) /\ ~CompleteCommit(p),
           \A p \in Callers, bootstrap \in BOOLEAN : ~Activate(p, bootstrap)
    PROVE  UNCHANGED cloudVars
  BY DEF Next, CallStart, CallEnd, AcquireRead, CompleteRead, Rollback, Tick, vars

LEMMA InitInvariant == Init => IInv
  <1> SUFFICES ASSUME Init PROVE IInv
    OBVIOUS
  <1>1. TypeOK
    BY InitTypeOK
  <1>2. LeaseMatchesRegistry
    BY NullAssumption DEF Init, LeaseMatchesRegistry, IsActive
  <1>3. PendingAcquiresFenced
    BY DEF Init, PendingAcquiresFenced, Idle
  <1>4. OneChangePerEpoch
    BY DEF Init, OneChangePerEpoch, Advanced
  <1>5. QED
    BY <1>1, <1>2, <1>3, <1>4 DEF IInv

\* What an acquire that commits found: either its own operation holds the
\* lease, or nobody does and its operation is new.
LEMMA AcquireCommitCases ==
    ASSUME IInv, NEW p \in Callers, AcquireCommit(p)
    PROVE  LET c == call[p] IN
           /\ c \in AcquireCall
           /\ ready
           /\ generation = c.generation
           /\ epoch = c.epoch
           /\ c.same => leaseOp = c.op
           /\ ~c.same => leaseOp = NoOp /\ journal[c.op] = NoRow
  <1> DEFINE c == call[p]
  <1>1. c \in AcquireCall
    BY CallShapes DEF IInv, AcquireCommit
  <1>2. ready /\ c.renew = c.same /\ (c.generation = generation /\ ~c.same => leaseOp = NoOp)
    BY DEF IInv, PendingAcquiresFenced, AcquireCommit
  <1>3. /\ generation = c.generation
        /\ epoch = c.epoch
        /\ c.same => leaseOp = c.op
    BY DEF AcquireCommit, AcquireCas
  <1>4. ~c.same => journal[c.op] = NoRow
    BY <1>2 DEF AcquireCommit, RowsForAcquire
  <1>5. QED
    BY <1>1, <1>2, <1>3, <1>4

\* The rows an acquire leaves behind.
LEMMA AcquireCommitRows ==
    ASSUME IInv, NEW p \in Callers, AcquireCommit(p)
    PROVE  LET c == call[p] IN
           /\ c.op \in Ops
           /\ active'[c.op] = RegistryRow(c)
           /\ journal'[c.op] =
                [state |-> "active", kind |-> c.kind, actor |-> c.actor,
                 base |-> c.epoch, generation |-> GrantedGeneration(c),
                 advance |-> FALSE, result |-> 0]
           /\ \A o \in Ops : o # c.op => active'[o] = active[o] /\ journal'[o] = journal[o]
           /\ RegistryRow(c) # NoRow
           /\ journal'[c.op] # NoRow
  <1> DEFINE c == call[p]
  <1>1. c \in AcquireCall /\ c.op \in Ops
    BY AcquireCommitCases DEF AcquireCall
  <1>2. GrantedGeneration(c) \in Nat
    BY <1>1 DEF GrantedGeneration, AcquireCall
  <1>3. RegistryRow(c) \in Row
    BY <1>1, <1>2 DEF RegistryRow, Row, AcquireCall
  <1>4. [state |-> "active", kind |-> c.kind, actor |-> c.actor,
         base |-> c.epoch, generation |-> GrantedGeneration(c),
         advance |-> FALSE, result |-> 0] \in JournalRow
    BY <1>1, <1>2 DEF JournalRow, AcquireCall
  <1>5. QED
    BY <1>1, <1>3, <1>4, NoRowAssumption DEF IInv, TypeOK, AcquireCommit

\* What a completion that commits found, and the rows it leaves behind.
LEMMA CompleteCommitRows ==
    ASSUME IInv, NEW p \in Callers, CompleteCommit(p)
    PROVE  LET c == call[p] IN
           /\ c \in CompleteCall
           /\ c.op \in Ops
           /\ leaseOp = c.op
           /\ epoch = c.epoch
           /\ active'[c.op] = NoRow
           /\ journal[c.op] # NoRow
           /\ journal[c.op].state = "active"
           /\ journal[c.op].base = epoch
           /\ journal'[c.op] # NoRow
           /\ journal'[c.op].state = "completed"
           /\ journal'[c.op].base = epoch
           /\ journal'[c.op].advance = c.advance
           /\ journal'[c.op].result = CompletedEpoch(c)
           /\ \A o \in Ops : o # c.op => active'[o] = active[o] /\ journal'[o] = journal[o]
  <1> DEFINE c == call[p]
             row == [journal[c.op] EXCEPT !.state = "completed",
                        !.advance = c.advance, !.result = CompletedEpoch(c)]
  <1>1. c \in CompleteCall /\ c.op \in Ops
    BY CallShapes DEF IInv, CompleteCommit, CompleteCall
  <1>2. /\ journal[c.op] # NoRow
        /\ journal[c.op].state = "active"
        /\ journal[c.op].base = epoch
        /\ leaseOp = c.op
        /\ epoch = c.epoch
    BY DEF CompleteCommit, RowsForComplete, CompleteCas
  <1>3. journal[c.op] \in JournalRow
    BY <1>1, <1>2 DEF IInv, TypeOK
  <1>4. CompletedEpoch(c) \in Nat
    BY <1>1 DEF CompletedEpoch, CompleteCall
  <1>5. row \in JournalRow
    BY <1>1, <1>3, <1>4 DEF JournalRow, CompleteCall
  <1>6. /\ row.state = "completed"
        /\ row.base = journal[c.op].base
        /\ row.advance = c.advance
        /\ row.result = CompletedEpoch(c)
    BY <1>3 DEF JournalRow
  <1>7. /\ journal'[c.op] = row
        /\ active'[c.op] = NoRow
        /\ \A o \in Ops : o # c.op => active'[o] = active[o] /\ journal'[o] = journal[o]
    BY <1>1 DEF IInv, TypeOK, CompleteCommit
  <1>8. row # NoRow
    BY <1>5, NoRowAssumption
  <1>9. QED
    BY <1>1, <1>2, <1>6, <1>7, <1>8

\* The relation between lease and registry is kept: an acquire rewrites the
\* row of the lease's own operation or adds the first one, a completion
\* removes the only one.
LEMMA NextLeaseMatchesRegistry ==
    ASSUME IInv, [Next]_vars
    PROVE  LeaseMatchesRegistry'
  <1>1. ASSUME NEW p \in Callers, AcquireCommit(p) PROVE LeaseMatchesRegistry'
    <2> DEFINE c == call[p]
    <2>1. /\ leaseOp' = c.op
          /\ leaseOwner' = c.actor
          /\ generation' = GrantedGeneration(c)
          /\ UNCHANGED <<ready, epoch>>
      BY <1>1 DEF AcquireCommit
    <2>2. SUFFICES ASSUME NEW o \in Ops
                   PROVE  /\ (active'[o] # NoRow) <=> c.op = o
                          /\ active'[o] # NoRow =>
                                /\ ready
                                /\ active'[o].actor = c.actor
                                /\ active'[o].base = epoch
                                /\ active'[o].generation = GrantedGeneration(c)
                                /\ journal'[o] # NoRow
                                /\ journal'[o].state = "active"
                                /\ journal'[o].kind = active'[o].kind
                                /\ journal'[o].actor = c.actor
                                /\ journal'[o].base = epoch
                                /\ journal'[o].generation = GrantedGeneration(c)
                          /\ active'[o] = NoRow =>
                                journal'[o] = NoRow \/ journal'[o].state = "completed"
      BY <2>1 DEF LeaseMatchesRegistry, IsActive, RowMatches
    <2>3. CASE o = c.op
      <3>1. /\ ready /\ epoch = c.epoch
            /\ active'[o] = RegistryRow(c)
            /\ RegistryRow(c) # NoRow
            /\ journal'[o] # NoRow
        BY <1>1, <2>3, AcquireCommitCases, AcquireCommitRows
      <3>2. /\ active'[o].kind = c.kind
            /\ active'[o].actor = c.actor
            /\ active'[o].base = c.epoch
            /\ active'[o].generation = GrantedGeneration(c)
        BY <3>1 DEF RegistryRow
      <3>3. /\ journal'[o].state = "active"
            /\ journal'[o].kind = c.kind
            /\ journal'[o].actor = c.actor
            /\ journal'[o].base = c.epoch
            /\ journal'[o].generation = GrantedGeneration(c)
        <4>1. journal'[o] =
                [state |-> "active", kind |-> c.kind, actor |-> c.actor,
                 base |-> c.epoch, generation |-> GrantedGeneration(c),
                 advance |-> FALSE, result |-> 0]
          BY <1>1, <2>3, AcquireCommitRows
        <4>2. QED
          BY <4>1
      <3>4. QED
        BY <2>3, <3>1, <3>2, <3>3
    <2>4. CASE o # c.op
      <3>1. active'[o] = active[o] /\ journal'[o] = journal[o]
        BY <1>1, <2>4, AcquireCommitRows
      <3>2. leaseOp = c.op \/ leaseOp = NoOp
        BY <1>1, AcquireCommitCases
      <3>3. leaseOp # o
        BY <2>4, <3>2, NullAssumption
      <3>4. /\ active[o] = NoRow
            /\ journal[o] = NoRow \/ journal[o].state = "completed"
        BY <3>3 DEF IInv, LeaseMatchesRegistry, IsActive
      <3>5. QED
        BY <2>4, <3>1, <3>4
    <2>5. QED
      BY <2>3, <2>4
  <1>2. ASSUME NEW p \in Callers, CompleteCommit(p) PROVE LeaseMatchesRegistry'
    <2> DEFINE c == call[p]
    <2>1. leaseOp' = NoOp
      BY <1>2 DEF CompleteCommit
    <2>2. SUFFICES ASSUME NEW o \in Ops
                   PROVE  /\ active'[o] = NoRow
                          /\ journal'[o] = NoRow \/ journal'[o].state = "completed"
      BY <2>1, NullAssumption DEF LeaseMatchesRegistry, IsActive
    <2>3. CASE o = c.op
      BY <1>2, <2>3, CompleteCommitRows
    <2>4. CASE o # c.op
      <3>1. active'[o] = active[o] /\ journal'[o] = journal[o] /\ leaseOp # o
        BY <1>2, <2>4, CompleteCommitRows
      <3>2. QED
        BY <3>1 DEF IInv, LeaseMatchesRegistry, IsActive
    <2>5. QED
      BY <2>3, <2>4
  <1>3. ASSUME NEW p \in Callers, NEW bootstrap \in BOOLEAN, Activate(p, bootstrap)
        PROVE  LeaseMatchesRegistry'
    <2>1. \A o \in Ops : active[o] = NoRow
      BY <1>3 DEF Activate, IsActive
    <2>2. UNCHANGED <<leaseOp, active, journal>>
      BY <1>3 DEF Activate
    <2>3. QED
      BY <2>1, <2>2 DEF IInv, LeaseMatchesRegistry, IsActive
  <1>4. ASSUME UNCHANGED cloudVars PROVE LeaseMatchesRegistry'
    BY <1>4 DEF IInv, LeaseMatchesRegistry, IsActive, RowMatches, cloudVars, controlVars
  <1>5. QED
    BY <1>1, <1>2, <1>3, <1>4, ReadersChangeNothing

\* An acquire that read a free lease keeps its claim exactly as long as nobody
\* else was granted a generation.
LEMMA NextPendingAcquiresFenced ==
    ASSUME IInv, [Next]_vars
    PROVE  PendingAcquiresFenced'
  <1> DEFINE Fenced(c) ==
                /\ ready
                /\ c.generation <= generation
                /\ c.renew = c.same
                /\ c.generation = generation /\ ~c.same => leaseOp = NoOp
  <1>1. \A q \in Callers : call[q].type = "acquire" =>
            Fenced(call[q]) /\ call[q].generation \in Nat
    BY CallShapes DEF IInv, PendingAcquiresFenced, AcquireCall
  <1>2. Idle.type # "acquire"
    BY DEF Idle
  <1>3. ASSUME NEW p \in Callers, NEW o \in Ops, NEW k \in Kinds, NEW a \in Actors,
               NEW x \in 1 .. MaxTime + 1, AcquireRead(p, o, k, a, x)
        PROVE  PendingAcquiresFenced'
    <2> DEFINE new == [type |-> "acquire", op |-> o, kind |-> k, actor |-> a,
                       epoch |-> epoch, generation |-> generation,
                       same |-> leaseOp = o, renew |-> IsActive(o),
                       now |-> now, expires |-> x]
    <2>1. IsActive(o) <=> leaseOp = o
      BY DEF IInv, LeaseMatchesRegistry
    <2>2. leaseOp # o => leaseOp = NoOp
      <3>1. leaseOp \in Ops => IsActive(leaseOp)
        BY DEF IInv, LeaseMatchesRegistry
      <3>2. leaseOp \in Ops => leaseOp = o
        BY <1>3, <3>1 DEF AcquireRead, NoOtherActive
      <3>3. QED
        BY <3>2 DEF IInv, TypeOK
    <2>3. Fenced(new)
      <3>1. new.same = (leaseOp = o) /\ new.renew = IsActive(o)
        OBVIOUS
      <3>2. new.renew = new.same
        BY <2>1, <3>1 DEF IsActive
      <3>3. new.generation = generation /\ generation \in Nat /\ ready
        BY <1>3 DEF AcquireRead, IInv, TypeOK
      <3>4. ~new.same => leaseOp = NoOp
        BY <2>2, <3>1
      <3>5. QED
        BY <3>2, <3>3, <3>4
    <2>4. call' = [call EXCEPT ![p] = new] /\ UNCHANGED <<ready, generation, leaseOp>>
      BY <1>3 DEF AcquireRead, cloudVars, controlVars
    <2>5. ASSUME NEW q \in Callers, call'[q].type = "acquire"
          PROVE  Fenced(call'[q])
      <3>1. CASE q = p
        BY <2>3, <2>4, <3>1 DEF IInv, TypeOK
      <3>2. CASE q # p
        BY <1>1, <2>4, <2>5, <3>2 DEF IInv, TypeOK
      <3>3. QED
        BY <3>1, <3>2
    <2>6. QED
      BY <2>4, <2>5 DEF PendingAcquiresFenced
  <1>4. ASSUME NEW p \in Callers, AcquireCommit(p) PROVE PendingAcquiresFenced'
    <2> DEFINE c == call[p]
    <2>1. /\ ready' = ready
          /\ generation' = GrantedGeneration(c)
          /\ leaseOp' = c.op
          /\ call' = [call EXCEPT ![p] = Idle]
      BY <1>4 DEF AcquireCommit
    <2>2. /\ generation = c.generation /\ generation \in Nat
          /\ c.same => leaseOp = c.op
      BY <1>4, AcquireCommitCases DEF IInv, TypeOK
    <2>3. /\ c.same => generation' = generation /\ leaseOp' = leaseOp
          /\ ~c.same => generation' = generation + 1
      BY <2>1, <2>2 DEF GrantedGeneration
    <2>4. ASSUME NEW q \in Callers, call'[q].type = "acquire"
          PROVE  /\ call'[q] = call[q]
                 /\ ready'
                 /\ call[q].generation <= generation'
                 /\ call[q].renew = call[q].same
                 /\ call[q].generation = generation' /\ ~call[q].same => leaseOp' = NoOp
      <3>1. q # p /\ call'[q] = call[q]
        BY <1>2, <2>1, <2>4 DEF IInv, TypeOK
      <3>2. Fenced(call[q]) /\ call[q].generation \in Nat
        BY <1>1, <2>4, <3>1
      <3>3. QED
        BY <2>1, <2>2, <2>3, <3>1, <3>2
    <2>5. QED
      BY <2>4 DEF PendingAcquiresFenced
  <1>5. ASSUME NEW p \in Callers, CompleteCommit(p) \/ Rollback(p)
        PROVE  PendingAcquiresFenced'
    <2>1. /\ UNCHANGED <<ready, generation>>
          /\ leaseOp' = NoOp \/ leaseOp' = leaseOp
          /\ call' = [call EXCEPT ![p] = Idle]
      BY <1>5 DEF CompleteCommit, Rollback, cloudVars, controlVars
    <2>2. ASSUME NEW q \in Callers, call'[q].type = "acquire"
          PROVE  call'[q] = call[q]
      BY <1>2, <2>1, <2>2 DEF IInv, TypeOK
    <2>3. QED
      BY <1>1, <2>1, <2>2 DEF PendingAcquiresFenced
  <1>6. ASSUME NEW p \in Callers, NEW o \in Ops, NEW a \in Actors,
               NEW adv \in BOOLEAN, CompleteRead(p, o, a, adv)
        PROVE  PendingAcquiresFenced'
    <2>1. /\ UNCHANGED <<ready, generation, leaseOp>>
          /\ call' = [call EXCEPT ![p] =
                [type |-> "complete", op |-> o, actor |-> a, epoch |-> epoch,
                 generation |-> generation, advance |-> adv, now |-> now]]
      BY <1>6 DEF CompleteRead, cloudVars, controlVars
    <2>2. ASSUME NEW q \in Callers, call'[q].type = "acquire"
          PROVE  call'[q] = call[q]
      BY <2>1, <2>2 DEF IInv, TypeOK
    <2>3. QED
      BY <1>1, <2>1, <2>2 DEF PendingAcquiresFenced
  <1>7. ASSUME NEW p \in Callers, NEW bootstrap \in BOOLEAN, Activate(p, bootstrap)
        PROVE  PendingAcquiresFenced'
    BY <1>1, <1>7 DEF Activate, PendingAcquiresFenced
  <1>8. ASSUME Tick \/ UNCHANGED vars PROVE PendingAcquiresFenced'
    BY <1>1, <1>8 DEF Tick, vars, cloudVars, controlVars, PendingAcquiresFenced
  <1>9. QED
    BY <1>3, <1>4, <1>5, <1>6, <1>7, <1>8 DEF Next, CallStart, CallEnd

-----------------------------------------------------------------------------
(* Epochs.                                                                 *)

\* A change that completes is the first to consume the current epoch: the
\* bases of the earlier ones all lie below it.
LEMMA NextOneChangePerEpoch ==
    ASSUME IInv, [Next]_vars
    PROVE  OneChangePerEpoch'
  <1> DEFINE Adv(o) == /\ journal'[o] # NoRow
                       /\ journal'[o].state = "completed"
                       /\ journal'[o].advance
  <1>1. \A o \in Ops : Advanced(o) =>
            /\ journal[o].base \in Nat
            /\ journal[o].result = journal[o].base + 1
            /\ journal[o].result <= epoch
    BY DEF IInv, TypeOK, JournalRow, OneChangePerEpoch, Advanced
  <1>2. ASSUME NEW p \in Callers, AcquireCommit(p) PROVE OneChangePerEpoch'
    <2> DEFINE c == call[p]
    <2>1. epoch' = epoch
      BY <1>2 DEF AcquireCommit
    <2>2. \A o \in Ops : Adv(o) => o # c.op
      <3>1. journal'[c.op] =
                [state |-> "active", kind |-> c.kind, actor |-> c.actor,
                 base |-> c.epoch, generation |-> GrantedGeneration(c),
                 advance |-> FALSE, result |-> 0]
        BY <1>2, AcquireCommitRows
      <3>2. QED
        BY <3>1
    <2>3. \A o \in Ops : Adv(o) => Advanced(o) /\ journal'[o] = journal[o]
      BY <1>2, <2>2, AcquireCommitRows DEF Advanced
    <2>4. QED
      BY <2>1, <2>3 DEF IInv, OneChangePerEpoch, Advanced
  <1>3. ASSUME NEW p \in Callers, CompleteCommit(p) PROVE OneChangePerEpoch'
    <2> DEFINE c == call[p]
    <2>1. epoch \in Nat /\ epoch' = CompletedEpoch(c) /\ c.epoch = epoch
      BY <1>3, CompleteCommitRows DEF CompleteCommit, IInv, TypeOK
    <2>2. epoch' >= epoch
      BY <2>1 DEF CompletedEpoch
    <2>3. Adv(c.op) =>
            /\ journal'[c.op].base = epoch
            /\ journal'[c.op].result = epoch + 1
            /\ epoch' = epoch + 1
      <3>1. /\ journal'[c.op].base = epoch
            /\ journal'[c.op].advance = c.advance
            /\ journal'[c.op].result = CompletedEpoch(c)
        BY <1>3, CompleteCommitRows
      <3>2. QED
        BY <2>1, <3>1 DEF CompletedEpoch
    <2>4. \A o \in Ops : Adv(o) /\ o # c.op =>
            Advanced(o) /\ journal'[o] = journal[o]
      BY <1>3, CompleteCommitRows DEF Advanced
    <2>5. \A o \in Ops : Adv(o) /\ o # c.op => journal'[o].base < epoch
      BY <1>1, <2>1, <2>4
    <2>6. ASSUME NEW o \in Ops, Adv(o)
          PROVE  /\ journal'[o].result = journal'[o].base + 1
                 /\ journal'[o].result <= epoch'
      <3>1. CASE o = c.op
        BY <2>1, <2>3, <2>6, <3>1
      <3>2. CASE o # c.op
        <4>1. Advanced(o) /\ journal'[o] = journal[o]
          BY <2>4, <2>6, <3>2
        <4>2. /\ journal[o].base \in Nat
              /\ journal[o].result = journal[o].base + 1
              /\ journal[o].result <= epoch
          BY <1>1, <4>1
        <4>3. epoch' \in Nat
          BY <2>1 DEF CompletedEpoch
        <4>4. QED
          BY <2>1, <2>2, <4>1, <4>2, <4>3
      <3>3. QED
        BY <3>1, <3>2
    <2>7. ASSUME NEW o \in Ops, NEW other \in Ops, Adv(o), Adv(other),
                 journal'[other].base = journal'[o].base
          PROVE  other = o
      <3>1. CASE o = c.op \/ other = c.op
        BY <2>1, <2>3, <2>5, <2>7, <3>1
      <3>2. CASE o # c.op /\ other # c.op
        BY <2>4, <2>7, <3>2 DEF IInv, OneChangePerEpoch
      <3>3. QED
        BY <3>1, <3>2
    <2>8. QED
      BY <2>6, <2>7 DEF OneChangePerEpoch, Advanced
  <1>4. ASSUME NEW p \in Callers, NEW bootstrap \in BOOLEAN, Activate(p, bootstrap)
        PROVE  OneChangePerEpoch'
    <2>1. journal' = journal /\ epoch \in Nat /\ epoch' \in Nat /\ epoch <= epoch'
      BY <1>4 DEF Activate, IInv, TypeOK
    <2>2. \A o \in Ops : Advanced(o) =>
            journal[o].result \in Nat /\ journal[o].result <= epoch'
      BY <1>1, <2>1
    <2>3. QED
      BY <2>1, <2>2 DEF IInv, OneChangePerEpoch, Advanced
  <1>5. ASSUME UNCHANGED cloudVars PROVE OneChangePerEpoch'
    BY <1>5 DEF IInv, OneChangePerEpoch, Advanced, cloudVars, controlVars
  <1>6. QED
    BY <1>2, <1>3, <1>4, <1>5, ReadersChangeNothing

-----------------------------------------------------------------------------
(* The theorems.                                                           *)

\* IInv is an invariant of the control.
THEOREM Invariance == Spec => []IInv
  <1>1. IInv /\ [Next]_vars => IInv'
    <2> SUFFICES ASSUME IInv, [Next]_vars PROVE IInv'
      OBVIOUS
    <2>1. TypeOK'
      BY NextTypeOK DEF IInv
    <2>2. QED
      BY <2>1, NextLeaseMatchesRegistry, NextPendingAcquiresFenced,
         NextOneChangePerEpoch DEF IInv
  <1>2. QED
    BY <1>1, InitInvariant, PTL DEF Spec

\* An operation is active exactly while it holds the lease, with the owner,
\* epoch and generation of the lease: acquire_cloud_f_change and
\* complete_cloud_f_change keep the three tables in step.
THEOREM LeaseAlwaysMatchesRegistry == Spec => []LeaseMatchesRegistry
  <1>1. IInv => LeaseMatchesRegistry
    BY DEF IInv
  <1>2. QED
    BY <1>1, Invariance, PTL

\* The compare-and-set on the lease generation validates everything the
\* earlier reads of acquire_cloud_f_change decided.
THEOREM AcquiresAlwaysFenced == Spec => []PendingAcquiresFenced
  <1>1. IInv => PendingAcquiresFenced
    BY DEF IInv
  <1>2. QED
    BY <1>1, Invariance, PTL

\* No epoch is consumed by two changes, however many processes complete.
THEOREM EpochsConsumedOnce == Spec => []OneChangePerEpoch
  <1>1. IInv => OneChangePerEpoch
    BY DEF IInv
  <1>2. QED
    BY <1>1, Invariance, PTL

\* A new holder of the lease always gets a new, larger generation.
THEOREM GenerationsFence == Spec => GenerationFencesHolders
  <1> DEFINE A == /\ generation' >= generation
                  /\ leaseOp' # leaseOp /\ leaseOp' # NoOp => generation' > generation
  <1>1. ASSUME IInv, [Next]_vars PROVE [A]_vars
    <2>1. generation \in Nat
      BY <1>1 DEF IInv, TypeOK
    <2>2. ASSUME NEW p \in Callers, AcquireCommit(p) PROVE A
      <3> DEFINE c == call[p]
      <3>1. generation' = GrantedGeneration(c) /\ leaseOp' = c.op
        BY <2>2 DEF AcquireCommit
      <3>2. generation = c.generation /\ (c.same => leaseOp = c.op)
        BY <1>1, <2>2, AcquireCommitCases
      <3>3. QED
        BY <2>1, <3>1, <3>2 DEF GrantedGeneration
    <2>3. ASSUME NEW p \in Callers, CompleteCommit(p) PROVE A
      BY <2>1, <2>3 DEF CompleteCommit
    <2>4. ASSUME NEW p \in Callers, NEW bootstrap \in BOOLEAN, Activate(p, bootstrap)
          PROVE A
      BY <2>1, <2>4 DEF Activate
    <2>5. CASE UNCHANGED cloudVars
      BY <2>1, <2>5 DEF cloudVars, controlVars
    <2>6. QED
      BY <1>1, <2>2, <2>3, <2>4, <2>5, ReadersChangeNothing
  <1>2. QED
    BY <1>1, Invariance, PTL DEF Spec, GenerationFencesHolders

\* The control implements the abstract exclusive change: a lease taken with
\* one read and one compare-and-set, renewable after it expired and shared by
\* any number of processes, is a lock that only its holder gives back.
THEOREM Refinement == Spec => ImplementsExclusiveChange
  <1>1. Init => Exclusive!Init
    BY DEF Init, Exclusive!Init
  <1>2. ASSUME IInv, [Next]_vars PROVE [Exclusive!Next]_(Exclusive!vars)
    <2>1. ASSUME NEW p \in Callers, AcquireCommit(p)
          PROVE  [Exclusive!Next]_(Exclusive!vars)
      <3> DEFINE c == call[p]
      <3>1. leaseOp' = c.op /\ UNCHANGED <<ready, epoch>>
        BY <2>1 DEF AcquireCommit
      <3>2. c.op \in Ops /\ ready /\ (leaseOp = c.op \/ leaseOp = NoOp)
        BY <1>2, <2>1, AcquireCommitCases, AcquireCommitRows
      <3>3. CASE leaseOp = c.op
        BY <3>1, <3>3 DEF Exclusive!vars
      <3>4. CASE leaseOp = NoOp
        BY <3>1, <3>2, <3>4 DEF Exclusive!Next, Exclusive!Begin
      <3>5. QED
        BY <3>2, <3>3, <3>4
    <2>2. ASSUME NEW p \in Callers, CompleteCommit(p)
          PROVE  [Exclusive!Next]_(Exclusive!vars)
      <3> DEFINE c == call[p]
      <3>1. c.op \in Ops /\ leaseOp = c.op /\ epoch = c.epoch
        BY <1>2, <2>2, CompleteCommitRows
      <3>2. leaseOp' = NoOp /\ ready' = ready /\ epoch' \in {epoch, epoch + 1}
        BY <2>2, <3>1 DEF CompleteCommit, CompletedEpoch
      <3>3. QED
        BY <3>1, <3>2 DEF Exclusive!Next, Exclusive!Finish
    <2>3. ASSUME NEW p \in Callers, NEW bootstrap \in BOOLEAN, Activate(p, bootstrap)
          PROVE  [Exclusive!Next]_(Exclusive!vars)
      BY <2>3 DEF Activate, Exclusive!Next, Exclusive!Activate
    <2>4. CASE UNCHANGED cloudVars
      BY <2>4 DEF cloudVars, controlVars, Exclusive!vars
    <2>5. QED
      BY <1>2, <2>1, <2>2, <2>3, <2>4, ReadersChangeNothing
  <1>3. QED
    BY <1>1, <1>2, Invariance, PTL DEF Spec, ImplementsExclusiveChange, Exclusive!Spec
=============================================================================

-------------------------- MODULE SchemaUpgradeProofs --------------------------
(***************************************************************************)
(* Proofs about SchemaUpgrade and the AuditChain it extends: the audit     *)
(* chain of an active database always verifies, or lacks the head of one   *)
(* cancelled append, its checkpoints tell every database that lost entries *)
(* from one that kept them, and an upgrade's restore puts back what the    *)
(* attempt began with.                                                     *)
(*                                                                         *)
(* A hash commits to all entries up to its own, so the invariant describes *)
(* a log by its ids (HashAt, ChainOf).  It says so of the committed        *)
(* database, of its file without the sidecars, of the open append and of   *)
(* every backup a restore may bring back, and ties each backup to the      *)
(* receipt of the attempt it is of.                                        *)
(***************************************************************************)
EXTENDS SchemaUpgrade, TLAPS, SequenceTheorems

-----------------------------------------------------------------------------
(* The inductive invariant.                                                *)

\* The hash after the first i entries, and the head after all of them.
HashAt(log, w, root, i) ==
    [workspace |-> w, root |-> root, ids |-> [j \in 1 .. i |-> log[j].id]]
HeadAt(log, w, root) ==
    [sequence |-> Len(log), hash |-> HashAt(log, w, root, Len(log))]

\* Each entry commits to all entries up to it, and the one before it to the rest.
ChainOf(log, w, root) ==
    \A i \in 1 .. Len(log) :
        /\ log[i].sequence = i
        /\ log[i].previous = HashAt(log, w, root, i - 1)
        /\ log[i].hash = HashAt(log, w, root, i)

\* With n ids given out, a log is not longer than that.
Numbered(log, n) == \A i \in 1 .. Len(log) : i <= log[i].id /\ log[i].id <= n

\* A head is the one after all entries, or the one after all but the last.
CutAt(log, head, w, root) ==
    /\ log # <<>>
    /\ head = [sequence |-> Len(log) - 1, hash |-> HashAt(log, w, root, Len(log) - 1)]
HeadOf(log, head, w, root) == head = HeadAt(log, w, root) \/ CutAt(log, head, w, root)

Unused(d) == \A w \in Workspaces : d.log[w] = <<>> /\ d.head[w] = NoHead
Chain(d) ==
    /\ d.root = d.legacy
    /\ \A w \in Workspaces :
        /\ ChainOf(d.log[w], w, d.root)
        /\ \/ HeadOf(d.log[w], d.head[w], w, d.root)
           \/ d.head[w] = NoHead /\ d.log[w] = <<>>

\* What every database that was ever the committed one satisfies.
Sound(d, n) ==
    /\ d \in Database
    /\ Fresh(d) => d = FreshDb
    /\ IF d.active THEN Chain(d) ELSE Unused(d)
    /\ \A w \in Workspaces : Numbered(d.log[w], n)

AuditTyped ==
    /\ tx \in Transaction \cup {NoTx}
    /\ checkpoint \in [Workspaces -> ChainHead \cup {NoCheckpoint}]
    /\ written \in 0 .. MaxEntries
    /\ fleet \in Versions

UpgradeTyped ==
    /\ receipt \in [Releases -> Receipt \cup {Nothing}]
    /\ backups \in [Releases -> [Attempts -> Database \cup {Nothing}]]
    /\ runner \in Runner \cup {Nothing}
    /\ faults \in 0 .. MaxFaults

FleetMatches ==
    /\ fleet # 0 => db.version = fleet /\ runner = Nothing
    /\ tx # NoTx => db.active /\ fleet \in Chained

\* What the open append has done so far.
TxExtends ==
    tx # NoTx =>
        LET w == tx.workspace IN
        /\ Len(tx.log) <= MaxEntries
        /\ ChainOf(tx.log, w, db.root)
        /\ Numbered(tx.log, written)
        /\ HeadOf(tx.log, tx.head, w, db.root)
        /\ tx.step = "insert" => Len(tx.log) < tx.id /\ tx.id <= written
        /\ tx.step = "advance" => CutAt(tx.log, tx.head, w, db.root)
        /\ tx.step = "commit" => tx.head = HeadAt(tx.log, w, db.root)

BackupsSound ==
    \A r \in Releases, n \in Attempts :
        /\ backups[r][n] \in Database => Sound(backups[r][n], written)
        /\ backups[r][n] # Nothing => receipt[r] # Nothing /\ n <= receipt[r].attempt

ReceiptsMatch ==
    \A r \in Releases : receipt[r] # Nothing =>
        /\ Fresh(receipt[r].before) => receipt[r].before = FreshDb
        /\ BackupOf(r) \in {Nothing, FreshDb, Torn, receipt[r].before}

RunnerMatches ==
    runner # Nothing =>
        /\ Mine # Nothing
        /\ At("copy") => Mine.planned /\ db = Mine.before
        /\ At("digest") => Mine.planned /\ MyBackup = Mine.before
        /\ At("migrate") /\ Mine.planned => Mine.digest = MyBackup /\ MyBackup = Mine.before
        /\ At("unlink") =>
            /\ Mine.status # "rolled_back"
            /\ Fresh(Mine.before) \/ (Mine.digest = MyBackup /\ MyBackup # Nothing)
        /\ At("replace") => Fresh(Mine.before) \/ MyBackup \notin {Nothing, Torn}
        /\ At("record") => db \in {FreshDb, Mine.before}

CheckpointsMatch ==
    \A w \in Workspaces : checkpoint[w] # NoCheckpoint =>
        /\ checkpoint[w].sequence >= 1
        /\ checkpoint[w].hash.workspace = w
        /\ Len(checkpoint[w].hash.ids) = checkpoint[w].sequence

AuditInv ==
    /\ Sound(db, written)
    /\ AuditTyped
    /\ FleetMatches
    /\ TxExtends
    /\ CheckpointsMatch

UpgradeInv ==
    /\ UpgradeTyped
    /\ BackupsSound
    /\ ReceiptsMatch
    /\ RunnerMatches

CoreInv == AuditInv /\ UpgradeInv

\* What a restore finds when the sidecars of the database are gone.
FileSound == Sound(file, written)

IInv == CoreInv /\ FileSound

-----------------------------------------------------------------------------
(* Hashes.                                                                 *)

LEMMA IdsTyped ==
    ASSUME NEW log \in Seq(Entry), NEW i \in 0 .. Len(log)
    PROVE  [j \in 1 .. i |-> log[j].id] \in Seq(Ids)
  <1>1. \A j \in 1 .. i : log[j] \in Entry
    OBVIOUS
  <1>2. \A j \in 1 .. i : log[j].id \in Ids
    BY <1>1 DEF Entry
  <1>3. i \in Nat
    OBVIOUS
  <1>4. QED
    BY <1>2, <1>3

LEMMA HashTyped ==
    ASSUME NEW log \in Seq(Entry), NEW i \in 0 .. Len(log), NEW w \in Workspaces,
           NEW root \in SUBSET Ids
    PROVE  HashAt(log, w, root, i) \in Hash
  BY IdsTyped DEF HashAt, Hash

LEMMA HashZero ==
    ASSUME NEW log, NEW w, NEW root
    PROVE  HashAt(log, w, root, 0) = GenesisHash(w, root)
  <1>1. [j \in 1 .. 0 |-> log[j].id] = <<>>
    OBVIOUS
  <1>2. QED
    BY <1>1 DEF HashAt, GenesisHash

LEMMA HashNext ==
    ASSUME NEW log \in Seq(Entry), NEW i \in 1 .. Len(log), NEW w, NEW root
    PROVE  EntryHash(HashAt(log, w, root, i - 1), log[i].id) = HashAt(log, w, root, i)
  <1> DEFINE s == [j \in 1 .. i - 1 |-> log[j].id]
             t == [j \in 1 .. i |-> log[j].id]
  <1>1. i \in Nat /\ i >= 1 /\ i - 1 \in 0 .. Len(log) /\ i \in 0 .. Len(log)
    OBVIOUS
  <1>2. s \in Seq(Ids) /\ t \in Seq(Ids) /\ log[i].id \in Ids
    <2>1. log[i] \in Entry
      OBVIOUS
    <2>2. log[i].id \in Ids
      BY <2>1 DEF Entry
    <2>3. QED
      BY <1>1, <2>2, IdsTyped
  <1>3. Len(s) = i - 1 /\ Len(t) = i
    BY <1>1, <1>2
  <1>4. Append(s, log[i].id) = t
    <2>1. /\ Append(s, log[i].id) \in Seq(Ids) /\ Len(Append(s, log[i].id)) = i
          /\ \A j \in 1 .. i - 1 : Append(s, log[i].id)[j] = s[j]
          /\ Append(s, log[i].id)[i] = log[i].id
      BY <1>1, <1>2, <1>3, AppendProperties
    <2>2. \A j \in 1 .. i : Append(s, log[i].id)[j] = t[j]
      BY <1>1, <2>1
    <2>3. QED
      BY <1>2, <1>3, <2>1, <2>2, SeqEqual
  <1>5. HashAt(log, w, root, i - 1) = [workspace |-> w, root |-> root, ids |-> s]
        /\ HashAt(log, w, root, i) = [workspace |-> w, root |-> root, ids |-> t]
    BY DEF HashAt
  <1> HIDE DEF s, t
  <1>6. EntryHash(HashAt(log, w, root, i - 1), log[i].id)
            = [workspace |-> w, root |-> root, ids |-> Append(s, log[i].id)]
    <2> DEFINE h == HashAt(log, w, root, i - 1)
    <2>1. h.workspace = w /\ h.root = root /\ h.ids = s
      BY <1>5
    <2> HIDE DEF h
    <2>2. EntryHash(h, log[i].id)
            = [workspace |-> h.workspace, root |-> h.root, ids |-> Append(h.ids, log[i].id)]
      BY DEF EntryHash
    <2>3. QED
      BY <2>1, <2>2 DEF h
  <1>7. QED
    BY <1>4, <1>5, <1>6

LEMMA HashPrefix ==
    ASSUME NEW log \in Seq(Entry), NEW e \in Entry, NEW i \in 0 .. Len(log), NEW w, NEW root
    PROVE  HashAt(Append(log, e), w, root, i) = HashAt(log, w, root, i)
  <1>1. \A j \in 1 .. i : Append(log, e)[j] = log[j]
    BY AppendProperties
  <1>2. [j \in 1 .. i |-> Append(log, e)[j].id] = [j \in 1 .. i |-> log[j].id]
    BY <1>1
  <1>3. QED
    BY <1>2 DEF HashAt

\* An entry that follows the head of a chain extends the chain.
LEMMA ChainExtends ==
    ASSUME NEW log \in Seq(Entry), NEW w, NEW root, NEW e \in Entry,
           ChainOf(log, w, root),
           e.sequence = Len(log) + 1,
           e.previous = HashAt(log, w, root, Len(log)),
           e.hash = EntryHash(e.previous, e.id)
    PROVE  ChainOf(Append(log, e), w, root)
  <1> DEFINE new == Append(log, e)
             n == Len(log)
  <1>1. /\ n \in Nat /\ new \in Seq(Entry) /\ Len(new) = n + 1
        /\ \A i \in 1 .. n : new[i] = log[i]
        /\ new[n + 1] = e
    BY AppendProperties
  <1>2. \A i \in 0 .. n : HashAt(new, w, root, i) = HashAt(log, w, root, i)
    BY HashPrefix
  <1>3. EntryHash(HashAt(new, w, root, n), e.id) = HashAt(new, w, root, n + 1)
    <2>1. n + 1 \in 1 .. Len(new) /\ (n + 1) - 1 = n /\ new[n + 1].id = e.id
      BY <1>1
    <2>2. EntryHash(HashAt(new, w, root, (n + 1) - 1), new[n + 1].id) = HashAt(new, w, root, n + 1)
      BY <1>1, <2>1, HashNext
    <2>3. QED
      BY <2>1, <2>2
  <1> HIDE DEF new
  <1>4. ASSUME NEW i \in 1 .. Len(new)
        PROVE  /\ new[i].sequence = i
               /\ new[i].previous = HashAt(new, w, root, i - 1)
               /\ new[i].hash = HashAt(new, w, root, i)
    <2>1. CASE i <= n
      <3>1. i \in 1 .. n /\ i - 1 \in 0 .. n /\ i \in 0 .. n /\ new[i] = log[i]
        BY <1>1, <2>1
      <3>2. QED
        BY <1>2, <3>1 DEF ChainOf
    <2>2. CASE i = n + 1
      <3>1. n \in 0 .. n /\ i - 1 = n /\ new[i] = e
        BY <1>1, <2>2
      <3>2. QED
        BY <1>2, <1>3, <2>2, <3>1
    <2>3. QED
      BY <1>1, <2>1, <2>2
  <1>5. QED
    BY <1>4 DEF ChainOf, new

-----------------------------------------------------------------------------
(* What the invariant says of a database.                                  *)

LEMMA DatabaseFields ==
    ASSUME NEW d \in Database
    PROVE  /\ d.version \in Versions /\ d.legacy \in SUBSET Ids
           /\ d.root \in (SUBSET Ids) \cup {NoRoot} /\ d.active \in BOOLEAN
           /\ d.log \in [Workspaces -> Seq(Entry)]
           /\ d.head \in [Workspaces -> ChainHead \cup {NoHead}]
  BY DEF Database

LEMMA LastOf ==
    ASSUME NEW S, NEW s \in Seq(S), s # <<>>
    PROVE  Last(s) = s[Len(s)] /\ Len(s) \in 1 .. Len(s) /\ Len(s) \in Nat /\ Len(s) >= 1
  BY DEF Last

LEMMA ChainBounded ==
    ASSUME NEW log \in Seq(Entry), NEW w, NEW root, ChainOf(log, w, root)
    PROVE  Len(log) \in Nat /\ Len(log) <= MaxEntries
  <1> USE EntriesAssumption
  <1>1. Len(log) \in Nat
    OBVIOUS
  <1>2. CASE Len(log) = 0
    BY <1>1, <1>2
  <1>3. CASE Len(log) # 0
    <2>1. Len(log) \in 1 .. Len(log)
      BY <1>1, <1>3
    <2>2. log[Len(log)] \in Entry /\ log[Len(log)].sequence = Len(log)
      BY <2>1 DEF ChainOf
    <2>3. log[Len(log)].sequence \in 1 .. MaxEntries
      BY <2>2 DEF Entry, Ids
    <2>4. QED
      BY <2>2, <2>3
  <1>4. QED
    BY <1>2, <1>3

LEMMA HeadTyped ==
    ASSUME NEW log \in Seq(Entry), NEW i \in 0 .. Len(log), NEW w \in Workspaces,
           NEW root \in SUBSET Ids, ChainOf(log, w, root)
    PROVE  [sequence |-> i, hash |-> HashAt(log, w, root, i)] \in ChainHead
  <1>1. Len(log) \in Nat /\ Len(log) <= MaxEntries
    BY ChainBounded
  <1>2. i \in 0 .. MaxEntries
    BY <1>1, EntriesAssumption
  <1>3. HashAt(log, w, root, i) \in Hash
    BY HashTyped
  <1>4. QED
    BY <1>2, <1>3 DEF ChainHead

LEMMA HeadOfTyped ==
    ASSUME NEW log \in Seq(Entry), NEW head, NEW w \in Workspaces, NEW root \in SUBSET Ids,
           ChainOf(log, w, root), HeadOf(log, head, w, root)
    PROVE  head \in ChainHead /\ head # NoHead
  <1>1. Len(log) \in 0 .. Len(log) /\ (log # <<>> => Len(log) - 1 \in 0 .. Len(log))
    OBVIOUS
  <1>2. head \in ChainHead
    BY <1>1, HeadTyped DEF HeadOf, HeadAt, CutAt
  <1>3. QED
    BY <1>2, NullAssumption

LEMMA ChainLinks ==
    ASSUME NEW d, NEW w \in Workspaces, d.log[w] \in Seq(Entry), ChainOf(d.log[w], w, d.root)
    PROVE  LinksHold(d, w)
  <1> DEFINE log == d.log[w]
  <1>1. log \in Seq(Entry) /\ Len(log) \in Nat /\ DOMAIN log = 1 .. Len(log)
    BY LenProperties
  <1>2. ASSUME NEW i \in 1 .. Len(log)
        PROVE  /\ log[i].sequence = i
               /\ log[i].previous = IF i = 1 THEN GenesisHash(w, d.root) ELSE log[i - 1].hash
               /\ log[i].hash = EntryHash(log[i].previous, log[i].id)
    <2>1. /\ log[i].sequence = i
          /\ log[i].previous = HashAt(log, w, d.root, i - 1)
          /\ log[i].hash = HashAt(log, w, d.root, i)
      BY DEF ChainOf
    <2>2. log[i].hash = EntryHash(log[i].previous, log[i].id)
      BY <1>1, <2>1, HashNext
    <2>3. CASE i = 1
      BY <2>1, <2>2, <2>3, HashZero
    <2>4. CASE i # 1
      <3>1. i - 1 \in 1 .. Len(log)
        BY <1>1, <2>4
      <3>2. log[i - 1].hash = HashAt(log, w, d.root, i - 1)
        BY <3>1 DEF ChainOf
      <3>3. QED
        BY <2>1, <2>2, <2>4, <3>2
    <2>5. QED
      BY <2>3, <2>4
  <1>3. QED
    BY <1>1, <1>2 DEF LinksHold

LEMMA HeadMatches ==
    ASSUME NEW d, NEW w \in Workspaces, d.log[w] \in Seq(Entry), d.root \in SUBSET Ids,
           ChainOf(d.log[w], w, d.root), d.head[w] = HeadAt(d.log[w], w, d.root)
    PROVE  HeadHolds(d, w) /\ d.head[w] # NoHead /\ d.head[w].sequence = Len(d.log[w])
  <1> DEFINE log == d.log[w]
  <1>1. d.head[w] \in ChainHead /\ d.head[w].sequence = Len(log)
    BY HeadTyped DEF HeadAt
  <1>2. d.head[w] # NoHead
    BY <1>1, NullAssumption
  <1>3. CASE log = <<>>
    <2>1. Len(log) = 0
      BY <1>3
    <2>2. d.head[w] = [sequence |-> 0, hash |-> GenesisHash(w, d.root)]
      BY <2>1, HashZero DEF HeadAt
    <2>3. QED
      BY <1>1, <1>2, <1>3, <2>2 DEF HeadHolds
  <1>4. CASE log # <<>>
    <2>1. Last(log).sequence = Len(log) /\ Last(log).hash = HashAt(log, w, d.root, Len(log))
      BY <1>4, LastOf DEF ChainOf
    <2>2. d.head[w] = [sequence |-> Last(log).sequence, hash |-> Last(log).hash]
      BY <2>1 DEF HeadAt
    <2>3. QED
      BY <1>1, <1>2, <1>4, <2>2 DEF HeadHolds
  <1>5. QED
    BY <1>3, <1>4

LEMMA ChainFront ==
    ASSUME NEW log \in Seq(Entry), log # <<>>, NEW w, NEW root, ChainOf(log, w, root)
    PROVE  /\ Front(log) \in Seq(Entry) /\ Len(Front(log)) = Len(log) - 1
           /\ ChainOf(Front(log), w, root)
           /\ HeadAt(Front(log), w, root)
                = [sequence |-> Len(log) - 1, hash |-> HashAt(log, w, root, Len(log) - 1)]
  <1> DEFINE n == Len(log) - 1
  <1>1. n \in Nat /\ Len(log) = n + 1
    OBVIOUS
  <1>2. /\ Front(log) \in Seq(Entry) /\ Len(Front(log)) = n
        /\ \A i \in 1 .. n : Front(log)[i] = log[i]
    <2>1. \A i \in 1 .. n : log[i] \in Entry
      BY <1>1
    <2>2. Front(log) = SubSeq(log, 1, n)
      BY DEF Front
    <2>3. QED
      BY <1>1, <2>1, <2>2, SubSeqProperties
  <1> HIDE DEF n
  <1>3. \A i \in 0 .. n : HashAt(Front(log), w, root, i) = HashAt(log, w, root, i)
    <2>1. ASSUME NEW i \in 0 .. n
          PROVE  [j \in 1 .. i |-> Front(log)[j].id] = [j \in 1 .. i |-> log[j].id]
      BY <1>1, <1>2
    <2>2. QED
      BY <2>1 DEF HashAt
  <1>4. ASSUME NEW i \in 1 .. n
        PROVE  /\ Front(log)[i].sequence = i
               /\ Front(log)[i].previous = HashAt(Front(log), w, root, i - 1)
               /\ Front(log)[i].hash = HashAt(Front(log), w, root, i)
    <2>1. i \in 1 .. Len(log) /\ i - 1 \in 0 .. n /\ i \in 0 .. n /\ Front(log)[i] = log[i]
      BY <1>1, <1>2
    <2>2. QED
      BY <1>3, <2>1 DEF ChainOf
  <1>5. ChainOf(Front(log), w, root)
    BY <1>2, <1>4 DEF ChainOf
  <1>6. n \in 0 .. n
    BY <1>1
  <1>7. QED
    BY <1>2, <1>3, <1>5, <1>6 DEF HeadAt, n

\* An active chain verifies, or is cut off, and its hashes are what they
\* commit to.
LEMMA SoundVerifies ==
    ASSUME NEW n, NEW d, Sound(d, n), d.active, NEW w \in Workspaces
    PROVE  /\ ChainOf(d.log[w], w, d.root)
           /\ ChainConsistent(d, w) <=> ~CutOff(d, w)
  <1> DEFINE log == d.log[w]
             shorter == [d EXCEPT !.log[w] = Front(@)]
  <1>1. /\ log \in Seq(Entry) /\ Len(log) \in Nat
        /\ d.log \in [Workspaces -> Seq(Entry)]
        /\ d \in Database
    BY DatabaseFields, LenProperties DEF Sound
  <1>2. /\ d.root = d.legacy /\ d.root \in SUBSET Ids
        /\ ChainOf(log, w, d.root)
        /\ HeadOf(log, d.head[w], w, d.root) \/ (d.head[w] = NoHead /\ log = <<>>)
    BY <1>1, DatabaseFields DEF Sound, Chain
  <1>3. LinksHold(d, w)
    BY <1>1, <1>2, ChainLinks
  <1>4. CASE d.head[w] = NoHead /\ log = <<>>
    BY <1>2, <1>3, <1>4 DEF HeadHolds, ChainConsistent, CutOff
  <1>5. ASSUME log # <<>>
        PROVE  /\ shorter.log[w] = Front(log) /\ shorter.head = d.head
               /\ shorter.root = d.root /\ shorter.legacy = d.legacy
               /\ Front(log) \in Seq(Entry) /\ Len(Front(log)) = Len(log) - 1
               /\ ChainOf(Front(log), w, d.root)
               /\ HeadAt(Front(log), w, d.root)
                    = [sequence |-> Len(log) - 1, hash |-> HashAt(log, w, d.root, Len(log) - 1)]
               /\ CutOff(d, w) <=> ChainConsistent(shorter, w)
    <2>1. shorter = [d EXCEPT !.log = [d.log EXCEPT ![w] = Front(log)]]
      BY <1>1 DEF Database
    <2>2. /\ shorter.log = [d.log EXCEPT ![w] = Front(log)] /\ shorter.head = d.head
          /\ shorter.root = d.root /\ shorter.legacy = d.legacy
      BY <1>1, <2>1 DEF Database
    <2>3. shorter.log[w] = Front(log)
      BY <1>1, <2>2
    <2>4. QED
      BY <1>1, <1>2, <1>5, <2>2, <2>3, ChainFront DEF CutOff
  <1> HIDE DEF shorter
  <1>6. CASE d.head[w] = HeadAt(log, w, d.root)
    <2>1. HeadHolds(d, w) /\ d.head[w] # NoHead /\ d.head[w].sequence = Len(log)
      BY <1>1, <1>2, <1>6, HeadMatches
    <2>2. ChainConsistent(d, w)
      BY <1>2, <1>3, <2>1 DEF ChainConsistent
    <2>3. CASE log = <<>>
      <3>1. CutOff(d, w) => log # <<>>
        BY DEF CutOff
      <3>2. QED
        BY <1>2, <2>2, <2>3, <3>1
    <2>4. CASE log # <<>>
      <3>1. ASSUME HeadHolds(shorter, w) PROVE FALSE
        <4>1. CASE Front(log) = <<>>
          <5>1. d.head[w] = [sequence |-> 0, hash |-> GenesisHash(w, shorter.root)]
            BY <1>5, <2>1, <2>4, <3>1, <4>1 DEF HeadHolds
          <5>2. Len(log) = 0
            BY <2>1, <5>1
          <5>3. QED
            BY <1>1, <2>4, <5>2
        <4>2. CASE Front(log) # <<>>
          <5>1. d.head[w] = [sequence |-> Last(Front(log)).sequence, hash |-> Last(Front(log)).hash]
            BY <1>5, <2>1, <2>4, <3>1, <4>2 DEF HeadHolds
          <5>2. Last(Front(log)).sequence = Len(log) - 1
            BY <1>5, <2>4, <4>2, LastOf DEF ChainOf
          <5>3. QED
            BY <1>1, <2>1, <5>1, <5>2
        <4>3. QED
          BY <4>1, <4>2
      <3>2. ~ChainConsistent(shorter, w)
        BY <3>1 DEF ChainConsistent
      <3>3. QED
        BY <1>2, <1>5, <2>2, <2>4, <3>2
    <2>5. QED
      BY <1>2, <2>3, <2>4
  <1>7. CASE CutAt(log, d.head[w], w, d.root)
    <2>1. /\ log # <<>>
          /\ d.head[w] = [sequence |-> Len(log) - 1, hash |-> HashAt(log, w, d.root, Len(log) - 1)]
      BY <1>7 DEF CutAt
    <2>2. Len(log) - 1 \in 0 .. Len(log)
      BY <1>1, <2>1
    <2>3. d.head[w] # NoHead
      BY <1>1, <1>2, <2>1, <2>2, HeadTyped, NullAssumption
    <2>4. ~HeadHolds(d, w)
      <3>1. Last(log).sequence = Len(log)
        BY <1>1, <1>2, <2>1, LastOf DEF ChainOf
      <3>2. d.head[w].sequence = Len(log) - 1
        BY <2>1
      <3>3. d.head[w] # [sequence |-> Last(log).sequence, hash |-> Last(log).hash]
        BY <1>1, <3>1, <3>2
      <3>4. QED
        BY <2>1, <2>3, <3>3 DEF HeadHolds
    <2>5. HeadHolds(shorter, w) /\ LinksHold(shorter, w)
      BY <1>2, <1>5, <2>1, HeadMatches, ChainLinks
    <2>6. ChainConsistent(shorter, w)
      BY <1>2, <1>5, <2>1, <2>5 DEF ChainConsistent
    <2>7. QED
      BY <1>2, <1>5, <2>1, <2>4, <2>6 DEF ChainConsistent
  <1>8. QED
    BY <1>2, <1>4, <1>6, <1>7 DEF HeadOf

LEMMA SoundLater ==
    ASSUME NEW n \in Nat, NEW m \in Nat, n <= m, NEW d, Sound(d, n)
    PROVE  Sound(d, m)
  <1>1. ASSUME NEW w \in Workspaces PROVE Numbered(d.log[w], m)
    <2>1. d.log[w] \in Seq(Entry) /\ Numbered(d.log[w], n)
      BY DatabaseFields DEF Sound
    <2>2. \A i \in 1 .. Len(d.log[w]) : d.log[w][i].id \in Nat
      <3>1. \A i \in 1 .. Len(d.log[w]) : d.log[w][i] \in Entry
        BY <2>1
      <3>2. QED
        BY <3>1 DEF Entry, Ids
    <2>3. ASSUME NEW i \in 1 .. Len(d.log[w])
          PROVE  i <= d.log[w][i].id /\ d.log[w][i].id <= m
      <3>1. i <= d.log[w][i].id /\ d.log[w][i].id <= n /\ d.log[w][i].id \in Nat
        BY <2>1, <2>2 DEF Numbered
      <3>2. QED
        BY <3>1
    <2>4. QED
      BY <2>3 DEF Numbered
  <1>2. QED
    BY <1>1 DEF Sound

LEMMA FreshSound ==
    ASSUME NEW n
    PROVE  Sound(FreshDb, n) /\ Fresh(FreshDb)
  <1> USE EntriesAssumption
  <1>1. FreshDb \in Database
    BY DEF FreshDb, Database, Versions, Images
  <1>2. Unused(FreshDb) /\ FreshDb.active = FALSE /\ FreshDb.version = 0
    BY DEF FreshDb, Unused
  <1>3. \A w \in Workspaces : Numbered(FreshDb.log[w], n)
    BY DEF FreshDb, Numbered
  <1>4. QED
    BY <1>1, <1>2, <1>3 DEF Sound, Fresh

LEMMA TornSound ==
    ASSUME NEW n
    PROVE  Sound(Torn, n) /\ ~Fresh(Torn) /\ Torn # FreshDb
  <1> USE EntriesAssumption
  <1> DEFINE d == FreshDb
  <1>0. d \in Database /\ Unused(d) /\ d.active = FALSE /\ 1 \in Versions
    BY FreshSound DEF Sound, FreshDb, Unused, Versions, Unreadable
  <1> HIDE DEF d
  <1>1. /\ Torn \in Database /\ Torn.version = 1 /\ Torn.active = FALSE
        /\ Torn.log = d.log /\ Torn.head = d.head
    <2>1. Torn = [d EXCEPT !.version = 1]
      BY DEF Torn, Unreadable, d
    <2>2. QED
      BY <1>0, <2>1 DEF Database
  <1>2. Unused(Torn) /\ \A w \in Workspaces : Numbered(Torn.log[w], n)
    BY <1>0, <1>1 DEF Unused, Numbered
  <1>3. FreshDb.version = 0
    BY DEF FreshDb
  <1>4. QED
    BY <1>1, <1>2, <1>3 DEF Sound, Fresh

-----------------------------------------------------------------------------
(* Steps of the audit log.                                                 *)

LEMMA AuditRunsAlone ==
    ASSUME CoreInv, AuditNext
    PROVE  runner = Nothing /\ fleet # 0
  <1>1. 0 \notin Chained /\ 0 \notin Images
    BY DEF Chained, Images
  <1>2. fleet # 0
    BY <1>1 DEF AuditNext, LegacyInsert, AppendBegin, AppendInsert, AppendAdvance, Commit,
                Rollback, AppendCancelled, CommitLeft, TakeCheckpoint, CoreInv, AuditInv, FleetMatches
  <1>3. QED
    BY <1>2 DEF CoreInv, AuditInv, FleetMatches

LEMMA AuditKeepsUpgrades ==
    ASSUME CoreInv, AuditNext, UNCHANGED upgradeVars
    PROVE  UpgradeInv'
  <1>1. /\ UNCHANGED <<receipt, backups, runner, faults>> /\ runner = Nothing
    BY AuditRunsAlone DEF upgradeVars
  <1>2. written \in Nat /\ written' \in Nat /\ written <= written'
    BY EntriesAssumption DEF CoreInv, AuditInv, AuditTyped, AuditNext, LegacyInsert, AppendBegin,
         AppendInsert, AppendAdvance, Commit, Rollback, AppendCancelled, CommitLeft, TakeCheckpoint
  <1>3. UpgradeTyped' /\ ReceiptsMatch' /\ RunnerMatches'
    BY <1>1 DEF CoreInv, UpgradeInv, UpgradeTyped, ReceiptsMatch, RunnerMatches, BackupOf
  <1>4. BackupsSound'
    <2>1. ASSUME NEW r \in Releases, NEW n \in Attempts
          PROVE  /\ backups[r][n] \in Database => Sound(backups[r][n], written')
                 /\ backups[r][n] # Nothing => receipt[r] # Nothing /\ n <= receipt[r].attempt
      BY <1>2, SoundLater DEF CoreInv, UpgradeInv, BackupsSound
    <2>2. QED
      BY <1>1, <2>1 DEF BackupsSound
  <1>5. QED
    BY <1>3, <1>4 DEF UpgradeInv

LEMMA LegacyInsertStep ==
    ASSUME AuditInv, LegacyInsert, runner' = runner
    PROVE  AuditInv'
  <1> USE EntriesAssumption
  <1>1. /\ Sound(db, written) /\ AuditTyped /\ FleetMatches /\ TxExtends /\ CheckpointsMatch
        /\ db \in Database /\ ~db.active /\ fleet \in Images \ Chained
        /\ written \in Nat /\ written' = written + 1 /\ written' \in Ids
        /\ db' = [db EXCEPT !.legacy = @ \cup {written'}]
        /\ UNCHANGED <<tx, checkpoint, fleet>>
    BY DEF AuditInv, LegacyInsert, Sound, AuditTyped, Ids
  <1>2. tx = NoTx /\ db.version # 0
    BY <1>1 DEF FleetMatches, Images
  <1>3. Sound(db, written')
    BY <1>1, SoundLater
  <1>4. /\ db' \in Database /\ db'.active = db.active /\ db'.version = db.version
        /\ db'.log = db.log /\ db'.head = db.head
    BY <1>1 DEF Database
  <1>5. Sound(db', written')
    BY <1>1, <1>2, <1>3, <1>4 DEF Sound, Fresh, Unused
  <1>6. AuditTyped'
    BY <1>1 DEF AuditTyped, Ids
  <1>7. FleetMatches' /\ TxExtends' /\ CheckpointsMatch'
    <2>1. TxExtends' /\ CheckpointsMatch'
      BY <1>1, <1>2 DEF TxExtends, CheckpointsMatch
    <2>2. QED
      BY <1>1, <1>2, <1>4, <2>1 DEF FleetMatches
  <1>8. QED
    BY <1>5, <1>6, <1>7 DEF AuditInv

LEMMA AppendBeginStep ==
    ASSUME AuditInv, NEW w \in Workspaces, AppendBegin(w), runner' = runner
    PROVE  AuditInv'
  <1> USE EntriesAssumption, NullAssumption
  <1>1. /\ Sound(db, written) /\ AuditTyped /\ FleetMatches /\ CheckpointsMatch
        /\ db \in Database /\ db.active /\ fleet \in Chained
        /\ written \in Nat /\ written' = written + 1 /\ written' \in Ids
        /\ UNCHANGED <<db, checkpoint, fleet>>
    BY DEF AuditInv, AppendBegin, Sound, AuditTyped, Ids
  <1> DEFINE log == db.log[w]
             head == IF db.head[w] # NoHead THEN db.head[w]
                     ELSE [sequence |-> 0, hash |-> GenesisHash(w, db.root)]
  <1>2. tx' = [step |-> "insert", workspace |-> w, id |-> written', log |-> log, head |-> head]
    BY DEF AppendBegin
  <1>3. /\ log \in Seq(Entry) /\ Len(log) \in Nat /\ ChainOf(log, w, db.root)
        /\ Numbered(log, written) /\ db.root \in SUBSET Ids
    BY <1>1, SoundVerifies, DatabaseFields DEF Sound, Chain
  <1>4. HeadOf(log, head, w, db.root)
    <2>1. CASE db.head[w] = NoHead /\ log = <<>>
      <3>1. Len(log) = 0
        BY <2>1
      <3>2. HeadAt(log, w, db.root) = [sequence |-> 0, hash |-> GenesisHash(w, db.root)]
        BY <3>1, HashZero DEF HeadAt
      <3>3. QED
        BY <2>1, <3>2 DEF HeadOf
    <2>2. CASE HeadOf(log, db.head[w], w, db.root)
      <3>1. db.head[w] # NoHead
        BY <1>3, <2>2, HeadOfTyped
      <3>2. QED
        BY <2>2, <3>1
    <2>3. HeadOf(log, db.head[w], w, db.root) \/ (db.head[w] = NoHead /\ log = <<>>)
      BY <1>1 DEF Sound, Chain
    <2>4. QED
      BY <2>1, <2>2, <2>3
  <1>5. Len(log) <= written
    <2>1. CASE Len(log) = 0
      BY <1>1, <2>1
    <2>2. CASE Len(log) # 0
      <3>1. Len(log) \in 1 .. Len(log)
        BY <1>3, <2>2
      <3>2. log[Len(log)] \in Entry
        BY <1>3, <3>1
      <3>3. log[Len(log)].id \in Nat
        BY <3>2 DEF Entry, Ids
      <3>4. Len(log) <= log[Len(log)].id /\ log[Len(log)].id <= written
        BY <1>3, <3>1 DEF Numbered
      <3>5. QED
        BY <1>1, <1>3, <3>3, <3>4
    <2>3. QED
      BY <2>1, <2>2
  <1>6. head \in ChainHead
    BY <1>3, <1>4, HeadOfTyped
  <1> HIDE DEF log, head
  <1>7. tx' \in Transaction /\ tx'.step = "insert" /\ tx'.workspace = w /\ tx'.id = written'
        /\ tx'.log = log /\ tx'.head = head
    BY <1>1, <1>2, <1>3, <1>6 DEF Transaction
  <1>8. Sound(db, written')
    BY <1>1, SoundLater
  <1>9. Numbered(log, written')
    <2>1. \A i \in 1 .. Len(log) : log[i] \in Entry
      BY <1>3
    <2>2. \A i \in 1 .. Len(log) : log[i].id \in Nat
      BY <2>1 DEF Entry, Ids
    <2>3. QED
      BY <1>1, <1>3, <2>2 DEF Numbered
  <1>10. TxExtends'
    <2>1. Len(log) <= MaxEntries /\ Len(log) < written'
      BY <1>1, <1>3, <1>5 DEF Ids
    <2>2. QED
      BY <1>1, <1>3, <1>4, <1>7, <1>9, <2>1 DEF TxExtends
  <1>11. AuditTyped' /\ FleetMatches' /\ CheckpointsMatch'
    BY <1>1, <1>7 DEF AuditTyped, FleetMatches, CheckpointsMatch, Ids
  <1>12. QED
    BY <1>1, <1>8, <1>10, <1>11 DEF AuditInv

LEMMA AppendInsertStep ==
    ASSUME AuditInv, AppendInsert, runner' = runner
    PROVE  AuditInv'
  <1> USE EntriesAssumption, NullAssumption
  <1>1. /\ Sound(db, written) /\ AuditTyped /\ FleetMatches /\ TxExtends /\ CheckpointsMatch
        /\ db \in Database /\ tx # NoTx /\ tx \in Transaction /\ tx.step = "insert"
        /\ written \in Nat /\ written <= MaxEntries
        /\ \A i \in DOMAIN tx.log : tx.log[i].sequence # tx.head.sequence + 1
        /\ UNCHANGED <<db, checkpoint, written, fleet>>
    BY DEF AuditInv, AppendInsert, Sound, AuditTyped
  <1> DEFINE w == tx.workspace
             log == tx.log
             row == [id |-> tx.id, sequence |-> tx.head.sequence + 1, previous |-> tx.head.hash,
                     hash |-> EntryHash(tx.head.hash, tx.id)]
             new == Append(log, row)
  <1>2. tx' = [tx EXCEPT !.log = new, !.step = "advance"]
    BY DEF AppendInsert
  <1>3. /\ w \in Workspaces /\ tx.id \in Ids /\ log \in Seq(Entry) /\ Len(log) \in Nat
        /\ tx.head \in ChainHead
    BY <1>1 DEF Transaction
  <1>4. /\ ChainOf(log, w, db.root) /\ Numbered(log, written)
        /\ tx.head = HeadAt(log, w, db.root) /\ Len(log) < tx.id /\ tx.id <= written
        /\ db.active
    <2>1. /\ ChainOf(log, w, db.root) /\ Numbered(log, written) /\ Len(log) < tx.id
          /\ tx.id <= written /\ db.active /\ HeadOf(log, tx.head, w, db.root)
      BY <1>1 DEF TxExtends, FleetMatches
    <2>2. ASSUME CutAt(log, tx.head, w, db.root) PROVE FALSE
      <3>1. log # <<>> /\ tx.head.sequence = Len(log) - 1
        BY <2>2 DEF CutAt
      <3>2. Len(log) \in 1 .. Len(log) /\ Len(log) \in DOMAIN log
        BY <1>3, <3>1
      <3>3. log[Len(log)].sequence = Len(log)
        BY <2>1, <3>2 DEF ChainOf
      <3>4. QED
        BY <1>1, <1>3, <3>1, <3>2, <3>3
    <2>3. QED
      BY <2>1, <2>2 DEF HeadOf
  <1>5. tx.head.sequence = Len(log) /\ tx.head.hash = HashAt(log, w, db.root, Len(log))
        /\ tx.head.hash \in Hash
    BY <1>3, <1>4 DEF HeadAt, ChainHead
  <1>6. EntryHash(tx.head.hash, tx.id) \in Hash
    <2>1. tx.head.hash.workspace \in Workspaces /\ tx.head.hash.root \in SUBSET Ids
          /\ tx.head.hash.ids \in Seq(Ids)
      BY <1>5 DEF Hash
    <2>2. Append(tx.head.hash.ids, tx.id) \in Seq(Ids)
      BY <1>3, <2>1, AppendProperties
    <2>3. QED
      BY <2>1, <2>2 DEF EntryHash, Hash
  <1>7. row \in Entry
    <2>1. tx.head.sequence + 1 \in Ids
      BY <1>3, <1>4, <1>5 DEF Ids
    <2>2. QED
      BY <1>3, <1>5, <1>6, <2>1 DEF Entry
  <1>8. row.id = tx.id /\ row.sequence = Len(log) + 1
        /\ row.previous = HashAt(log, w, db.root, Len(log))
        /\ row.hash = EntryHash(row.previous, row.id)
    BY <1>5
  <1> HIDE DEF row
  <1>9. ChainOf(new, w, db.root)
    BY <1>3, <1>4, <1>7, <1>8, ChainExtends
  <1>10. /\ new \in Seq(Entry) /\ new # <<>> /\ Len(new) = Len(log) + 1
         /\ \A i \in 1 .. Len(log) : new[i] = log[i]
         /\ new[Len(log) + 1] = row
    BY <1>3, <1>7, AppendProperties
  <1> HIDE DEF new
  <1>11. Numbered(new, written)
    <2>1. ASSUME NEW i \in 1 .. Len(new)
          PROVE  i <= new[i].id /\ new[i].id <= written
      <3>1. CASE i \in 1 .. Len(log)
        BY <1>4, <1>10, <3>1 DEF Numbered
      <3>2. CASE i = Len(log) + 1
        <4>1. tx.id \in Nat
          BY <1>3 DEF Ids
        <4>2. QED
          BY <1>3, <1>4, <1>8, <1>10, <3>2, <4>1
      <3>3. QED
        BY <1>3, <1>10, <3>1, <3>2
    <2>2. QED
      BY <2>1 DEF Numbered
  <1>12. tx' \in Transaction /\ tx'.step = "advance" /\ tx'.workspace = w /\ tx'.log = new
         /\ tx'.head = tx.head
    BY <1>1, <1>2, <1>10 DEF Transaction
  <1>13. Len(new) <= MaxEntries
    <2>1. tx.id \in Nat
      BY <1>3 DEF Ids
    <2>2. QED
      BY <1>1, <1>3, <1>4, <1>10, <2>1
  <1>14. CutAt(new, tx.head, w, db.root)
    <2>1. Len(log) \in 0 .. Len(log)
      BY <1>3
    <2>2. HashAt(new, w, db.root, Len(log)) = HashAt(log, w, db.root, Len(log))
      BY <1>3, <1>7, <2>1, HashPrefix DEF new
    <2>3. Len(new) - 1 = Len(log)
      BY <1>3, <1>10
    <2>4. QED
      BY <1>4, <1>10, <2>2, <2>3 DEF CutAt, HeadAt
  <1>15. TxExtends'
    BY <1>1, <1>9, <1>11, <1>12, <1>13, <1>14 DEF TxExtends, HeadOf
  <1>16. AuditTyped' /\ FleetMatches' /\ CheckpointsMatch'
    BY <1>1, <1>4, <1>12 DEF AuditTyped, FleetMatches, CheckpointsMatch
  <1>17. QED
    BY <1>1, <1>15, <1>16 DEF AuditInv

LEMMA AppendAdvanceStep ==
    ASSUME AuditInv, AppendAdvance, runner' = runner
    PROVE  AuditInv'
  <1> USE EntriesAssumption, NullAssumption
  <1>1. /\ Sound(db, written) /\ AuditTyped /\ FleetMatches /\ TxExtends /\ CheckpointsMatch
        /\ db \in Database /\ tx # NoTx /\ tx \in Transaction /\ tx.step = "advance"
        /\ UNCHANGED <<db, checkpoint, written, fleet>>
    BY DEF AuditInv, AppendAdvance, Sound, AuditTyped
  <1> DEFINE w == tx.workspace
             log == tx.log
             head == [sequence |-> Last(log).sequence, hash |-> Last(log).hash]
  <1>2. tx' = [tx EXCEPT !.step = "commit", !.head = head]
    BY DEF AppendAdvance
  <1>3. /\ w \in Workspaces /\ log \in Seq(Entry) /\ Len(log) \in Nat
    BY <1>1 DEF Transaction
  <1>4. /\ ChainOf(log, w, db.root) /\ Numbered(log, written) /\ log # <<>> /\ Len(log) <= MaxEntries
        /\ db.active
    BY <1>1 DEF TxExtends, FleetMatches, CutAt
  <1>5. /\ Last(log) \in Entry
        /\ Last(log).sequence = Len(log) /\ Last(log).hash = HashAt(log, w, db.root, Len(log))
    BY <1>3, <1>4, LastOf DEF ChainOf
  <1>6. head = HeadAt(log, w, db.root)
    BY <1>5 DEF HeadAt
  <1>7. head \in ChainHead
    BY <1>3, <1>4, <1>5 DEF Entry, ChainHead
  <1> HIDE DEF head
  <1>8. tx' \in Transaction /\ tx'.step = "commit" /\ tx'.workspace = w /\ tx'.log = log
        /\ tx'.head = head
    BY <1>1, <1>2, <1>7 DEF Transaction
  <1>9. TxExtends'
    BY <1>1, <1>4, <1>6, <1>8 DEF TxExtends, HeadOf
  <1>10. AuditTyped' /\ FleetMatches' /\ CheckpointsMatch'
    BY <1>1, <1>4, <1>8 DEF AuditTyped, FleetMatches, CheckpointsMatch
  <1>11. QED
    BY <1>1, <1>9, <1>10 DEF AuditInv

LEMMA CommitStep ==
    ASSUME AuditInv, Commit \/ CommitLeft, runner' = runner
    PROVE  AuditInv'
  <1> USE EntriesAssumption, NullAssumption
  <1>1. /\ Sound(db, written) /\ AuditTyped /\ FleetMatches /\ TxExtends /\ CheckpointsMatch
        /\ db \in Database /\ tx # NoTx /\ tx \in Transaction
        /\ db' = [db EXCEPT !.log[tx.workspace] = tx.log, !.head[tx.workspace] = tx.head]
        /\ tx' = NoTx
        /\ UNCHANGED <<checkpoint, written, fleet>>
    BY DEF AuditInv, Commit, CommitLeft, Store, Sound, AuditTyped
  <1> DEFINE w == tx.workspace
             log == tx.log
  <1>2. /\ w \in Workspaces /\ log \in Seq(Entry) /\ tx.head \in ChainHead
    BY <1>1 DEF Transaction
  <1>3. /\ ChainOf(log, w, db.root) /\ Numbered(log, written)
        /\ HeadOf(log, tx.head, w, db.root) /\ db.active /\ fleet \in Chained
    BY <1>1 DEF TxExtends, FleetMatches
  <1>4. /\ db.log \in [Workspaces -> Seq(Entry)] /\ db.head \in [Workspaces -> ChainHead \cup {NoHead}]
    BY <1>1, DatabaseFields
  <1>5. /\ db'.log = [db.log EXCEPT ![w] = log] /\ db'.head = [db.head EXCEPT ![w] = tx.head]
        /\ db'.version = db.version /\ db'.legacy = db.legacy /\ db'.root = db.root
        /\ db'.active = db.active /\ db' \in Database
    <2>1. db' = [db EXCEPT !.log = [db.log EXCEPT ![w] = log], !.head = [db.head EXCEPT ![w] = tx.head]]
      BY <1>1 DEF Database
    <2>2. [db.log EXCEPT ![w] = log] \in [Workspaces -> Seq(Entry)]
          /\ [db.head EXCEPT ![w] = tx.head] \in [Workspaces -> ChainHead \cup {NoHead}]
      BY <1>2, <1>4
    <2>3. QED
      BY <1>1, <2>1, <2>2 DEF Database
  <1>6. db.version # 0
    BY <1>1, <1>3 DEF FleetMatches, Chained
  <1>7. Chain(db')
    <2>1. ASSUME NEW v \in Workspaces
          PROVE  /\ ChainOf(db'.log[v], v, db'.root)
                 /\ \/ HeadOf(db'.log[v], db'.head[v], v, db'.root)
                    \/ db'.head[v] = NoHead /\ db'.log[v] = <<>>
      <3>1. CASE v = w
        <4>1. db'.log[v] = log /\ db'.head[v] = tx.head
          BY <1>2, <1>4, <1>5, <3>1
        <4>2. QED
          BY <1>3, <1>5, <3>1, <4>1
      <3>2. CASE v # w
        <4>1. db'.log[v] = db.log[v] /\ db'.head[v] = db.head[v]
          BY <1>2, <1>4, <1>5, <3>2
        <4>2. QED
          BY <1>1, <1>3, <1>5, <4>1 DEF Sound, Chain
      <3>3. QED
        BY <3>1, <3>2
    <2>2. db'.root = db'.legacy
      BY <1>1, <1>3, <1>5 DEF Sound, Chain
    <2>3. QED
      BY <2>1, <2>2 DEF Chain
  <1>8. \A v \in Workspaces : Numbered(db'.log[v], written)
    <2>1. ASSUME NEW v \in Workspaces PROVE Numbered(db'.log[v], written)
      <3>1. CASE v = w
        BY <1>2, <1>3, <1>4, <1>5, <3>1
      <3>2. CASE v # w
        BY <1>1, <1>2, <1>4, <1>5, <3>2 DEF Sound
      <3>3. QED
        BY <3>1, <3>2
    <2>2. QED
      BY <2>1
  <1>9. Sound(db', written)
    BY <1>3, <1>5, <1>6, <1>7, <1>8 DEF Sound, Fresh
  <1>10. AuditTyped' /\ FleetMatches' /\ CheckpointsMatch' /\ TxExtends'
    BY <1>1, <1>3, <1>5 DEF AuditTyped, FleetMatches, CheckpointsMatch, TxExtends
  <1>11. QED
    BY <1>1, <1>9, <1>10 DEF AuditInv

LEMMA CancelledStep ==
    ASSUME AuditInv, AppendCancelled, runner' = runner
    PROVE  AuditInv'
  <1>1. /\ Sound(db, written) /\ AuditTyped /\ FleetMatches /\ TxExtends /\ CheckpointsMatch
        /\ tx # NoTx /\ tx \in Transaction
        /\ UNCHANGED <<db, checkpoint, written, fleet>>
    BY DEF AuditInv, AppendCancelled, AuditTyped
  <1>2. tx' \in Transaction /\ tx'.step = "left" /\ tx'.workspace = tx.workspace
        /\ tx'.log = tx.log /\ tx'.head = tx.head
    BY <1>1 DEF AppendCancelled, Transaction
  <1>3. TxExtends' /\ AuditTyped' /\ FleetMatches' /\ CheckpointsMatch'
    BY <1>1, <1>2 DEF TxExtends, AuditTyped, FleetMatches, CheckpointsMatch
  <1>4. QED
    BY <1>1, <1>3 DEF AuditInv

LEMMA RollbackStep ==
    ASSUME AuditInv, Rollback, runner' = runner
    PROVE  AuditInv'
  BY DEF Rollback, AuditInv, AuditTyped, FleetMatches, TxExtends, CheckpointsMatch

LEMMA TakeCheckpointStep ==
    ASSUME AuditInv, NEW w \in Workspaces, TakeCheckpoint(w), runner' = runner
    PROVE  AuditInv'
  <1> USE EntriesAssumption, NullAssumption
  <1>1. /\ Sound(db, written) /\ AuditTyped /\ FleetMatches /\ TxExtends /\ CheckpointsMatch
        /\ db \in Database /\ fleet \in Chained /\ db.log[w] # <<>>
        /\ UNCHANGED <<db, tx, written, fleet>>
    BY DEF AuditInv, TakeCheckpoint, Sound
  <1> DEFINE log == db.log[w]
             e == Last(log)
             taken == [sequence |-> e.sequence, hash |-> e.hash]
  <1>2. checkpoint' = [checkpoint EXCEPT ![w] = taken]
    BY DEF TakeCheckpoint
  <1>3. log \in Seq(Entry) /\ Len(log) \in Nat
    BY <1>1, DatabaseFields
  <1>4. e \in Entry /\ e = log[Len(log)] /\ Len(log) \in 1 .. Len(log) /\ Len(log) >= 1
    BY <1>1, <1>3, LastOf
  <1>5. db.active
    BY <1>1 DEF Sound, Unused
  <1>6. e.sequence = Len(log) /\ e.hash = HashAt(log, w, db.root, Len(log))
    BY <1>1, <1>4, <1>5 DEF Sound, Chain, ChainOf
  <1>7. e.sequence \in 0 .. MaxEntries /\ e.hash \in Hash
    BY <1>4 DEF Entry, Ids
  <1>8. e.hash.workspace = w /\ Len(e.hash.ids) = Len(log)
    <2>1. e.hash.workspace = w /\ e.hash.ids = [j \in 1 .. Len(log) |-> log[j].id]
      BY <1>6 DEF HashAt
    <2>2. Len([j \in 1 .. Len(log) |-> log[j].id]) = Len(log)
      BY <1>3
    <2>3. QED
      BY <2>1, <2>2
  <1> HIDE DEF e
  <1>9. /\ taken \in ChainHead /\ taken.sequence >= 1 /\ taken.hash.workspace = w
        /\ Len(taken.hash.ids) = taken.sequence
    BY <1>4, <1>6, <1>7, <1>8 DEF ChainHead
  <1> HIDE DEF taken
  <1>10. checkpoint \in [Workspaces -> ChainHead \cup {NoCheckpoint}]
    BY <1>1 DEF AuditTyped
  <1>11. checkpoint' \in [Workspaces -> ChainHead \cup {NoCheckpoint}]
    BY <1>2, <1>9, <1>10
  <1>12. CheckpointsMatch'
    BY <1>1, <1>2, <1>9, <1>10 DEF CheckpointsMatch
  <1>13. AuditTyped' /\ FleetMatches' /\ TxExtends'
    BY <1>1, <1>11 DEF AuditTyped, FleetMatches, TxExtends
  <1>14. QED
    BY <1>1, <1>12, <1>13 DEF AuditInv

LEMMA AuditStep ==
    ASSUME CoreInv, AuditNext, UNCHANGED upgradeVars
    PROVE  CoreInv'
  <1>1. runner' = runner /\ AuditInv
    BY DEF upgradeVars, CoreInv
  <1>2. AuditInv'
    BY <1>1, LegacyInsertStep, AppendBeginStep, AppendInsertStep, AppendAdvanceStep, CommitStep,
       CancelledStep, RollbackStep, TakeCheckpointStep DEF AuditNext
  <1>3. QED
    BY <1>2, AuditKeepsUpgrades DEF CoreInv

-----------------------------------------------------------------------------
(* Steps of upgrades and restores.                                         *)

LEMMA AuditUnchanged ==
    ASSUME AuditInv, UNCHANGED auditVars, fleet = 0 \/ runner' = Nothing
    PROVE  AuditInv'
  <1>1. UNCHANGED <<db, tx, checkpoint, written, fleet>>
    BY DEF auditVars
  <1>2. Sound(db, written)' /\ AuditTyped' /\ FleetMatches' /\ TxExtends' /\ CheckpointsMatch'
    BY <1>1 DEF AuditInv, AuditTyped, FleetMatches, TxExtends, CheckpointsMatch
  <1>3. QED
    BY <1>2 DEF AuditInv

\* The attempt a runner works on.
LEMMA MineTyped ==
    ASSUME CoreInv, runner # Nothing
    PROVE  /\ runner \in Runner /\ runner.release \in Releases
           /\ Mine \in Receipt /\ Mine # Nothing /\ Mine.attempt \in Attempts
           /\ Mine.before \in Database
           /\ Mine.digest \in Database \cup {Nothing}
           /\ MyBackup \in Database \cup {Nothing}
           /\ fleet = 0 /\ tx = NoTx
  <1>1. runner \in Runner /\ runner.release \in Releases /\ Mine # Nothing
    BY DEF CoreInv, UpgradeInv, UpgradeTyped, RunnerMatches, Runner
  <1>2. receipt \in [Releases -> Receipt \cup {Nothing}]
        /\ backups \in [Releases -> [Attempts -> Database \cup {Nothing}]]
    BY DEF CoreInv, UpgradeInv, UpgradeTyped
  <1>3. Mine \in Receipt
    BY <1>1, <1>2 DEF Mine
  <1>4. Mine.attempt \in Attempts /\ Mine.before \in Database
        /\ Mine.digest \in Database \cup {Nothing}
    BY <1>3 DEF Receipt
  <1>5. MyBackup \in Database \cup {Nothing}
    BY <1>1, <1>2, <1>4 DEF MyBackup, BackupOf, Mine
  <1>6. fleet = 0
    BY DEF CoreInv, AuditInv, FleetMatches
  <1>7. tx = NoTx
    BY <1>6 DEF CoreInv, AuditInv, FleetMatches, Chained
  <1>8. QED
    BY <1>1, <1>3, <1>4, <1>5, <1>6, <1>7

\* A receipt of the same attempt keeps what is known of the backups.
LEMMA ReceiptRewritten ==
    ASSUME UpgradeInv, NEW r \in Releases, receipt[r] # Nothing, NEW new \in Receipt,
           new.attempt = receipt[r].attempt, new.before = receipt[r].before,
           receipt' = [receipt EXCEPT ![r] = new], UNCHANGED <<backups, written>>
    PROVE  /\ receipt' \in [Releases -> Receipt \cup {Nothing}]
           /\ receipt'[r] = new /\ \A s \in Releases : s # r => receipt'[s] = receipt[s]
           /\ BackupsSound' /\ ReceiptsMatch'
  <1> USE NothingAssumption
  <1>1. receipt \in [Releases -> Receipt \cup {Nothing}] /\ BackupsSound /\ ReceiptsMatch
    BY DEF UpgradeInv, UpgradeTyped
  <1>2. receipt' \in [Releases -> Receipt \cup {Nothing}]
        /\ receipt'[r] = new /\ \A s \in Releases : s # r => receipt'[s] = receipt[s]
    BY <1>1
  <1>3. \A s \in Releases :
            /\ receipt'[s] = Nothing <=> receipt[s] = Nothing
            /\ receipt'[s] # Nothing => receipt'[s].attempt = receipt[s].attempt
                                        /\ receipt'[s].before = receipt[s].before
    BY <1>2
  <1>4. ReceiptsMatch'
    BY <1>1, <1>3 DEF ReceiptsMatch, BackupOf
  <1>5. BackupsSound'
    BY <1>1, <1>3 DEF BackupsSound
  <1>6. QED
    BY <1>2, <1>4, <1>5

\* Record writes a status and a digest.
LEMMA RecordRewrites ==
    ASSUME CoreInv, runner # Nothing, NEW status \in Statuses,
           NEW digest \in Database \cup {Nothing},
           Record(status, digest), UNCHANGED <<backups, written>>
    PROVE  /\ receipt' \in [Releases -> Receipt \cup {Nothing}]
           /\ receipt'[runner.release].status = status
           /\ receipt'[runner.release].digest = digest
           /\ receipt'[runner.release].planned = Mine.planned
           /\ receipt'[runner.release].before = Mine.before
           /\ receipt'[runner.release].attempt = Mine.attempt
           /\ receipt'[runner.release] # Nothing
           /\ \A s \in Releases : s # runner.release => receipt'[s] = receipt[s]
           /\ BackupsSound' /\ ReceiptsMatch'
  <1> USE NothingAssumption
  <1> DEFINE r == runner.release
             new == [receipt[r] EXCEPT !.status = status, !.digest = digest]
  <1>1. r \in Releases /\ receipt[r] \in Receipt /\ receipt[r] # Nothing
    BY MineTyped DEF Mine
  <1>2. /\ new \in Receipt /\ new.attempt = receipt[r].attempt /\ new.before = receipt[r].before
        /\ new.planned = receipt[r].planned /\ new.status = status /\ new.digest = digest
    BY <1>1 DEF Receipt
  <1>3. receipt' = [receipt EXCEPT ![r] = new]
    BY <1>1 DEF Record, CoreInv, UpgradeInv, UpgradeTyped, Receipt
  <1> HIDE DEF new
  <1>4. QED
    BY <1>1, <1>2, <1>3, ReceiptRewritten DEF Mine, CoreInv

LEMMA FleetSteps ==
    ASSUME CoreInv, (\E image \in Images : FleetStart(image)) \/ FleetStop
    PROVE  CoreInv'
  <1>1. /\ UNCHANGED <<db, checkpoint, written, receipt, backups, runner, faults>>
        /\ runner = Nothing
    BY DEF FleetStart, FleetStop, upgradeVars, CoreInv, AuditInv, FleetMatches
  <1>2. AuditInv'
    <2>1. CASE \E image \in Images : FleetStart(image)
      <3>1. PICK image \in Images : FleetStart(image)
        BY <2>1
      <3>2. db.version = image /\ fleet' = image /\ tx' = tx /\ fleet = 0 /\ tx = NoTx
        BY <3>1 DEF FleetStart, Boots, CoreInv, AuditInv, FleetMatches, Chained
      <3>3. AuditTyped' /\ FleetMatches' /\ TxExtends' /\ CheckpointsMatch'
        BY <1>1, <3>2 DEF CoreInv, AuditInv, AuditTyped, FleetMatches, TxExtends, CheckpointsMatch,
                          Versions
      <3>4. QED
        BY <1>1, <3>3 DEF CoreInv, AuditInv
    <2>2. CASE FleetStop
      <3>1. fleet' = 0 /\ tx' = NoTx
        BY <2>2 DEF FleetStop
      <3>2. AuditTyped' /\ FleetMatches' /\ TxExtends' /\ CheckpointsMatch'
        BY <1>1, <3>1 DEF CoreInv, AuditInv, AuditTyped, FleetMatches, TxExtends, CheckpointsMatch,
                          Versions
      <3>3. QED
        BY <1>1, <3>2 DEF CoreInv, AuditInv
    <2>3. QED
      BY <2>1, <2>2
  <1>3. UpgradeInv'
    BY <1>1 DEF CoreInv, UpgradeInv, UpgradeTyped, BackupsSound, ReceiptsMatch, BackupOf, RunnerMatches
  <1>4. QED
    BY <1>2, <1>3 DEF CoreInv

LEMMA UpgradeStartStep ==
    ASSUME CoreInv, NEW r \in Releases, UpgradeStart(r)
    PROVE  CoreInv'
  <1> USE NothingAssumption
  <1>1. /\ UNCHANGED <<db, tx, checkpoint, written, fleet, backups, faults>>
        /\ fleet = 0 /\ runner = Nothing /\ r \in Releases
    BY DEF UpgradeStart, Offline, auditVars
  <1>2. AuditInv'
    BY <1>1, AuditUnchanged DEF CoreInv, auditVars
  <1>3. /\ UpgradeTyped /\ BackupsSound /\ ReceiptsMatch
        /\ receipt \in [Releases -> Receipt \cup {Nothing}]
        /\ db \in Database /\ (Fresh(db) => db = FreshDb)
    BY DEF CoreInv, UpgradeInv, UpgradeTyped, AuditInv, Sound
  <1> DEFINE n == IF receipt[r] = Nothing THEN 1 ELSE receipt[r].attempt + 1
             planned == Mutates(db, LastVersion[r]) /\ ~Fresh(db)
             new == [status |-> "running", attempt |-> n, planned |-> planned,
                     digest |-> Nothing, before |-> db]
  <1>4. /\ n \in Attempts /\ receipt' = [receipt EXCEPT ![r] = new]
        /\ runner' = [release |-> r, step |-> IF planned THEN "copy" ELSE "migrate"]
    BY DEF UpgradeStart
  <1>5. \A m \in Attempts : backups[r][m] # Nothing => m < n
    <2>1. ASSUME NEW m \in Attempts, backups[r][m] # Nothing
          PROVE  m < n
      <3>1. receipt[r] # Nothing /\ m <= receipt[r].attempt
        BY <1>3, <2>1 DEF BackupsSound
      <3>2. receipt[r] \in Receipt
        BY <1>3, <3>1
      <3>3. receipt[r].attempt \in Nat /\ m \in Nat
        BY <3>2 DEF Receipt, Attempts
      <3>4. QED
        BY <3>1, <3>3
    <2>2. QED
      BY <2>1
  <1>6. n \in Nat
    BY <1>4 DEF Attempts
  <1>7. planned \in BOOLEAN
    BY DEF Mutates, RepairsNeeded, Fresh
  <1> HIDE DEF n, planned
  <1>8. /\ new \in Receipt /\ new.attempt = n /\ new.planned = planned
        /\ new.digest = Nothing /\ new.before = db
    BY <1>3, <1>4, <1>7 DEF Receipt, Statuses
  <1> HIDE DEF new
  <1>9. /\ receipt' \in [Releases -> Receipt \cup {Nothing}]
        /\ receipt'[r] = new /\ new # Nothing
        /\ \A s \in Releases : s # r => receipt'[s] = receipt[s]
    BY <1>3, <1>4, <1>8
  <1>10. /\ runner' \in Runner /\ runner'.release = r /\ runner'.step \in {"copy", "migrate"}
         /\ runner'.step = "copy" <=> planned
    BY <1>4, <1>7 DEF Runner, UpgradeSteps
  <1>11. UpgradeTyped'
    BY <1>1, <1>3, <1>9, <1>10 DEF UpgradeTyped
  <1>12. BackupsSound'
    <2>1. ASSUME NEW s \in Releases, NEW m \in Attempts
          PROVE  /\ backups[s][m] \in Database => Sound(backups[s][m], written)
                 /\ backups[s][m] # Nothing => receipt'[s] # Nothing /\ m <= receipt'[s].attempt
      <3>1. CASE s = r
        <4>1. m \in Nat
          BY DEF Attempts
        <4>2. QED
          BY <1>3, <1>5, <1>6, <1>8, <1>9, <3>1, <4>1 DEF BackupsSound
      <3>2. CASE s # r
        BY <1>3, <1>9, <3>2 DEF BackupsSound
      <3>3. QED
        BY <3>1, <3>2
    <2>2. QED
      BY <1>1, <2>1 DEF BackupsSound
  <1>13. backups[r][n] = Nothing
    BY <1>4, <1>5, <1>6
  <1>14. ReceiptsMatch'
    <2>1. ASSUME NEW s \in Releases, receipt'[s] # Nothing
          PROVE  /\ Fresh(receipt'[s].before) => receipt'[s].before = FreshDb
                 /\ backups[s][receipt'[s].attempt] \in {Nothing, FreshDb, Torn, receipt'[s].before}
      <3>1. CASE s = r
        BY <1>3, <1>8, <1>9, <1>13, <3>1
      <3>2. CASE s # r
        BY <1>3, <1>9, <2>1, <3>2 DEF ReceiptsMatch, BackupOf
      <3>3. QED
        BY <3>1, <3>2
    <2>2. QED
      BY <1>1, <2>1 DEF ReceiptsMatch, BackupOf
  <1>15. RunnerMatches'
    BY <1>1, <1>8, <1>9, <1>10 DEF RunnerMatches, At, Mine
  <1>16. QED
    BY <1>2, <1>11, <1>12, <1>14, <1>15 DEF CoreInv, UpgradeInv

LEMMA RestoreNothingStep ==
    ASSUME CoreInv, NEW r \in Releases, RestoreNothing(r)
    PROVE  CoreInv'
  <1> USE NothingAssumption
  <1>1. /\ UNCHANGED <<db, tx, checkpoint, written, fleet, backups, runner, faults>>
        /\ fleet = 0 /\ runner = Nothing
        /\ receipt' = [receipt EXCEPT ![r].status = "rolled_back"]
    BY DEF RestoreNothing, Offline, auditVars
  <1>2. AuditInv'
    BY <1>1, AuditUnchanged DEF CoreInv, auditVars
  <1>3. UpgradeInv /\ UpgradeTyped
    BY DEF CoreInv, UpgradeInv
  <1>4. receipt[r] # Nothing /\ receipt[r] \in Receipt
    BY <1>3 DEF RestoreNothing, HadNothingToDo, StatusOf, UpgradeTyped
  <1> DEFINE new == [receipt[r] EXCEPT !.status = "rolled_back"]
  <1>5. new \in Receipt /\ new.attempt = receipt[r].attempt /\ new.before = receipt[r].before
    BY <1>4 DEF Receipt, Statuses
  <1>6. receipt' = [receipt EXCEPT ![r] = new]
    BY <1>1
  <1> HIDE DEF new
  <1>7. receipt' \in [Releases -> Receipt \cup {Nothing}] /\ BackupsSound' /\ ReceiptsMatch'
    BY <1>1, <1>3, <1>4, <1>5, <1>6, ReceiptRewritten
  <1>8. UpgradeTyped' /\ RunnerMatches'
    BY <1>1, <1>3, <1>7 DEF UpgradeTyped, RunnerMatches
  <1>9. QED
    BY <1>2, <1>7, <1>8 DEF CoreInv, UpgradeInv

LEMMA RestoreStartStep ==
    ASSUME CoreInv, NEW r \in Releases, RestoreStart(r)
    PROVE  CoreInv'
  <1> USE NothingAssumption
  <1>1. /\ UNCHANGED <<db, tx, checkpoint, written, fleet, backups, faults>>
        /\ fleet = 0 /\ runner = Nothing
        /\ runner' = [release |-> r, step |-> "unlink"]
    BY DEF RestoreStart, Offline, auditVars
  <1>2. AuditInv'
    BY <1>1, AuditUnchanged DEF CoreInv, auditVars
  <1>3. /\ UpgradeInv /\ UpgradeTyped /\ BackupsSound /\ ReceiptsMatch
        /\ receipt \in [Releases -> Receipt \cup {Nothing}]
        /\ backups \in [Releases -> [Attempts -> Database \cup {Nothing}]]
    BY DEF CoreInv, UpgradeInv, UpgradeTyped
  <1>4. receipt[r] # Nothing /\ receipt[r] \in Receipt /\ receipt[r].status # "rolled_back"
    BY <1>3 DEF RestoreStart, StatusOf
  <1>5. runner' \in Runner /\ runner'.release = r /\ runner'.step = "unlink"
    BY <1>1 DEF Runner, RestoreSteps
  <1>6. CASE Fresh(receipt[r].before) /\ UNCHANGED receipt
    <2>1. UpgradeTyped' /\ BackupsSound' /\ ReceiptsMatch'
      BY <1>1, <1>3, <1>5, <1>6 DEF UpgradeTyped, BackupsSound, ReceiptsMatch, BackupOf
    <2>2. RunnerMatches'
      BY <1>4, <1>5, <1>6 DEF RunnerMatches, At, Mine
    <2>3. QED
      BY <1>2, <2>1, <2>2 DEF CoreInv, UpgradeInv
  <1>7. CASE BackupOf(r) # Nothing /\ receipt' = [receipt EXCEPT ![r].digest = BackupOf(r)]
    <2> DEFINE new == [receipt[r] EXCEPT !.digest = BackupOf(r)]
    <2>1. BackupOf(r) \in Database \cup {Nothing}
      <3>1. receipt[r].attempt \in Attempts
        BY <1>4 DEF Receipt
      <3>2. QED
        BY <1>3, <3>1 DEF BackupOf
    <2>2. /\ new \in Receipt /\ new.attempt = receipt[r].attempt /\ new.before = receipt[r].before
          /\ new.digest = BackupOf(r) /\ new.status # "rolled_back"
      BY <1>4, <2>1 DEF Receipt
    <2>3. receipt' = [receipt EXCEPT ![r] = new]
      BY <1>7
    <2> HIDE DEF new
    <2>4. /\ receipt' \in [Releases -> Receipt \cup {Nothing}] /\ BackupsSound' /\ ReceiptsMatch'
          /\ receipt'[r] = new /\ new # Nothing
      BY <1>1, <1>3, <1>4, <2>2, <2>3, ReceiptRewritten
    <2>5. UpgradeTyped'
      BY <1>1, <1>3, <1>5, <2>4 DEF UpgradeTyped
    <2>6. MyBackup' = BackupOf(r)
      BY <1>1, <1>5, <2>2, <2>4 DEF MyBackup, BackupOf
    <2>7. RunnerMatches'
      BY <1>5, <1>7, <2>2, <2>4, <2>6 DEF RunnerMatches, At, Mine
    <2>8. QED
      BY <1>2, <2>4, <2>5, <2>7 DEF CoreInv, UpgradeInv
  <1>8. QED
    BY <1>6, <1>7 DEF RestoreStart

\* The backup of the attempt at work becomes a copy of what it began with, or
\* what a killed copy leaves.
LEMMA BackupRewritten ==
    ASSUME CoreInv, runner # Nothing, NEW content,
           content \in {Nothing, FreshDb, Torn, Mine.before},
           content = Mine.before => Sound(content, written),
           SetBackup(content), UNCHANGED <<receipt, written>>
    PROVE  /\ backups' \in [Releases -> [Attempts -> Database \cup {Nothing}]]
           /\ backups'[runner.release][Mine.attempt] = content
           /\ BackupsSound' /\ ReceiptsMatch'
  <1> USE NothingAssumption
  <1> DEFINE r == runner.release
             n == Mine.attempt
  <1>1. /\ r \in Releases /\ n \in Attempts /\ Mine \in Receipt /\ Mine # Nothing
        /\ Mine.before \in Database
        /\ backups \in [Releases -> [Attempts -> Database \cup {Nothing}]]
        /\ backups' = [backups EXCEPT ![r][n] = content]
        /\ receipt[r] = Mine /\ UNCHANGED <<receipt, written>>
        /\ BackupsSound /\ ReceiptsMatch
    BY MineTyped DEF SetBackup, CoreInv, UpgradeInv, UpgradeTyped, Mine
  <1>2. content \in Database \cup {Nothing}
    BY <1>1, FreshSound, TornSound DEF Sound
  <1>3. content \in Database => Sound(content, written)
    BY <1>1, FreshSound, TornSound
  <1> HIDE DEF r, n
  <1>4. /\ backups' \in [Releases -> [Attempts -> Database \cup {Nothing}]]
        /\ \A s \in Releases, m \in Attempts :
             backups'[s][m] = IF s = r /\ m = n THEN content ELSE backups[s][m]
    BY <1>1, <1>2
  <1>5. BackupsSound'
    <2>1. ASSUME NEW s \in Releases, NEW m \in Attempts
          PROVE  /\ backups'[s][m] \in Database => Sound(backups'[s][m], written)
                 /\ backups'[s][m] # Nothing => receipt[s] # Nothing /\ m <= receipt[s].attempt
      <3>1. CASE s = r /\ m = n
        <4>1. m \in Nat
          BY DEF Attempts
        <4>2. backups'[s][m] = content /\ receipt[s] = Mine /\ m = Mine.attempt
          BY <1>1, <1>4, <3>1 DEF n
        <4>3. QED
          BY <1>1, <1>3, <4>1, <4>2
      <3>2. CASE ~(s = r /\ m = n)
        BY <1>1, <1>4, <3>2 DEF BackupsSound
      <3>3. QED
        BY <3>1, <3>2
    <2>2. QED
      BY <1>1, <2>1 DEF BackupsSound
  <1>6. ReceiptsMatch'
    <2>1. ASSUME NEW s \in Releases, receipt[s] # Nothing
          PROVE  /\ Fresh(receipt[s].before) => receipt[s].before = FreshDb
                 /\ backups'[s][receipt[s].attempt] \in {Nothing, FreshDb, Torn, receipt[s].before}
      <3>1. receipt[s].attempt \in Attempts
        BY <2>1 DEF CoreInv, UpgradeInv, UpgradeTyped, Receipt
      <3>2. CASE s = r
        BY <1>1, <1>4, <2>1, <3>1, <3>2 DEF ReceiptsMatch, BackupOf, n
      <3>3. CASE s # r
        BY <1>1, <1>4, <2>1, <3>1, <3>3 DEF ReceiptsMatch, BackupOf
      <3>4. QED
        BY <3>2, <3>3
    <2>2. QED
      BY <1>1, <2>1 DEF ReceiptsMatch, BackupOf
  <1>7. QED
    BY <1>1, <1>4, <1>5, <1>6 DEF r, n

LEMMA GoToTyped ==
    ASSUME runner \in Runner, NEW step \in UpgradeSteps \cup RestoreSteps, GoTo(step)
    PROVE  runner' \in Runner /\ runner'.release = runner.release /\ runner'.step = step
  BY DEF Runner, GoTo

LEMMA CopyStep ==
    ASSUME CoreInv, Copy
    PROVE  CoreInv'
  <1> USE NothingAssumption
  <1>1. /\ UNCHANGED <<db, tx, checkpoint, written, fleet, receipt, faults>>
        /\ runner # Nothing /\ SetBackup(db) /\ GoTo("digest") /\ runner.step = "copy"
    BY DEF Copy, At, auditVars
  <1>2. /\ Mine.planned /\ db = Mine.before /\ runner \in Runner /\ fleet = 0
        /\ Sound(db, written)
    BY <1>1, MineTyped DEF CoreInv, UpgradeInv, RunnerMatches, AuditInv, At
  <1>3. AuditInv'
    BY <1>1, <1>2, AuditUnchanged DEF CoreInv, auditVars
  <1>4. /\ backups' \in [Releases -> [Attempts -> Database \cup {Nothing}]]
        /\ backups'[runner.release][Mine.attempt] = db
        /\ BackupsSound' /\ ReceiptsMatch'
    BY <1>1, <1>2, BackupRewritten
  <1>5. runner' \in Runner /\ runner'.release = runner.release /\ runner'.step = "digest"
    BY <1>1, <1>2, GoToTyped DEF UpgradeSteps
  <1>6. UpgradeTyped'
    BY <1>1, <1>4, <1>5 DEF CoreInv, UpgradeInv, UpgradeTyped
  <1>7. Mine' = Mine /\ MyBackup' = db /\ Mine # Nothing
    BY <1>1, <1>4, <1>5, MineTyped DEF Mine, MyBackup, BackupOf
  <1>8. RunnerMatches'
    BY <1>2, <1>5, <1>7 DEF RunnerMatches, At
  <1>9. QED
    BY <1>3, <1>4, <1>6, <1>8 DEF CoreInv, UpgradeInv

LEMMA PersistDigestStep ==
    ASSUME CoreInv, PersistDigest
    PROVE  CoreInv'
  <1> USE NothingAssumption
  <1>1. /\ UNCHANGED <<db, tx, checkpoint, written, fleet, backups, faults>>
        /\ runner # Nothing /\ Record("running", MyBackup) /\ GoTo("migrate")
        /\ runner.step = "digest"
    BY DEF PersistDigest, At, auditVars
  <1>2. /\ Mine.planned /\ MyBackup = Mine.before /\ runner \in Runner /\ fleet = 0
        /\ MyBackup \in Database \cup {Nothing}
    BY <1>1, MineTyped DEF CoreInv, UpgradeInv, RunnerMatches, At
  <1>3. AuditInv'
    BY <1>1, <1>2, AuditUnchanged DEF CoreInv, auditVars
  <1>4. /\ receipt' \in [Releases -> Receipt \cup {Nothing}]
        /\ receipt'[runner.release].digest = MyBackup
        /\ receipt'[runner.release].before = Mine.before
        /\ receipt'[runner.release].attempt = Mine.attempt
        /\ receipt'[runner.release] # Nothing
        /\ BackupsSound' /\ ReceiptsMatch'
    BY <1>1, <1>2, RecordRewrites DEF Statuses
  <1>5. runner' \in Runner /\ runner'.release = runner.release /\ runner'.step = "migrate"
    BY <1>1, <1>2, GoToTyped DEF UpgradeSteps
  <1>6. UpgradeTyped'
    BY <1>1, <1>4, <1>5 DEF CoreInv, UpgradeInv, UpgradeTyped
  <1>7. /\ Mine'.digest = MyBackup /\ Mine'.before = Mine.before /\ Mine' # Nothing
        /\ MyBackup' = MyBackup
    BY <1>1, <1>4, <1>5 DEF Mine, MyBackup, BackupOf
  <1>8. RunnerMatches'
    BY <1>2, <1>5, <1>7 DEF RunnerMatches, At
  <1>9. QED
    BY <1>3, <1>4, <1>6, <1>8 DEF CoreInv, UpgradeInv

\* A migration keeps a sound database sound: it leaves an active chain alone,
\* and activates one that no entry uses yet.
LEMMA MigrateSound ==
    ASSUME CoreInv, Migrate
    PROVE  Sound(db', written)
  <1> USE NullAssumption, EntriesAssumption
  <1>1. Sound(db, written) /\ db \in Database
    BY DEF CoreInv, AuditInv, Sound
  <1>2. db' \in {MigrateUpTo174(db), Migrate175(db), Hook175(db), Migrate176(db), Migrate177(db)}
        \/ (db' = ActivateAuditChain(db) /\ ~db.active)
    BY DEF Migrate
  <1>3. CASE db' \in {MigrateUpTo174(db), Migrate175(db), Migrate176(db), Migrate177(db)}
    <2>0. PICK v \in Images : db' = [db EXCEPT !.version = v]
      BY <1>3 DEF MigrateUpTo174, Migrate175, Migrate176, Migrate177, Images
    <2>1. /\ db'.legacy = db.legacy /\ db'.root = db.root /\ db'.active = db.active
          /\ db'.log = db.log /\ db'.head = db.head /\ db' \in Database /\ db'.version # 0
      <3>1. v \in Versions /\ v # 0
        BY DEF Versions, Images
      <3>2. QED
        BY <1>1, <2>0, <3>1 DEF Database
    <2>2. QED
      BY <1>1, <2>1 DEF Sound, Fresh, Chain, Unused
  <1>4. CASE db' = Hook175(db) /\ db.version # 0
    <2>1. /\ db'.legacy = db.legacy /\ db'.root = db.legacy /\ db'.active = db.active
          /\ db'.log = db.log /\ db'.head = db.head /\ db' \in Database /\ db'.version # 0
      BY <1>1, <1>4 DEF Database, Hook175
    <2>2. QED
      BY <1>1, <2>1 DEF Sound, Fresh, Chain, Unused
  <1>5. CASE db' = ActivateAuditChain(db) /\ ~db.active /\ db.version # 0
    <2>1. /\ db'.legacy = db.legacy /\ db'.root = db.legacy /\ db'.active = TRUE
          /\ db'.log = db.log /\ db'.head = db.head /\ db' \in Database /\ db'.version # 0
      BY <1>1, <1>5 DEF Database, ActivateAuditChain
    <2>2. \A w \in Workspaces : db'.log[w] = <<>> /\ db'.head[w] = NoHead
      BY <1>1, <1>5, <2>1 DEF Sound, Unused
    <2>3. Chain(db')
      BY <2>1, <2>2 DEF Chain, ChainOf
    <2>4. QED
      BY <1>1, <2>1, <2>3 DEF Sound, Fresh
  <1>6. CASE db.version = 0
    <2>1. /\ db.version # 174 /\ ~(db.version >= 175) /\ db.version # 175
          /\ ~(db.version >= 176)
      BY <1>6
    <2>2. db' = MigrateUpTo174(db)
      BY <1>6, <2>1, Zenon DEF Migrate
    <2>3. QED
      BY <1>3, <2>2
  <1>7. QED
    BY <1>2, <1>3, <1>4, <1>5, <1>6

LEMMA MigrateStep ==
    ASSUME CoreInv, Migrate
    PROVE  CoreInv'
  <1>1. /\ UNCHANGED <<tx, checkpoint, written, fleet, receipt, backups, runner, faults>>
        /\ runner # Nothing /\ runner.step = "migrate"
    BY DEF Migrate, At, upgradeVars
  <1>2. fleet = 0 /\ tx = NoTx
    BY <1>1, MineTyped
  <1>3. AuditInv'
    BY <1>1, <1>2, MigrateSound
       DEF CoreInv, AuditInv, AuditTyped, FleetMatches, TxExtends, CheckpointsMatch
  <1>4. UpgradeTyped' /\ BackupsSound' /\ ReceiptsMatch'
    BY <1>1 DEF CoreInv, UpgradeInv, UpgradeTyped, BackupsSound, ReceiptsMatch, BackupOf
  <1>5. RunnerMatches'
    BY <1>1 DEF CoreInv, UpgradeInv, RunnerMatches, At, Mine, MyBackup, BackupOf
  <1>6. QED
    BY <1>3, <1>4, <1>5 DEF CoreInv, UpgradeInv

\* Steps that end the work and record it.
LEMMA EndingStep ==
    ASSUME CoreInv, UpgradeDone \/ UpgradeFailed \/ RestoreRecord
    PROVE  CoreInv'
  <1> USE NothingAssumption
  <1>1. /\ UNCHANGED <<db, tx, checkpoint, written, fleet, backups, faults>>
        /\ runner # Nothing /\ runner' = Nothing
    BY DEF UpgradeDone, UpgradeFailed, RestoreRecord, At, auditVars
  <1>2. AuditInv'
    BY <1>1, AuditUnchanged DEF CoreInv, auditVars
  <1>3. CASE UNCHANGED receipt
    <2>1. UpgradeTyped' /\ BackupsSound' /\ ReceiptsMatch' /\ RunnerMatches'
      BY <1>1, <1>3 DEF CoreInv, UpgradeInv, UpgradeTyped, BackupsSound, ReceiptsMatch, BackupOf,
                        RunnerMatches
    <2>2. QED
      BY <1>2, <2>1 DEF CoreInv, UpgradeInv
  <1>4. CASE \E status \in Statuses, digest \in Database \cup {Nothing} :
               Record(status, digest)
    <2>1. PICK status \in Statuses, digest \in Database \cup {Nothing} :
            Record(status, digest)
      BY <1>4
    <2>2. /\ receipt' \in [Releases -> Receipt \cup {Nothing}] /\ BackupsSound' /\ ReceiptsMatch'
      BY <1>1, <2>1, RecordRewrites
    <2>3. UpgradeTyped' /\ RunnerMatches'
      BY <1>1, <2>2 DEF CoreInv, UpgradeInv, UpgradeTyped, RunnerMatches
    <2>4. QED
      BY <1>2, <2>2, <2>3 DEF CoreInv, UpgradeInv
  <1>5. Mine.digest \in Database \cup {Nothing} /\ MyBackup \in Database \cup {Nothing}
    BY <1>1, MineTyped
  <1>6. (IF Mine.planned THEN MyBackup ELSE Nothing) \in Database \cup {Nothing}
    BY <1>5
  <1>7. "succeeded" \in Statuses /\ "failed" \in Statuses /\ "rolled_back" \in Statuses
    BY DEF Statuses
  <1>8. QED
    BY <1>3, <1>4, <1>5, <1>6, <1>7 DEF UpgradeDone, UpgradeFailed, RestoreRecord

LEMMA FailingStep ==
    ASSUME CoreInv, OlderImage \/ StepFails
    PROVE  CoreInv'
  <1> USE NothingAssumption
  <1>1. /\ UNCHANGED <<db, tx, checkpoint, written, fleet, receipt, backups>>
        /\ runner # Nothing /\ GoTo("fail") /\ faults' \in 0 .. MaxFaults
    BY BoundsAssumption DEF OlderImage, StepFails, At, auditVars, Fault, CoreInv, UpgradeInv,
         UpgradeTyped
  <1>2. runner \in Runner /\ fleet = 0 /\ Mine # Nothing
    BY <1>1, MineTyped
  <1>3. AuditInv'
    BY <1>1, <1>2, AuditUnchanged DEF CoreInv, auditVars
  <1>4. runner' \in Runner /\ runner'.release = runner.release /\ runner'.step = "fail"
    BY <1>1, <1>2, GoToTyped DEF UpgradeSteps
  <1>5. UpgradeTyped' /\ BackupsSound' /\ ReceiptsMatch'
    BY <1>1, <1>4 DEF CoreInv, UpgradeInv, UpgradeTyped, BackupsSound, ReceiptsMatch, BackupOf
  <1>6. RunnerMatches'
    BY <1>1, <1>2, <1>4 DEF RunnerMatches, At, Mine
  <1>7. QED
    BY <1>3, <1>5, <1>6 DEF CoreInv, UpgradeInv

\* A restore puts one of the two databases there that its receipt is about.
LEMMA ReplaceExact ==
    ASSUME CoreInv, RestoreReplace
    PROVE  /\ Sound(db', written)
           /\ db' = FreshDb \/ db' = Mine.before
           /\ db' = Mine.before \/ (MyBackup = FreshDb /\ ~Fresh(Mine.before))
  <1> USE NothingAssumption
  <1>1. /\ runner # Nothing /\ runner.step = "replace"
        /\ db' = IF Fresh(Mine.before) THEN FreshDb ELSE MyBackup
    BY DEF RestoreReplace, At
  <1>2. /\ Fresh(Mine.before) => Mine.before = FreshDb
        /\ MyBackup \in {Nothing, FreshDb, Torn, Mine.before}
        /\ Fresh(Mine.before) \/ MyBackup \notin {Nothing, Torn}
        /\ runner.release \in Releases
    BY <1>1, MineTyped DEF CoreInv, UpgradeInv, ReceiptsMatch, RunnerMatches, At, Mine, MyBackup
  <1>3. CASE Fresh(Mine.before)
    <2>1. db' = FreshDb
      BY <1>1, <1>3
    <2>2. QED
      BY <1>2, <1>3, <2>1, FreshSound
  <1>4. CASE ~Fresh(Mine.before)
    <2>1. db' = MyBackup /\ MyBackup \in {FreshDb, Mine.before}
      BY <1>1, <1>2, <1>4
    <2>2. Sound(MyBackup, written)
      <3>1. MyBackup \in Database /\ Mine.attempt \in Attempts
        BY <1>1, <2>1, MineTyped, FreshSound DEF Sound
      <3>2. QED
        BY <1>2, <3>1 DEF CoreInv, UpgradeInv, BackupsSound, MyBackup, BackupOf, Mine
    <2>3. QED
      BY <1>4, <2>1, <2>2
  <1>5. QED
    BY <1>3, <1>4

LEMMA RestoreReplaceStep ==
    ASSUME CoreInv, RestoreReplace
    PROVE  CoreInv'
  <1> USE NothingAssumption
  <1>1. /\ UNCHANGED <<tx, checkpoint, written, fleet, receipt, backups, faults>>
        /\ runner # Nothing /\ GoTo("record")
    BY DEF RestoreReplace, At
  <1>2. fleet = 0 /\ tx = NoTx /\ runner \in Runner /\ Mine # Nothing
    BY <1>1, MineTyped
  <1>3. AuditInv'
    BY <1>1, <1>2, ReplaceExact
       DEF CoreInv, AuditInv, AuditTyped, FleetMatches, TxExtends, CheckpointsMatch
  <1>4. BackupsSound' /\ ReceiptsMatch'
    BY <1>1 DEF CoreInv, UpgradeInv, BackupsSound, ReceiptsMatch, BackupOf
  <1>5. runner' \in Runner /\ runner'.release = runner.release /\ runner'.step = "record"
    BY <1>1, <1>2, GoToTyped DEF RestoreSteps
  <1>6. UpgradeTyped'
    BY <1>1, <1>5 DEF CoreInv, UpgradeInv, UpgradeTyped
  <1>7. Mine' = Mine
    BY <1>1, <1>5 DEF Mine
  <1>8. RunnerMatches'
    BY <1>2, <1>5, <1>7, ReplaceExact DEF RunnerMatches, At
  <1>9. QED
    BY <1>3, <1>4, <1>6, <1>8 DEF CoreInv, UpgradeInv

\* A restore that takes the sidecars away has what it goes on with.
LEMMA UnlinkRepeatable ==
    ASSUME CoreInv, RestoreUnlink
    PROVE  \/ db' = db /\ runner' = Nothing
           \/ /\ db' = file /\ GoTo("replace")
              /\ Mine.status # "rolled_back"
              /\ Fresh(Mine.before) \/ (Mine.digest = MyBackup /\ MyBackup \notin {Nothing, Torn})
  <1>1. runner # Nothing /\ runner.step = "unlink"
    BY DEF RestoreUnlink, At
  <1>2. /\ Mine.status # "rolled_back"
        /\ Fresh(Mine.before) \/ (Mine.digest = MyBackup /\ MyBackup # Nothing)
    BY <1>1 DEF CoreInv, UpgradeInv, RunnerMatches, At
  <1>3. QED
    BY <1>2 DEF RestoreUnlink

LEMMA RestoreUnlinkStep ==
    ASSUME IInv, RestoreUnlink
    PROVE  CoreInv'
  <1> USE NothingAssumption
  <1>1. /\ UNCHANGED <<tx, checkpoint, written, fleet, receipt, backups, faults>>
        /\ runner # Nothing /\ CoreInv /\ Sound(file, written)
    BY DEF RestoreUnlink, At, IInv, FileSound
  <1>2. fleet = 0 /\ tx = NoTx /\ runner \in Runner /\ Mine # Nothing
    BY <1>1, MineTyped
  <1>3. Sound(db', written)
    BY <1>1, UnlinkRepeatable DEF CoreInv, AuditInv
  <1>4. AuditInv'
    BY <1>1, <1>2, <1>3
       DEF CoreInv, AuditInv, AuditTyped, FleetMatches, TxExtends, CheckpointsMatch
  <1>5. BackupsSound' /\ ReceiptsMatch'
    BY <1>1 DEF CoreInv, UpgradeInv, BackupsSound, ReceiptsMatch, BackupOf
  <1>6. CASE runner' = Nothing
    BY <1>1, <1>4, <1>5, <1>6 DEF CoreInv, UpgradeInv, UpgradeTyped, RunnerMatches
  <1>7. CASE runner' # Nothing
    <2>1. /\ GoTo("replace")
          /\ Fresh(Mine.before) \/ MyBackup \notin {Nothing, Torn}
      BY <1>1, <1>7, UnlinkRepeatable
    <2>2. runner' \in Runner /\ runner'.release = runner.release /\ runner'.step = "replace"
      BY <1>2, <2>1, GoToTyped DEF RestoreSteps
    <2>3. UpgradeTyped'
      BY <1>1, <2>2 DEF CoreInv, UpgradeInv, UpgradeTyped
    <2>4. Mine' = Mine /\ MyBackup' = MyBackup
      BY <1>1, <2>2 DEF Mine, MyBackup, BackupOf
    <2>5. RunnerMatches'
      BY <1>2, <2>1, <2>2, <2>4 DEF RunnerMatches, At
    <2>6. QED
      BY <1>4, <1>5, <2>3, <2>5 DEF CoreInv, UpgradeInv
  <1>8. QED
    BY <1>6, <1>7

LEMMA CheckpointStep ==
    ASSUME CoreInv, Checkpoint
    PROVE  CoreInv'
  <1>1. /\ UNCHANGED <<auditVars, receipt, backups, runner, faults>>
        /\ fleet # 0 \/ runner # Nothing
    BY DEF Checkpoint, At
  <1>2. fleet = 0 \/ runner' = Nothing
    BY <1>1 DEF CoreInv, AuditInv, FleetMatches
  <1>3. AuditInv'
    BY <1>1, <1>2, AuditUnchanged DEF CoreInv
  <1>4. UNCHANGED <<db, written>>
    BY <1>1 DEF auditVars
  <1>5. UpgradeTyped' /\ BackupsSound' /\ ReceiptsMatch'
    BY <1>1, <1>4 DEF CoreInv, UpgradeInv, UpgradeTyped, BackupsSound, ReceiptsMatch, BackupOf
  <1>6. RunnerMatches'
    BY <1>1, <1>4 DEF CoreInv, UpgradeInv, RunnerMatches, At, Mine, MyBackup, BackupOf
  <1>7. QED
    BY <1>3, <1>5, <1>6 DEF CoreInv, UpgradeInv

LEMMA KillStep ==
    ASSUME CoreInv, Kill
    PROVE  CoreInv'
  <1> USE NothingAssumption
  <1>1. /\ UNCHANGED <<db, tx, checkpoint, written, fleet, receipt>>
        /\ runner # Nothing /\ runner' = Nothing /\ faults' \in 0 .. MaxFaults
    BY BoundsAssumption DEF Kill, auditVars, Fault, CoreInv, UpgradeInv, UpgradeTyped
  <1>2. AuditInv'
    BY <1>1, AuditUnchanged DEF CoreInv, auditVars
  <1>3. /\ backups' \in [Releases -> [Attempts -> Database \cup {Nothing}]]
        /\ BackupsSound' /\ ReceiptsMatch'
    <2>1. CASE UNCHANGED backups
      BY <1>1, <2>1 DEF CoreInv, UpgradeInv, UpgradeTyped, BackupsSound, ReceiptsMatch, BackupOf
    <2>2. CASE \E left \in {Nothing, FreshDb, Torn} : SetBackup(left)
      <3>1. PICK left \in {Nothing, FreshDb, Torn} : SetBackup(left)
        BY <2>2
      <3>2. left = Mine.before => Sound(left, written)
        <4>1. Mine.before \in Database
          BY <1>1, MineTyped
        <4>2. QED
          BY <3>1, <4>1, FreshSound, TornSound
      <3>3. QED
        BY <1>1, <3>1, <3>2, BackupRewritten
    <2>3. QED
      BY <2>1, <2>2 DEF Kill
  <1>4. UpgradeTyped' /\ RunnerMatches'
    BY <1>1, <1>3 DEF CoreInv, UpgradeInv, UpgradeTyped, RunnerMatches
  <1>5. QED
    BY <1>2, <1>3, <1>4 DEF CoreInv, UpgradeInv

-----------------------------------------------------------------------------
(* The invariant holds.                                                    *)

LEMMA IInvInit == Init => IInv
  <1> SUFFICES ASSUME Init PROVE IInv
    OBVIOUS
  <1> USE EntriesAssumption, BoundsAssumption
  <1>1. PICK v \in InitialVersions :
          db = [FreshDb EXCEPT !.version = v, !.root = IF v = 175 THEN {} ELSE NoRoot]
    BY DEF Init
  <1>2. v \in {0, 174, 175}
    BY InitialAssumption
  <1>3. /\ db \in Database /\ db.active = FALSE /\ db.version = v
        /\ \A w \in Workspaces : db.log[w] = <<>> /\ db.head[w] = NoHead
    <2> DEFINE d == FreshDb
               root == IF v = 175 THEN {} ELSE NoRoot
    <2>1. d \in Database
      BY FreshSound DEF Sound
    <2>2. db = [d EXCEPT !.version = v, !.root = root]
      BY <1>1
    <2>3. v \in Versions /\ root \in (SUBSET Ids) \cup {NoRoot}
      BY <1>2 DEF Versions, Images
    <2>4. \A w \in Workspaces : d.log[w] = <<>> /\ d.head[w] = NoHead
      BY DEF FreshDb
    <2>5. d.active = FALSE
      BY DEF FreshDb
    <2> HIDE DEF d, root
    <2>6. db \in Database /\ db.version = v
      BY <2>1, <2>2, <2>3 DEF Database
    <2>7. db.log = d.log /\ db.head = d.head /\ db.active = d.active
      BY <2>1, <2>2 DEF Database
    <2>8. QED
      BY <2>4, <2>5, <2>6, <2>7
  <1>4. Fresh(db) => db = FreshDb
    <2> DEFINE d == FreshDb
    <2>1. d \in Database /\ d.version = 0 /\ d.root = NoRoot
      BY FreshSound DEF Sound, FreshDb
    <2> HIDE DEF d
    <2>2. CASE v = 0
      <3>1. db = [d EXCEPT !.version = d.version, !.root = d.root]
        BY <1>1, <2>1, <2>2 DEF d
      <3>2. [d EXCEPT !.version = d.version, !.root = d.root] = d
        BY <2>1 DEF Database
      <3>3. QED
        BY <3>1, <3>2 DEF d
    <2>3. CASE v # 0
      BY <1>3, <2>3 DEF Fresh
    <2>4. QED
      BY <2>2, <2>3
  <1>5. Sound(db, written)
    BY <1>3, <1>4 DEF Sound, Unused, Numbered
  <1>6. /\ tx = NoTx /\ checkpoint = [w \in Workspaces |-> NoCheckpoint] /\ written = 0
        /\ fleet = 0 /\ receipt = [r \in Releases |-> Nothing]
        /\ backups = [r \in Releases |-> [n \in Attempts |-> Nothing]]
        /\ runner = Nothing /\ faults = 0 /\ file = db
    BY DEF Init
  <1>7. AuditTyped /\ FleetMatches /\ TxExtends /\ CheckpointsMatch
    BY <1>6 DEF AuditTyped, FleetMatches, TxExtends, CheckpointsMatch, Versions
  <1>8. UpgradeTyped /\ BackupsSound /\ ReceiptsMatch /\ RunnerMatches
    <2>1. UpgradeTyped
      BY <1>6 DEF UpgradeTyped
    <2>2. ReceiptsMatch /\ RunnerMatches
      BY <1>6 DEF ReceiptsMatch, RunnerMatches
    <2>3. BackupsSound
      BY <1>6, NothingAssumption DEF BackupsSound
    <2>4. QED
      BY <2>1, <2>2, <2>3
  <1>9. FileSound
    BY <1>5, <1>6 DEF FileSound
  <1>10. QED
    BY <1>5, <1>7, <1>8, <1>9 DEF IInv, CoreInv, AuditInv, UpgradeInv

LEMMA CoreNext ==
    ASSUME IInv, [Next]_vars
    PROVE  CoreInv'
  <1>0. CoreInv
    BY DEF IInv
  <1>1. CASE AuditNext /\ UNCHANGED upgradeVars
    BY <1>0, <1>1, AuditStep
  <1>2. CASE (\E image \in Images : FleetStart(image)) \/ FleetStop \/ Checkpoint
    BY <1>0, <1>2, FleetSteps, CheckpointStep
  <1>3. CASE \E r \in Releases : UpgradeStart(r) \/ RestoreNothing(r) \/ RestoreStart(r)
    BY <1>0, <1>3, UpgradeStartStep, RestoreNothingStep, RestoreStartStep
  <1>4. CASE Copy \/ PersistDigest \/ Migrate
    BY <1>0, <1>4, CopyStep, PersistDigestStep, MigrateStep
  <1>5. CASE UpgradeDone \/ OlderImage \/ StepFails \/ UpgradeFailed
    BY <1>0, <1>5, EndingStep, FailingStep
  <1>6. CASE RestoreUnlink \/ RestoreReplace \/ RestoreRecord \/ Kill
    BY <1>0, <1>6, RestoreUnlinkStep, RestoreReplaceStep, EndingStep, KillStep
  <1>7. CASE UNCHANGED vars
    <2>1. UNCHANGED auditVars /\ UNCHANGED <<receipt, backups, runner, faults>>
      BY <1>7 DEF vars, upgradeVars
    <2>2. fleet = 0 \/ runner' = Nothing
      BY <1>0, <2>1 DEF CoreInv, AuditInv, FleetMatches
    <2>3. AuditInv'
      BY <1>0, <2>1, <2>2, AuditUnchanged DEF CoreInv
    <2>4. UNCHANGED <<db, written>>
      BY <2>1 DEF auditVars
    <2>5. UpgradeTyped' /\ BackupsSound' /\ ReceiptsMatch'
      BY <1>0, <2>1, <2>4 DEF CoreInv, UpgradeInv, UpgradeTyped, BackupsSound, ReceiptsMatch, BackupOf
    <2>6. RunnerMatches'
      BY <1>0, <2>1, <2>4 DEF CoreInv, UpgradeInv, RunnerMatches, At, Mine, MyBackup, BackupOf
    <2>7. QED
      BY <2>3, <2>5, <2>6 DEF CoreInv, UpgradeInv
  <1>8. QED
    BY <1>1, <1>2, <1>3, <1>4, <1>5, <1>6, <1>7 DEF Next

\* The file is what a checkpoint, an offline step or a restore left there, a
\* torn copy of that, or what it was.
LEMMA FileNext ==
    ASSUME IInv, CoreInv', [Next]_vars
    PROVE  FileSound'
  <1>1. /\ Sound(db, written) /\ Sound(db', written') /\ Sound(file, written)
        /\ written \in Nat /\ written' \in Nat
    BY EntriesAssumption DEF IInv, CoreInv, AuditInv, AuditTyped, FileSound
  <1>2. /\ file' \in {file, db, db', Torn}
        /\ written <= written'
    <2>1. CASE AuditNext /\ UNCHANGED upgradeVars
      BY <1>1, <2>1 DEF upgradeVars, AuditNext, LegacyInsert, AppendBegin, AppendInsert,
           AppendAdvance, Commit, Rollback, AppendCancelled, CommitLeft, TakeCheckpoint
    <2>2. CASE (\E image \in Images : FleetStart(image)) \/ FleetStop \/ Checkpoint
      BY <1>1, <2>2 DEF FleetStart, FleetStop, Checkpoint, LeavesFile, upgradeVars, auditVars
    <2>3. CASE \E r \in Releases : UpgradeStart(r) \/ RestoreNothing(r) \/ RestoreStart(r)
      BY <1>1, <2>3 DEF UpgradeStart, RestoreNothing, RestoreStart, auditVars
    <2>4. CASE Copy \/ PersistDigest \/ Migrate
      BY <1>1, <2>4 DEF Copy, PersistDigest, Migrate, upgradeVars, auditVars
    <2>5. CASE UpgradeDone \/ OlderImage \/ StepFails \/ UpgradeFailed
      BY <1>1, <2>5 DEF UpgradeDone, OlderImage, StepFails, UpgradeFailed, auditVars
    <2>6. CASE RestoreUnlink \/ RestoreReplace \/ RestoreRecord \/ Kill
      BY <1>1, <2>6 DEF RestoreUnlink, RestoreReplace, RestoreRecord, Kill, LeavesFile, auditVars
    <2>7. CASE UNCHANGED vars
      BY <1>1, <2>7 DEF vars, upgradeVars, auditVars
    <2>8. QED
      BY <2>1, <2>2, <2>3, <2>4, <2>5, <2>6, <2>7 DEF Next
  <1>3. QED
    BY <1>1, <1>2, SoundLater, TornSound DEF FileSound

LEMMA IInvNext == IInv /\ [Next]_vars => IInv'
  BY CoreNext, FileNext DEF IInv

LEMMA IInvAlways == Spec => []IInv
  BY IInvInit, IInvNext, PTL DEF Spec

-----------------------------------------------------------------------------
(* The theorems.                                                           *)

\* Databases, receipts, backups and checkpoints keep their types; no writer
\* runs during an upgrade or a restore; and a database that was there is only
\* migrated with its exact copy behind the receipt's digest.
THEOREM UpgradeTypeCorrect == Spec => []UpgradeTypeOK
  <1>1. ASSUME IInv PROVE UpgradeTypeOK
    <2>0. CoreInv /\ file \in Database
      BY <1>1 DEF IInv, FileSound, Sound
    <2>1. AuditTypeOK
      BY <2>0 DEF CoreInv, AuditInv, AuditTyped, AuditTypeOK, Sound, FleetMatches
    <2>2. /\ \A r \in Releases : receipt[r] # Nothing => receipt[r] \in Receipt
          /\ backups \in [Releases -> [Attempts -> Database \cup {Nothing}]]
          /\ faults \in 0 .. MaxFaults
      BY <2>0 DEF CoreInv, UpgradeInv, UpgradeTyped
    <2>3. ASSUME runner # Nothing
          PROVE  /\ runner \in Runner /\ fleet = 0
                 /\ At("migrate") /\ Mine.planned => Mine.digest = MyBackup /\ MyBackup = Mine.before
      BY <2>0, <2>3, MineTyped DEF CoreInv, UpgradeInv, RunnerMatches
    <2>4. QED
      BY <2>0, <2>1, <2>2, <2>3 DEF UpgradeTypeOK
  <1>2. QED
    BY <1>1, IInvAlways, PTL

\* Once the chain is active the committed audit rows of every workspace verify,
\* through failed appends, killed upgrades, repairs and restores; or all but the
\* last do, when the append of that one was cancelled before its head.
THEOREM ActiveChainsVerify == Spec => []ActiveChainVerifies
  <1>1. ASSUME IInv PROVE ActiveChainVerifies
    BY <1>1, SoundVerifies DEF IInv, CoreInv, AuditInv, ActiveChainVerifies
  <1>2. QED
    BY <1>1, IInvAlways, PTL

LEMMA PrefixOf ==
    ASSUME NEW s \in Seq(Ids), NEW t \in Seq(Ids)
    PROVE  IsPrefix(s, t) <=> Len(s) <= Len(t) /\ s = SubSeq(t, 1, Len(s))
  <1>1. SubSeq(s, 1, Len(s)) = s
    BY SubSeqFull
  <1>2. QED
    BY <1>1 DEF IsPrefix

\* A chain verifies as anchored exactly when it still begins with the entries
\* that were there when its checkpoint was taken and no cancelled append has
\* left it without its head: a restore cannot hide behind the entries that are
\* appended after it.
THEOREM CheckpointsDecide == Spec => []CheckpointsTellRollbacks
  <1>1. ASSUME IInv, db.active, NEW w \in Workspaces, checkpoint[w] # NoCheckpoint
        PROVE  LET ids == [i \in DOMAIN db.log[w] |-> db.log[w][i].id]
               IN Verdict(db, w) = "anchored" <=>
                     /\ ~CutOff(db, w)
                     /\ IsPrefix(checkpoint[w].hash.ids, ids)
                     /\ checkpoint[w].hash.root = db.legacy
    <2> DEFINE log == db.log[w]
               c == checkpoint[w]
               h == c.hash
               ids == [i \in DOMAIN log |-> log[i].id]
    <2>1. /\ db \in Database /\ log \in Seq(Entry) /\ Len(log) \in Nat
          /\ DOMAIN log = 1 .. Len(log) /\ db.root = db.legacy /\ db.root \in SUBSET Ids
          /\ ChainConsistent(db, w) <=> ~CutOff(db, w)
          /\ ChainOf(log, w, db.root)
      <3>1. Sound(db, written) /\ db \in Database
        BY <1>1 DEF IInv, CoreInv, AuditInv, Sound
      <3>2. /\ ChainConsistent(db, w) <=> ~CutOff(db, w)
            /\ ChainOf(log, w, db.root)
        BY <1>1, <3>1, SoundVerifies
      <3>3. log \in Seq(Entry)
        BY <3>1, DatabaseFields
      <3>4. Len(log) \in Nat /\ DOMAIN log = 1 .. Len(log)
        BY <3>3, LenProperties
      <3>5. db.root = db.legacy /\ db.root \in SUBSET Ids
        BY <1>1, <3>1, DatabaseFields DEF Sound, Chain
      <3>6. QED
        BY <3>1, <3>2, <3>3, <3>4, <3>5
    <2>2. /\ c \in ChainHead /\ c.sequence \in Nat /\ c.sequence >= 1 /\ h \in Hash
          /\ h.workspace = w /\ Len(h.ids) = c.sequence /\ h.ids \in Seq(Ids)
      <3>1. c \in ChainHead /\ c.sequence >= 1 /\ h.workspace = w /\ Len(h.ids) = c.sequence
        BY <1>1 DEF IInv, CoreInv, AuditInv, AuditTyped, CheckpointsMatch
      <3>2. c.sequence \in Nat /\ h \in Hash
        BY <3>1, EntriesAssumption DEF ChainHead
      <3>3. h.ids \in Seq(Ids)
        BY <3>2 DEF Hash
      <3>4. QED
        BY <3>1, <3>2, <3>3
    <2>3. Verdict(db, w) = "anchored" <=>
            ChainConsistent(db, w) /\ CheckpointConsistent(db, w, c)
      BY <1>1 DEF Verdict
    <2>4. CheckpointConsistent(db, w, c) <=>
            c.sequence \in 1 .. Len(log) /\ h = HashAt(log, w, db.root, c.sequence)
      BY <2>1 DEF CheckpointConsistent, ReachedSequence, ChainOf
    <2>5. ids \in Seq(Ids) /\ Len(ids) = Len(log)
      <3>1. Len(log) \in 0 .. Len(log)
        BY <2>1
      <3>2. [j \in 1 .. Len(log) |-> log[j].id] \in Seq(Ids)
        BY <2>1, <3>1, IdsTyped
      <3>3. QED
        BY <2>1, <3>2
    <2>6. ASSUME c.sequence \in 1 .. Len(log)
          PROVE  /\ h = HashAt(log, w, db.root, c.sequence) <=>
                      h.root = db.root /\ h.ids = [j \in 1 .. c.sequence |-> log[j].id]
                 /\ SubSeq(ids, 1, c.sequence) = [j \in 1 .. c.sequence |-> log[j].id]
      <3>1. h = [workspace |-> h.workspace, root |-> h.root, ids |-> h.ids]
        BY <2>2 DEF Hash
      <3>2. HashAt(log, w, db.root, c.sequence)
              = [workspace |-> w, root |-> db.root, ids |-> [j \in 1 .. c.sequence |-> log[j].id]]
        BY DEF HashAt
      <3>3. /\ HashAt(log, w, db.root, c.sequence).root = db.root
            /\ HashAt(log, w, db.root, c.sequence).ids = [j \in 1 .. c.sequence |-> log[j].id]
        BY <3>2
      <3>4. SubSeq(ids, 1, c.sequence) = [j \in 1 .. c.sequence |-> log[j].id]
        <4>1. \A j \in 1 .. c.sequence : ids[j] = log[j].id /\ ids[j] \in Ids
          BY <2>1, <2>2, <2>5, <2>6
        <4>2. /\ SubSeq(ids, 1, c.sequence) \in Seq(Ids)
              /\ Len(SubSeq(ids, 1, c.sequence)) = c.sequence
              /\ \A j \in 1 .. c.sequence : SubSeq(ids, 1, c.sequence)[j] = ids[j]
          BY <2>2, <4>1, SubSeqProperties
        <4>3. c.sequence \in 0 .. Len(log)
          BY <2>1, <2>2, <2>6
        <4>4. [j \in 1 .. c.sequence |-> log[j].id] \in Seq(Ids)
          BY <2>1, <4>3, IdsTyped
        <4>5. Len([j \in 1 .. c.sequence |-> log[j].id]) = c.sequence
          BY <2>2
        <4>6. QED
          BY <4>1, <4>2, <4>4, <4>5, SeqEqual
      <3>5. QED
        BY <2>2, <3>1, <3>2, <3>3, <3>4
    <2>7. IsPrefix(h.ids, ids) <=> Len(h.ids) <= Len(ids) /\ h.ids = SubSeq(ids, 1, Len(h.ids))
      BY <2>2, <2>5, PrefixOf
    <2> HIDE DEF ids, log, c, h
    <2>8. IsPrefix(h.ids, ids) <=>
            c.sequence \in 1 .. Len(log) /\ h.ids = SubSeq(ids, 1, c.sequence)
      BY <2>1, <2>2, <2>5, <2>7
    <2>9. Verdict(db, w) = "anchored" <=>
            ~CutOff(db, w) /\ IsPrefix(h.ids, ids) /\ h.root = db.legacy
      BY <2>1, <2>3, <2>4, <2>6, <2>8
    <2>10. QED
      BY <2>9 DEF ids, log, c, h
  <1>2. IInv => CheckpointsTellRollbacks
    BY <1>1 DEF CheckpointsTellRollbacks
  <1>3. QED
    BY <1>2, IInvAlways, PTL

\* Only a restore's replacement changes the database at that step.
LEMMA ReplacedExactly ==
    ASSUME CoreInv, [Next]_vars, At("replace"), db' # db
    PROVE  db' = Mine.before \/ (MyBackup = FreshDb /\ ~Fresh(Mine.before))
  <1>1. runner # Nothing /\ runner.step = "replace"
    BY DEF At
  <1>2. CASE AuditNext
    BY <1>1, <1>2, AuditRunsAlone
  <1>3. CASE Migrate
    BY <1>1, <1>3 DEF Migrate, At
  <1>4. CASE RestoreReplace
    BY <1>4, ReplaceExact
  <1>5. CASE (\E image \in Images : FleetStart(image)) \/ FleetStop \/ Checkpoint
    BY <1>5 DEF FleetStart, FleetStop, Checkpoint, auditVars
  <1>6. CASE \E r \in Releases : UpgradeStart(r) \/ RestoreNothing(r) \/ RestoreStart(r)
    BY <1>6 DEF UpgradeStart, RestoreNothing, RestoreStart, auditVars
  <1>7. CASE Copy \/ PersistDigest \/ UpgradeDone \/ OlderImage \/ StepFails \/ UpgradeFailed
    BY <1>7 DEF Copy, PersistDigest, UpgradeDone, OlderImage, StepFails, UpgradeFailed, auditVars
  <1>8. CASE RestoreUnlink \/ RestoreRecord \/ Kill
    BY <1>1, <1>8 DEF RestoreUnlink, RestoreRecord, Kill, At, auditVars
  <1>9. CASE UNCHANGED vars
    BY <1>9 DEF vars, auditVars
  <1>10. QED
    BY <1>2, <1>3, <1>4, <1>5, <1>6, <1>7, <1>8, <1>9 DEF Next

\* Only a restore changes the database when its sidecars are taken away, and it
\* has what it takes to go on.
LEMMA UnlinkedRepeatable ==
    ASSUME CoreInv, [Next]_vars, At("unlink"), db' # db
    PROVE  /\ Mine.status # "rolled_back"
           /\ Fresh(Mine.before) \/ (Mine.digest = MyBackup /\ MyBackup \notin {Nothing, Torn})
  <1>1. runner # Nothing /\ runner.step = "unlink"
    BY DEF At
  <1>2. CASE AuditNext
    BY <1>1, <1>2, AuditRunsAlone
  <1>3. CASE Migrate \/ RestoreReplace
    BY <1>1, <1>3 DEF Migrate, RestoreReplace, At
  <1>4. CASE RestoreUnlink
    BY <1>4, UnlinkRepeatable
  <1>5. CASE (\E image \in Images : FleetStart(image)) \/ FleetStop \/ Checkpoint
    BY <1>5 DEF FleetStart, FleetStop, Checkpoint, auditVars
  <1>6. CASE \E r \in Releases : UpgradeStart(r) \/ RestoreNothing(r) \/ RestoreStart(r)
    BY <1>6 DEF UpgradeStart, RestoreNothing, RestoreStart, auditVars
  <1>7. CASE Copy \/ PersistDigest \/ UpgradeDone \/ OlderImage \/ StepFails \/ UpgradeFailed
    BY <1>7 DEF Copy, PersistDigest, UpgradeDone, OlderImage, StepFails, UpgradeFailed, auditVars
  <1>8. CASE RestoreRecord \/ Kill
    BY <1>8 DEF RestoreRecord, Kill, auditVars
  <1>9. CASE UNCHANGED vars
    BY <1>9 DEF vars, auditVars
  <1>10. QED
    BY <1>2, <1>3, <1>4, <1>5, <1>6, <1>7, <1>8, <1>9 DEF Next

\* A receipt turns to rolled back when nothing was done, or what its attempt
\* began with is there again.
LEMMA RolledBackExactly ==
    ASSUME CoreInv, [Next]_vars, NEW r \in Releases, receipt[r] # Nothing,
           receipt'[r].status = "rolled_back", receipt[r].status # "rolled_back"
    PROVE  \/ db = receipt[r].before
           \/ HadNothingToDo(r) /\ db.version = receipt[r].before.version
  <1> USE NothingAssumption
  <1>1. receipt \in [Releases -> Receipt \cup {Nothing}]
    BY DEF CoreInv, UpgradeInv, UpgradeTyped
  <1>2. receipt' # receipt
    OBVIOUS
  <1>3. CASE \E s \in Releases : UpgradeStart(s)
    <2>1. PICK s \in Releases : UpgradeStart(s)
      BY <1>3
    <2>2. receipt'[s].status = "running" /\ (s # r => receipt'[r] = receipt[r])
      BY <1>1, <2>1 DEF UpgradeStart
    <2>3. QED
      BY <2>2
  <1>4. CASE \E s \in Releases : RestoreNothing(s)
    <2>1. PICK s \in Releases : RestoreNothing(s)
      BY <1>4
    <2>2. /\ HadNothingToDo(s) /\ db.version = receipt[s].before.version
          /\ s # r => receipt'[r] = receipt[r]
      BY <1>1, <2>1 DEF RestoreNothing
    <2>3. QED
      BY <2>2
  <1>5. CASE \E s \in Releases : RestoreStart(s)
    <2>1. PICK s \in Releases : RestoreStart(s)
      BY <1>5
    <2>2. receipt' = [receipt EXCEPT ![s].digest = BackupOf(s)]
      BY <1>2, <2>1 DEF RestoreStart
    <2>3. receipt'[r].status = receipt[r].status
      BY <1>1, <2>2 DEF Receipt
    <2>4. QED
      BY <2>3
  <1>6. CASE RestoreRecord
    <2>1. /\ runner # Nothing /\ runner.step = "record" /\ db.version = Mine.before.version
          /\ Record("rolled_back", Mine.digest) /\ UNCHANGED <<backups, written>>
      BY <1>2, <1>6 DEF RestoreRecord, At, auditVars
    <2>2. /\ runner.release \in Releases /\ Mine # Nothing
          /\ Mine.digest \in Database \cup {Nothing}
      BY <2>1, MineTyped
    <2>3. "rolled_back" \in Statuses
      BY DEF Statuses
    <2>4. runner.release # r => receipt'[r] = receipt[r]
      BY <2>1, <2>2, <2>3, RecordRewrites
    <2>5. db = FreshDb \/ db = Mine.before
      BY <2>1 DEF CoreInv, UpgradeInv, RunnerMatches, At
    <2>6. Fresh(Mine.before) => Mine.before = FreshDb
      BY <2>2 DEF CoreInv, UpgradeInv, ReceiptsMatch, Mine
    <2>7. db = Mine.before
      BY <2>1, <2>5, <2>6, FreshSound DEF Fresh
    <2>8. QED
      BY <2>4, <2>7 DEF Mine
  <1>7. CASE PersistDigest \/ UpgradeDone \/ UpgradeFailed
    <2>1. /\ runner # Nothing /\ UNCHANGED <<backups, written>>
          /\ \/ Record("running", MyBackup)
             \/ Record("succeeded", Mine.digest)
             \/ Record("failed", IF Mine.planned THEN MyBackup ELSE Nothing)
      BY <1>7 DEF PersistDigest, UpgradeDone, UpgradeFailed, At, auditVars
    <2>2. PICK status \in {"running", "succeeded", "failed"},
               digest \in Database \cup {Nothing} : Record(status, digest)
      BY <2>1, MineTyped
    <2>3. status \in Statuses
      BY DEF Statuses
    <2>4. /\ receipt'[runner.release].status = status
          /\ runner.release # r => receipt'[r] = receipt[r]
      BY <2>1, <2>2, <2>3, RecordRewrites
    <2>5. QED
      BY <2>4
  <1>8. CASE AuditNext /\ UNCHANGED upgradeVars
    BY <1>2, <1>8 DEF upgradeVars
  <1>9. CASE (\E image \in Images : FleetStart(image)) \/ FleetStop \/ Checkpoint
    BY <1>2, <1>9 DEF FleetStart, FleetStop, Checkpoint, upgradeVars
  <1>10. CASE Copy \/ Migrate \/ OlderImage \/ StepFails \/ RestoreUnlink \/ RestoreReplace \/ Kill
    BY <1>2, <1>10 DEF Copy, Migrate, OlderImage, StepFails, RestoreUnlink, RestoreReplace, Kill,
                       upgradeVars
  <1>11. CASE UNCHANGED vars
    BY <1>2, <1>11 DEF vars, upgradeVars
  <1>12. QED
    BY <1>3, <1>4, <1>5, <1>6, <1>7, <1>8, <1>9, <1>10, <1>11 DEF Next

\* A restore puts back the exact database that its attempt began with, and a
\* receipt says rolled back only when that is what is there, whichever release
\* and whatever was killed before; and a restore that loses what the sidecars
\* held can be repeated.  The exceptions are the empty file of a killed copy and
\* an attempt that had nothing to do, of which only the version is compared.
THEOREM RestoresAlwaysExact == Spec => RestoresAreExact
  <1>1. ASSUME IInv, [Next]_vars
        PROVE  [/\ At("unlink") /\ db' # db =>
                     /\ Mine.status # "rolled_back"
                     /\ \/ Fresh(Mine.before)
                        \/ Mine.digest = MyBackup /\ MyBackup \notin {Nothing, Torn}
                /\ At("replace") /\ db' # db =>
                     db' = Mine.before \/ (MyBackup = FreshDb /\ ~Fresh(Mine.before))
                /\ \A r \in Releases :
                     receipt[r] # Nothing /\ receipt'[r].status = "rolled_back" =>
                       \/ receipt[r].status = "rolled_back"
                       \/ db = receipt[r].before
                       \/ HadNothingToDo(r) /\ db.version = receipt[r].before.version]_vars
    BY <1>1, UnlinkedRepeatable, ReplacedExactly, RolledBackExactly DEF IInv
  <1>2. QED
    BY <1>1, IInvAlways, PTL DEF Spec, RestoresAreExact
=============================================================================

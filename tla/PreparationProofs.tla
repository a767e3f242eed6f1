-------------------------- MODULE PreparationProofs --------------------------
(* What holds of a manifest from its file to its statements, for every       *)
(* catalog, set of manifests, server and policy, length of day and week, and *)
(* however many drifts, ticks, edits, losses and crashes.  Inv is inductive: *)
(* it says what the operations in memory decoded to, that the plan is the    *)
(* one made from them, what the cursor and the progress of the run stand     *)
(* for, and what the preflight established that only a drift or this run can *)
(* have undone. From it follow the promises about each statement, and what   *)
(* "done" means.                                                             *)
EXTENDS Preparation, NaturalsInduction, WellFoundedInduction, TLAPS

----------------------------------------------------------------------------
(* Sequences.                                                                *)

(* What holds of 1 and is handed from each number to the next holds up to N. *)
LEMMA UpTo ==
  ASSUME NEW N \in Nat, NEW P, 1 \in P, \A n \in 1..N : n + 1 <= N /\ n \in P => n + 1 \in P
  PROVE  \A n \in 1..N : n \in P
<1> DEFINE less == {p \in Nat \X Nat : p[1] < p[2]}
           T == {n \in 1..N : n \notin P}
<1>1. IsWellFoundedOn(less, Nat)
  BY NatLessThanWellFounded DEF OpToRel
<1> SUFFICES ASSUME T # {} PROVE FALSE
  OBVIOUS
<1>2. PICK x \in T : \A y \in T : ~(<<y, x>> \in less)
  <2>1. T \subseteq Nat
    OBVIOUS
  <2> QED
    BY <1>1, <2>1, WFMin
<1>3. x \in 1..N /\ x \notin P /\ x # 1
  OBVIOUS
<1>4. x - 1 \in 1..N /\ x - 1 < x /\ x - 1 \in Nat /\ x \in Nat
  BY <1>3
<1>5. x - 1 \notin T
  BY <1>2, <1>4
<1> QED
  BY <1>3, <1>4, <1>5

(* FlattenSeq of sequences over S is a sequence over S.                      *)
LEMMA FlattenTyped ==
  ASSUME NEW S, NEW seqs \in Seq(Seq(S))
  PROVE  SX!FlattenSeq(seqs) \in Seq(S)
<1> DEFINE N == Len(seqs)
           Joined(f, n) == IF n = 1 THEN seqs[n] ELSE f[n - 1] \o seqs[n]
           Whole(f) == f = [n \in 1..N |-> Joined(f, n)]
           Part(n) == {f \in [1..n -> Seq(S)] : \A k \in 1..n : f[k] = Joined(f, k)}
           P == {n \in 1..N : Part(n) # {}}
           flat == CHOOSE f : Whole(f)
<1>1. CASE N = 0
  <2>1. SX!FlattenSeq(seqs) = seqs
    BY <1>1 DEF SX!FlattenSeq
  <2>2. seqs = <<>>
    BY <1>1
  <2> QED
    BY <2>1, <2>2
<1>2. CASE N # 0
  <2>1. N \in Nat /\ N >= 1 /\ \A k \in 1..N : seqs[k] \in Seq(S)
    BY <1>2
  <2>2. 1 \in P
    <3>1. [k \in 1..1 |-> seqs[1]] \in Part(1)
      BY <2>1
    <3> QED
      BY <2>1, <3>1
  <2>3. ASSUME NEW n \in 1..N, n + 1 <= N, n \in P PROVE n + 1 \in P
    <3>1. PICK f \in [1..n -> Seq(S)] : \A k \in 1..n : f[k] = Joined(f, k)
      BY <2>3
    <3> DEFINE g == [k \in 1..(n + 1) |-> IF k <= n THEN f[k] ELSE f[n] \o seqs[n + 1]]
    <3>2. n + 1 \in 1..N /\ n \in 1..n /\ n \in Nat
      BY <2>1, <2>3
    <3>3. f[n] \o seqs[n + 1] \in Seq(S)
      BY <2>1, <3>2
    <3>4. g \in [1..(n + 1) -> Seq(S)]
      BY <3>2, <3>3
    <3>5. ASSUME NEW k \in 1..(n + 1) PROVE g[k] = Joined(g, k)
      <4>1. CASE k <= n
        <5>1. k \in 1..n /\ g[k] = f[k]
          BY <3>2, <4>1
        <5>2. k # 1 => k - 1 \in 1..n /\ g[k - 1] = f[k - 1]
          BY <3>2, <5>1
        <5> QED
          BY <3>1, <5>1, <5>2
      <4>2. CASE ~(k <= n)
        <5>1. k = n + 1 /\ k # 1 /\ k - 1 = n
          BY <3>2, <4>2
        <5>2. g[k] = f[n] \o seqs[n + 1] /\ g[n] = f[n]
          BY <3>2, <5>1
        <5> QED
          BY <5>1, <5>2
      <4> QED
        BY <4>1, <4>2
    <3> QED
      BY <3>2, <3>4, <3>5
  <2>4. N \in P
    <3> HIDE DEF P
    <3>1. \A n \in 1..N : n \in P
      BY <2>1, <2>2, <2>3, UpTo
    <3> QED
      BY <2>1, <3>1
  <2>5. PICK h \in [1..N -> Seq(S)] : \A k \in 1..N : h[k] = Joined(h, k)
    BY <2>4
  <2>6. Whole(h)
    BY <2>5
  <2>7. Whole(flat)
    BY <2>6
  <2>8. SX!FlattenSeq(seqs) = flat[N]
    BY <1>2 DEF SX!FlattenSeq
  <2> DEFINE Q == {n \in 1..N : flat[n] \in Seq(S)}
  <2> HIDE DEF flat
  <2>9. \A k \in 1..N : flat[k] = Joined(flat, k)
    BY <2>7
  <2>10. 1 \in Q
    BY <2>1, <2>9
  <2>11. ASSUME NEW n \in 1..N, n + 1 <= N, n \in Q PROVE n + 1 \in Q
    <3>1. n + 1 \in 1..N /\ n + 1 # 1 /\ (n + 1) - 1 = n
      BY <2>1, <2>11
    <3>2. flat[n + 1] = flat[n] \o seqs[n + 1]
      BY <2>9, <3>1
    <3>3. flat[n] \in Seq(S) /\ seqs[n + 1] \in Seq(S)
      BY <2>1, <2>11, <3>1
    <3>4. flat[n] \o seqs[n + 1] \in Seq(S)
      BY <3>3
    <3> QED
      BY <3>1, <3>2, <3>4
  <2>12. N \in Q
    <3> HIDE DEF Q
    <3>1. \A n \in 1..N : n \in Q
      BY <2>1, <2>10, <2>11, UpTo
    <3> QED
      BY <2>1, <3>1
  <2> QED
    BY <2>8, <2>12
<1> QED
  BY <1>1, <1>2

(* A selection keeps to its set.                                             *)
LEMMA OnlyTyped ==
  ASSUME NEW s, DOMAIN s = 1..Len(s), Len(s) \in Nat, NEW S
  PROVE  Only(s, S) \in Seq(S)
<1>1. [k \in DOMAIN s |-> IF s[k] \in S THEN <<s[k]>> ELSE <<>>] \in Seq(Seq(S))
  <2> DEFINE t == [k \in DOMAIN s |-> IF s[k] \in S THEN <<s[k]>> ELSE <<>>]
  <2>1. \A k \in DOMAIN s : t[k] \in Seq(S)
    OBVIOUS
  <2> HIDE DEF t
  <2>2. DOMAIN t = 1..Len(s)
    BY DEF t
  <2>3. t \in [1..Len(s) -> Seq(S)]
    BY <2>1, <2>2, Zenon DEF t
  <2>4. t \in Seq(Seq(S))
    BY <2>3
  <2> QED
    BY <2>4 DEF t
<1> QED
  BY <1>1, FlattenTyped, Zenon DEF Only

(* The clustered index first, and no index that was not there.               *)
LEMMA ClusteredFirstTyped ==
  ASSUME NEW s, DOMAIN s = 1..Len(s), Len(s) \in Nat
  PROVE  ClusteredFirst(s) \in Seq(SX!ToSet(s))
<1> DEFINE all == SX!ToSet(s)
           clustered == {x \in all : x.clustered}
<1>1. Only(s, clustered) \in Seq(clustered) /\ Only(s, all \ clustered) \in Seq(all \ clustered)
  BY OnlyTyped
<1>2. clustered \subseteq all
  OBVIOUS
<1>3. ClusteredFirst(s) = Only(s, clustered) \o Only(s, all \ clustered)
  BY DEF ClusteredFirst
<1> HIDE DEF clustered, all
<1>4. Only(s, clustered) \in Seq(all) /\ Only(s, all \ clustered) \in Seq(all)
  BY <1>1, <1>2
<1> QED
  BY <1>3, <1>4 DEF all

----------------------------------------------------------------------------
(* What is true of every state.                                              *)

(* The phases in which there is a plan, and a manifest in memory.            *)
Ready  == phase \in {"run", "stop"}
Loaded == phase \in {"gate", "preflight", "plan"} \/ Ready

(* An operation in memory: decoded, and its storage that of the index an     *)
(* expansion found.                                                          *)
Decoded(op) ==
  /\ op.operation = "rebuild_index" =>
       {"table", "index", "partition", "data_compression", "storage", "operation"}
         \subseteq DOMAIN op
  /\ op.storage # "unknown" =>
       \E k \in DOMAIN Structures :
          /\ Structure(Structures[k]) = Target(op)
          /\ op.storage = Structures[k].storage
          /\ SupportsOnline(op.storage) \/ op.data_compression = ""

(* The file is a manifest; the one in memory loaded, and was expanded.       *)
WellFormed ==
  /\ IsManifest(file)
  /\ Loaded => /\ IsManifest(m) /\ ValidWindow(m.window)
               /\ \A k \in DOMAIN m.operations : Decoded(m.operations[k])

(* Where the file and the run are, and the clock.                            *)
Placed ==
  /\ srv \in {s[2] : s \in Submissions}
  /\ place \in {"to_run", "processing", "done", "failed"}
  /\ phase \in {"idle", "load", "gate", "preflight", "plan", "run", "stop"}
  /\ phase # "idle" => place = "processing"
  /\ place \in {"done", "failed"} => side = NoSide
  /\ now \in 0..(HoursPerDay * DaysPerWeek - 1)

(* Outside a run there is no plan, no progress and no statement.             *)
Quiet ==
  ~Ready => sent = NoStatement /\ plan = <<>> /\ quarantined = <<>> /\ i = 1 /\ cursor = 0

(* What the cursor on disk covers took effect.                               *)
CursorHolds ==
  /\ DOMAIN side = {"there", "cursor", "fp"} /\ side.there \in BOOLEAN /\ side.cursor \in Nat
  /\ \A k \in 1..side.cursor : k \in DOMAIN side.fp /\ side.fp[k] \in applied
  /\ phase \in {"load", "gate", "preflight", "plan"} => resumeFrom = side.cursor

(* The plan is that of the manifest in memory; the sidecar carries its       *)
(* fingerprint; what was passed took effect, unless something was set aside. *)
Followed ==
  Ready =>
    /\ plan = Plan(m, srv.server, srv.policy)
    /\ side.fp = Fingerprint(plan) /\ cursor = side.cursor
    /\ resumeFrom \in Nat /\ resumeFrom <= cursor /\ cursor <= Len(plan)
    /\ i \in 1..(Len(plan) + 1)
    /\ quarantined \in Seq(SX!ToSet(m.operations))
    /\ quarantined = <<>> => \A k \in 1..(i - 1) : Identity(plan[k].op) \in applied

(* A disabled index is a structure, and exists.                              *)
CatalogTyped ==
  /\ {"objects", "disabled", "comp", "rights"} \subseteq DOMAIN cat
  /\ \A o \in DOMAIN cat.comp : IsStructure(o)
  /\ \A o \in cat.disabled : IsStructure(o) /\ o \in cat.objects
  /\ DOMAIN since = {"others", "own"}

(* What this run has not touched since is where the preflight saw it.        *)
StillThere(op) ==
  Target(op)[1] \notin since.own /\ op.operation # "reorganize_index" => ~Missing(op)

(* What the preflight established and nobody undid.                          *)
Checked ==
  phase \in {"plan", "run"} =>
    \A k \in DOMAIN m.operations :
       LET op == m.operations[k]
       IN /\ since.others = {} => ~Denied(op) /\ StillThere(op)
          /\ op.operation = "rebuild_heap" /\ ~op.allow_reenable_disabled_indexes
               => Disabled(op.table) \subseteq since.others

----------------------------------------------------------------------------
(* The operations in memory.                                                 *)

(* A rebuild that decodes has the keys that the expansion writes.            *)
LEMMA RebuildFields ==
  ASSUME NEW doc, KnownKeys(doc), Decode(doc).operation = "rebuild_index"
  PROVE  {"table", "index", "partition", "data_compression", "storage", "operation"}
           \subseteq DOMAIN Decode(doc)
<1>1. DOMAIN Decode(doc) = Fields[doc.operation] \union {"operation", "storage"}
  BY DEF Decode
<1>2. Decode(doc).operation = doc.operation
  BY DEF Decode
<1>3. Fields["rebuild_index"] =
        {"table", "index", "partition", "data_compression", "intent", "options"}
  BY DEF Fields
<1> QED
  BY <1>1, <1>2, <1>3

(* The storage of an index is not in the file.                               *)
LEMMA DecodeIsDecoded ==
  ASSUME NEW doc, KnownKeys(doc)
  PROVE  Decoded(Decode(doc))
<1>1. Decode(doc).storage = "unknown"
  BY DEF Decode
<1> QED
  BY <1>1, RebuildFields DEF Decoded

(* A file that loads gives a manifest with a valid window.                   *)
LEMMA ParseIsDecoded ==
  ASSUME NEW doc, IsManifest(doc), Loads(doc)
  PROVE  /\ IsManifest(Parse(doc)) /\ ValidWindow(Parse(doc).window)
         /\ \A k \in DOMAIN Parse(doc).operations : Decoded(Parse(doc).operations[k])
<1> DEFINE ops == [k \in DOMAIN doc.operations |-> Decode(doc.operations[k])]
<1>1. Parse(doc) = [doc EXCEPT !.operations = ops]
  BY DEF Parse
<1>2. DOMAIN Parse(doc) = DOMAIN doc /\ Parse(doc).operations = ops
  BY <1>1 DEF IsManifest
<1>3. DOMAIN doc.operations = 1..Len(doc.operations) /\ Len(doc.operations) \in Nat
  BY DEF IsManifest
<1>4. ops \in Seq(SX!ToSet(ops))
  BY <1>3 DEF SX!ToSet
<1>5. \A k \in DOMAIN doc.operations : KnownKeys(doc.operations[k])
  BY DEF Loads, Decodes
<1>6. \A k \in DOMAIN ops : Decoded(ops[k])
  BY <1>5, DecodeIsDecoded
<1> HIDE DEF ops
<1> QED
  BY <1>2, <1>4, <1>6 DEF IsManifest, Loads, ValidManifest

(* A sequence over S has its members in S.                                   *)
LEMMA Members ==
  ASSUME NEW S, NEW s \in Seq(S)
  PROVE  /\ DOMAIN s = 1..Len(s) /\ Len(s) \in Nat
         /\ s \in Seq(SX!ToSet(s)) /\ SX!ToSet(s) \subseteq S
  BY DEF SX!ToSet

(* A rebuildable index is a structure of its table, and has a name.          *)
LEMMA RebuildableTyped ==
  ASSUME NEW table, NEW x \in SX!ToSet(RebuildableIndexes(table))
  PROVE  \E k \in DOMAIN Structures :
            x = Structures[k] /\ x.table = table /\ x.name # ""
<1> DEFINE S == {s \in StructuresOf(cat, table) : s.name # "" /\ Structure(s) \notin cat.disabled}
<1>1. DOMAIN Structures = 1..Len(Structures) /\ Len(Structures) \in Nat
  BY StructuresAssumption, Members
<1>2. RebuildableIndexes(table) \in Seq(S)
  BY <1>1, OnlyTyped DEF RebuildableIndexes
<1>3. x \in S
  <2> HIDE DEF S
  <2> QED
    BY <1>2, Members
<1> QED
  BY <1>3 DEF StructuresOf

(* They come in a sequence.                                                  *)
LEMMA RebuildableSequence ==
  ASSUME NEW table
  PROVE  /\ DOMAIN RebuildableIndexes(table) = 1..Len(RebuildableIndexes(table))
         /\ Len(RebuildableIndexes(table)) \in Nat
<1> DEFINE S == {s \in StructuresOf(cat, table) : s.name # "" /\ Structure(s) \notin cat.disabled}
<1>1. RebuildableIndexes(table) \in Seq(S)
  BY StructuresAssumption, Members, OnlyTyped DEF RebuildableIndexes
<1> HIDE DEF S
<1> QED
  BY <1>1, Members

(* A rebuild of the expansion has the storage of the index it names.         *)
LEMMA ExpandedIsDecoded ==
  ASSUME NEW op, Decoded(op), IsAll(op), NEW x \in SX!ToSet(RebuildableIndexes(op.table))
  PROVE  Decoded(ExpandedRebuild(op, x))
<1> DEFINE e == ExpandedRebuild(op, x)
<1>1. PICK k \in DOMAIN Structures : x = Structures[k] /\ x.table = op.table /\ x.name # ""
  BY RebuildableTyped
<1>2. op.operation = "rebuild_index"
  BY DEF IsAll
<1>3. {"table", "index", "partition", "data_compression", "storage", "operation"} \subseteq DOMAIN op
  BY <1>2 DEF Decoded
<1>4. /\ DOMAIN e = DOMAIN op /\ e.operation = op.operation /\ e.table = op.table
      /\ e.index = x.name /\ e.storage = x.storage
      /\ SupportsOnline(x.storage) \/ e.data_compression = ""
  BY <1>3 DEF ExpandedRebuild
<1> HIDE DEF e
<1>5. Target(e) = <<op.table, x.name>>
  BY <1>2, <1>4, Zenon DEF Target
<1>6. Structure(Structures[k]) = <<op.table, x.name>>
  BY <1>1 DEF Structure
<1> QED
  BY <1>1, <1>2, <1>3, <1>4, <1>5, <1>6 DEF Decoded, e

(* An operation expands to operations, one in place of itself unless it is   *)
(* an ALL.                                                                   *)
LEMMA ExpandOpTyped ==
  ASSUME NEW op, Decoded(op), NEW t, t = ExpandOp(op)
  PROVE  t \in Seq(SX!ToSet(t)) /\ \A k \in DOMAIN t : Decoded(t[k])
<1>1. CASE IsAll(op)
  <2> DEFINE idx == RebuildableIndexes(op.table)
             xs == ClusteredFirst(idx)
  <2>1. DOMAIN idx = 1..Len(idx) /\ Len(idx) \in Nat
    BY RebuildableSequence
  <2>2. xs \in Seq(SX!ToSet(idx))
    BY <2>1, ClusteredFirstTyped
  <2>3. t = [k \in DOMAIN xs |-> ExpandedRebuild(op, xs[k])]
    BY <1>1, Zenon DEF ExpandOp
  <2>4. \A k \in DOMAIN xs : Decoded(ExpandedRebuild(op, xs[k]))
    BY <1>1, <2>2, ExpandedIsDecoded
  <2> HIDE DEF xs
  <2>5. DOMAIN t = 1..Len(xs) /\ Len(xs) \in Nat
    BY <2>2, <2>3
  <2> QED
    BY <2>3, <2>4, <2>5 DEF SX!ToSet
<1>2. CASE ~IsAll(op)
  <2>1. t = <<op>>
    BY <1>2, Zenon DEF ExpandOp
  <2> QED
    BY <2>1 DEF SX!ToSet
<1> QED
  BY <1>1, <1>2

(* So does a manifest, and keeps its window.                                 *)
LEMMA ExpandAllTyped ==
  ASSUME NEW doc, IsManifest(doc), NEW e, e = ExpandAll(doc),
         \A k \in DOMAIN doc.operations : Decoded(doc.operations[k])
  PROVE  /\ IsManifest(e) /\ e.window = doc.window
         /\ \A k \in DOMAIN e.operations : Decoded(e.operations[k])
<1> DEFINE T(k) == ExpandOp(doc.operations[k])
           seqs == [k \in DOMAIN doc.operations |-> T(k)]
           S == UNION {SX!ToSet(T(k)) : k \in DOMAIN doc.operations}
<1>1. DOMAIN doc.operations = 1..Len(doc.operations) /\ Len(doc.operations) \in Nat
  BY DEF IsManifest
<1>2. \A k \in DOMAIN doc.operations : T(k) \in Seq(SX!ToSet(T(k))) /\ \A n \in DOMAIN T(k) : Decoded(T(k)[n])
  BY ExpandOpTyped
<1>3. e = [doc EXCEPT !.operations = SX!FlattenSeq(seqs)]
  BY DEF ExpandAll
<1>4. \A k \in DOMAIN doc.operations : T(k) \in Seq(S)
  <2> TAKE k \in DOMAIN doc.operations
  <2>1. T(k) \in Seq(SX!ToSet(T(k))) /\ SX!ToSet(T(k)) \subseteq S
    BY <1>2
  <2> HIDE DEF S, T
  <2> QED
    BY <2>1
<1>5. \A op \in S : Decoded(op)
  BY <1>2 DEF SX!ToSet
<1> HIDE DEF S, T
<1>6. seqs \in Seq(Seq(S))
  BY <1>1, <1>4
<1>7. SX!FlattenSeq(seqs) \in Seq(S)
  BY <1>6, FlattenTyped
<1> HIDE DEF seqs
<1>8. DOMAIN e = DOMAIN doc /\ e.operations = SX!FlattenSeq(seqs) /\ e.window = doc.window
  BY <1>3 DEF IsManifest
<1>9. e.operations \in Seq(S)
  BY <1>7, <1>8
<1>10. e.operations \in Seq(SX!ToSet(e.operations))
  BY <1>9 DEF SX!ToSet
<1> QED
  BY <1>5, <1>8, <1>9, <1>10 DEF IsManifest

----------------------------------------------------------------------------
(* What the plan is, and what the preflight knows.                           *)

(* The inductive invariant.                                                  *)
Inv == Placed /\ WellFormed /\ Quiet /\ CursorHolds /\ Followed /\ CatalogTyped /\ Checked

(* The plan has the operations of the manifest, each with its statement.     *)
LEMMA PlanShape ==
  ASSUME NEW doc, IsManifest(doc), NEW server, NEW policy,
         NEW p, p = Plan(doc, server, policy)
  PROVE  /\ DOMAIN p = 1..Len(p) /\ Len(p) \in Nat
         /\ DOMAIN p = DOMAIN doc.operations
         /\ \A k \in DOMAIN p :
              LET op  == doc.operations[k]
              IN /\ p[k].op = op
                 /\ p[k].sql = Generate(op, Resolve(op, InDatabase(server, doc.database), policy))
<1>1. DOMAIN doc.operations = 1..Len(doc.operations) /\ Len(doc.operations) \in Nat
  BY DEF IsManifest
<1>2. DOMAIN p = DOMAIN doc.operations
  BY DEF Plan
<1>3. Len(p) = Len(doc.operations)
  BY <1>1, <1>2
<1>4. ASSUME NEW k \in DOMAIN p PROVE
        LET op  == doc.operations[k]
        IN /\ p[k].op = op
           /\ p[k].sql = Generate(op, Resolve(op, InDatabase(server, doc.database), policy))
  BY <1>2 DEF Plan
<1> QED
  BY <1>1, <1>2, <1>3, <1>4

(* The fingerprint has the identities of the plan.                           *)
LEMMA FingerprintShape ==
  ASSUME NEW p
  PROVE  /\ DOMAIN Fingerprint(p) = DOMAIN p
         /\ \A k \in DOMAIN p : Fingerprint(p)[k] = Identity(p[k].op)
  BY DEF Fingerprint

(* What a preflight that lets a manifest through knows of each operation:    *)
(* the rights, the object, and no disabled index that a heap rebuild would   *)
(* bring back.                                                               *)
LEMMA ClearedMeans ==
  ASSUME NEW server, NEW lost, Cleared(server, m, cat, lost), CatalogTyped,
         NEW k \in DOMAIN m.operations, NEW op, op = m.operations[k]
  PROVE  /\ ~Denied(op)
         /\ op.operation # "reorganize_index" => ~Missing(op)
         /\ op.operation = "rebuild_heap" /\ ~op.allow_reenable_disabled_indexes
              => Disabled(op.table) = {}
<1>1. "fail" \notin Report(server, m, cat, lost)
  BY DEF Cleared, HasFailure
<1>2. CheckOne(op, cat, lost) \subseteq Report(server, m, cat, lost)
  BY Zenon DEF Report
<1>3. CheckOperation(op, cat) # "fail" /\ CheckReenabledIndexes(op, cat, lost) # "fail"
  BY <1>1, <1>2 DEF CheckOne
<1>4. ~Unscoped(op) => TableExists(op, cat) /\ (NeedsTarget(op) => TargetExists(op, cat))
  BY <1>3 DEF CheckOperation, FailIf
<1>5. op.operation # "reorganize_index" => ~Missing(op)
  BY <1>4 DEF Missing, NeedsTarget, MustExist
<1>6. IsBatch(op) => {DmlPermissionFor(op), "SELECT"} \subseteq cat.rights
  <2> SUFFICES ASSUME IsBatch(op) PROVE {DmlPermissionFor(op), "SELECT"} \subseteq cat.rights
    OBVIOUS
  <2>1. ~Unscoped(op)
    BY DEF IsBatch, Unscoped
  <2>2. CheckBatch(op, cat) \subseteq CheckOne(op, cat, lost)
    BY <1>4, <2>1 DEF CheckOne
  <2>3. \A perm \in {DmlPermissionFor(op), "SELECT"} : CheckBatchDMLPermission(op, perm, cat) # "fail"
    BY <1>1, <1>2, <2>2, Zenon DEF CheckBatch
  <2> QED
    BY <2>3 DEF CheckBatchDMLPermission, FailIf
<1>7. Unscoped(op) => cat.rights \cap {"db_owner", "sysadmin"} # {}
  <2> SUFFICES ASSUME Unscoped(op) PROVE cat.rights \cap {"db_owner", "sysadmin"} # {}
    OBVIOUS
  <2>1. Elevates(m)
    BY DEF Elevates, Unscoped, RequiresElevatedRights
  <2>2. CheckElevatedRights(cat) # "fail"
    BY <1>1, <2>1 DEF Report
  <2> QED
    BY <2>2 DEF CheckElevatedRights, FailIf
<1>8. ASSUME op.operation = "rebuild_heap", ~op.allow_reenable_disabled_indexes,
             NEW o \in cat.disabled, o[1] = op.table
      PROVE  FALSE
  <2>1. DisabledIn(StructuresOf(cat, op.table), cat) = {}
    BY <1>3, <1>8 DEF CheckReenabledIndexes
  <2>2. PICK n \in DOMAIN Structures : o = Structure(Structures[n])
    BY DEF CatalogTyped, IsStructure
  <2>3. Structures[n].table = op.table
    BY <1>8, <2>2 DEF Structure
  <2>4. Structures[n] \in DisabledIn(StructuresOf(cat, op.table), cat)
    BY <1>8, <2>2, <2>3 DEF StructuresOf, DisabledIn, CatalogTyped
  <2> QED
    BY <2>1, <2>4
<1>9. op.operation = "rebuild_heap" /\ ~op.allow_reenable_disabled_indexes
        => Disabled(op.table) = {}
  BY <1>8 DEF Disabled
<1> QED
  BY <1>5, <1>6, <1>7, <1>9 DEF Denied

----------------------------------------------------------------------------
(* The initial state.                                                        *)

(* It holds at the start.                                                    *)
LEMMA InitInv == Init => Inv
<1> SUFFICES ASSUME Init PROVE Inv
  OBVIOUS
<1>1. PICK submission \in Submissions : file = submission[1] /\ srv = submission[2]
  BY DEF Init
<1>2. IsManifest(file)
  BY <1>1, PreparationAssumption
<1>3. now \in 0..(HoursPerDay * DaysPerWeek - 1)
  <2>1. HoursPerDay * DaysPerWeek \in Nat \ {0}
    BY WindowAssumption
  <2> QED
    BY <2>1 DEF Init
<1>4. Placed
  BY <1>1, <1>3 DEF Init, Placed
<1>5. CatalogTyped
  BY PreparationAssumption DEF Init, CatalogTyped, NoChange
<1> QED
  BY <1>2, <1>4, <1>5 DEF Init, Inv, WellFormed, Quiet, CursorHolds, Followed, Checked,
     Ready, Loaded, NoSide

----------------------------------------------------------------------------
(* The place of the file and the phase of the run.                           *)

(* A run works on a file in processing; a file at rest has no sidecar.       *)
LEMMA PlacedStep == Placed /\ [Next]_vars => Placed'
<1> SUFFICES ASSUME Placed, [Next]_vars PROVE Placed'
  OBVIOUS
<1> USE DEF Placed
<1>1. CASE Claim
  BY <1>1 DEF Claim
<1>2. CASE Load
  BY <1>2 DEF Load, Finalize, Idle
<1>3. CASE Gate
  BY <1>3 DEF Gate, GracefulStop, Idle
<1>4. CASE Preflight
  BY <1>4 DEF Preflight, Finalize, Idle
<1>5. CASE PlanRun
  BY <1>5 DEF PlanRun
<1>6. CASE Drain \/ CloseWindow \/ Crash
  BY <1>6 DEF Drain, CloseWindow, Crash, GracefulStop, Idle
<1>7. CASE SkipDone
  BY <1>7 DEF SkipDone
<1>8. CASE SkipSatisfied
  BY <1>8 DEF SkipSatisfied, Pending, AtStep
<1>9. CASE Execute
  BY <1>9 DEF Execute, Succeed, SetAside, Stop, Pending, AtStep
<1>10. CASE FailFast
  BY <1>10 DEF FailFast, Finalize, Idle
<1>11. CASE Finish
  BY <1>11 DEF Finish, Finalize, FinalizePartial, Idle
<1>12. CASE Recover
  BY <1>12 DEF Recover, run
<1>13. CASE EditRules
  BY <1>13 DEF EditRules, run
<1>14. CASE EditFile
  BY <1>14 DEF EditFile
<1>15. CASE Resubmit
  BY <1>15 DEF Resubmit, run
<1>16. CASE Drift
  BY <1>16 DEF Drift, run
<1>17. CASE Tick
  <2>1. HoursPerDay * DaysPerWeek \in Nat \ {0}
    BY WindowAssumption
  <2>2. now' \in 0..(HoursPerDay * DaysPerWeek - 1)
    <3> DEFINE week == HoursPerDay * DaysPerWeek
    <3>1. now' = (now + 1) % week /\ week \in Nat \ {0} /\ now \in Nat
      BY <1>17, <2>1 DEF Tick
    <3> HIDE DEF week
    <3>2. now' \in 0..(week - 1)
      BY <3>1
    <3> QED
      BY <3>2 DEF week
  <2> QED
    BY <1>17, <2>2 DEF Tick, run
<1>18. CASE UNCHANGED vars
  BY <1>18 DEF vars, run
<1> QED
  BY <1>1, <1>2, <1>3, <1>4, <1>5, <1>6, <1>7, <1>8, <1>9, <1>10, <1>11, <1>12, <1>13, <1>14,
     <1>15, <1>16, <1>17, <1>18 DEF Next

(* Outside a run there is no plan and no statement.                          *)
LEMMA QuietStep == Quiet /\ [Next]_vars => Quiet'
<1> SUFFICES ASSUME Quiet, [Next]_vars PROVE Quiet'
  OBVIOUS
<1> USE DEF Quiet, Ready
<1>1. CASE Claim
  BY <1>1 DEF Claim
<1>2. CASE Load
  BY <1>2 DEF Load, Finalize, Idle
<1>3. CASE Gate
  BY <1>3 DEF Gate, GracefulStop, Idle
<1>4. CASE Preflight
  BY <1>4 DEF Preflight, Finalize, Idle
<1>5. CASE PlanRun
  BY <1>5 DEF PlanRun
<1>6. CASE Drain \/ CloseWindow \/ Crash
  BY <1>6 DEF Drain, CloseWindow, Crash, GracefulStop, Idle
<1>7. CASE SkipDone \/ SkipSatisfied
  BY <1>7 DEF SkipDone, SkipSatisfied, Pending, AtStep
<1>8. CASE Execute
  BY <1>8 DEF Execute, Succeed, SetAside, Stop, Pending, AtStep
<1>9. CASE FailFast \/ Finish
  BY <1>9 DEF FailFast, Finish, Finalize, FinalizePartial, Idle
<1>10. CASE Recover \/ EditRules \/ EditFile \/ Resubmit \/ Drift \/ Tick
  BY <1>10 DEF Recover, EditRules, EditFile, Resubmit, Drift, Tick, run
<1>11. CASE UNCHANGED vars
  BY <1>11 DEF vars, run
<1> QED
  BY <1>1, <1>2, <1>3, <1>4, <1>5, <1>6, <1>7, <1>8, <1>9, <1>10, <1>11 DEF Next

----------------------------------------------------------------------------
(* The file and the manifest in memory.                                      *)

(* What is written back is a manifest: whole, ...                            *)
LEMMA MarshalTyped ==
  ASSUME NEW doc, IsManifest(doc)
  PROVE  IsManifest(Marshal(doc))
<1> DEFINE ops == [k \in DOMAIN doc.operations |-> MarshalOp(doc.operations[k])]
<1>1. Marshal(doc) = [doc EXCEPT !.operations = ops]
  BY DEF Marshal
<1>2. DOMAIN ops = 1..Len(doc.operations) /\ Len(doc.operations) \in Nat
  BY DEF IsManifest
<1>3. \A k \in DOMAIN ops : ops[k] \in SX!ToSet(ops)
  BY DEF SX!ToSet
<1> HIDE DEF ops
<1>4. ops \in Seq(SX!ToSet(ops))
  <2>1. ops = [k \in 1..Len(doc.operations) |-> ops[k]]
    BY <1>2 DEF ops
  <2> QED
    BY <1>2, <1>3, <2>1
<1> QED
  BY <1>1, <1>4 DEF IsManifest

(* ... after an edit of its rules, ...                                       *)
LEMMA RewrittenTyped ==
  ASSUME IsManifest(file), Loads(file), NEW rule
  PROVE  /\ IsManifest(AppendIgnored(file, rule))
         /\ IsManifest(AppendKilled(file, rule))
         /\ IsManifest(RemoveKilled(file, rule))
<1>1. IsManifest(Parse(file))
  BY ParseIsDecoded
<1>2. /\ IsManifest([Parse(file) EXCEPT !.ignore = @ \union {rule}])
      /\ IsManifest([Parse(file) EXCEPT !.kill = @ \union {rule}])
      /\ IsManifest([Parse(file) EXCEPT !.kill = @ \ {rule}])
  BY <1>1 DEF IsManifest
<1> QED
  BY <1>2, MarshalTyped, Zenon DEF AppendIgnored, AppendKilled, RemoveKilled

(* ... or as the recovery of what was set aside.                             *)
LEMMA RecoveryTyped ==
  ASSUME IsManifest(m), NEW S, quarantined \in Seq(S), NEW ignore, NEW kill
  PROVE  IsManifest(Recovery(ignore, kill))
<1> DEFINE doc == [m EXCEPT !.on_failure = "continue", !.ignore = ignore, !.kill = kill,
                            !.operations = quarantined]
<1>1. quarantined \in Seq(SX!ToSet(quarantined))
  BY Members
<1>2. DOMAIN doc = DOMAIN m /\ doc.operations = quarantined
  BY DEF IsManifest
<1> HIDE DEF doc
<1>3. IsManifest(doc)
  BY <1>1, <1>2 DEF IsManifest
<1> QED
  BY <1>3, MarshalTyped DEF Recovery, doc

(* The file stays a manifest, whoever writes it.                             *)
LEMMA WellFormedStep == WellFormed /\ Followed /\ [Next]_vars => WellFormed'
<1> SUFFICES ASSUME WellFormed, Followed, [Next]_vars PROVE WellFormed'
  OBVIOUS
<1>a. ASSUME file' = file, m' = m, Loaded' => Loaded PROVE WellFormed'
  BY <1>a DEF WellFormed
<1>b. ASSUME IsManifest(file'), phase' = "idle" PROVE WellFormed'
  BY <1>b DEF WellFormed, Loaded, Ready
<1>c. ASSUME Idle, file' = file PROVE WellFormed'
  BY <1>b, <1>c DEF Idle, WellFormed
<1>1. CASE Claim
  BY <1>1 DEF Claim, WellFormed, Loaded, Ready
<1>2. CASE Load
  <2>1. CASE Finalize("failed")
    BY <1>c, <2>1 DEF Finalize
  <2>2. CASE /\ Loads(file) /\ m' = ExpandAll(Parse(file))
             /\ file' = file
    <3>1. /\ IsManifest(Parse(file)) /\ ValidWindow(Parse(file).window)
          /\ \A k \in DOMAIN Parse(file).operations : Decoded(Parse(file).operations[k])
      BY <2>2, ParseIsDecoded DEF WellFormed
    <3>2. /\ IsManifest(m') /\ m'.window = Parse(file).window
          /\ \A k \in DOMAIN m'.operations : Decoded(m'.operations[k])
      BY <2>2, <3>1, ExpandAllTyped
    <3> QED
      BY <2>2, <3>1, <3>2 DEF WellFormed
  <2> QED
    BY <1>2, <2>1, <2>2 DEF Load
<1>3. CASE Gate
  BY <1>3, <1>a, <1>c DEF Gate, GracefulStop, Loaded
<1>4. CASE Preflight
  BY <1>4, <1>a, <1>c DEF Preflight, Finalize, Loaded
<1>5. CASE PlanRun
  BY <1>5, <1>a DEF PlanRun, Loaded
<1>6. CASE Drain \/ CloseWindow \/ Crash
  BY <1>6, <1>c DEF Drain, CloseWindow, Crash, GracefulStop
<1>7. CASE SkipDone \/ SkipSatisfied
  BY <1>7, <1>a DEF SkipDone, SkipSatisfied, Loaded, Ready
<1>8. CASE Execute
  BY <1>8, <1>a DEF Execute, Succeed, SetAside, Stop, Pending, AtStep, Loaded, Ready
<1>9. CASE FailFast
  BY <1>9, <1>c DEF FailFast, Finalize
<1>10. CASE Finish
  <2>1. CASE Finalize("done")
    BY <1>c, <2>1 DEF Finalize
  <2>2. CASE FinalizePartial
    <3>1. IsManifest(m) /\ quarantined \in Seq(SX!ToSet(m.operations))
      BY <1>10 DEF Finish, WellFormed, Followed, Loaded, Ready
    <3>2. IsManifest(file')
      BY <2>2, <3>1, RecoveryTyped DEF FinalizePartial
    <3> QED
      BY <1>b, <2>2, <3>2 DEF FinalizePartial, Idle
  <2> QED
    BY <1>10, <2>1, <2>2 DEF Finish
<1>11. CASE Recover \/ Resubmit \/ Drift \/ Tick
  BY <1>11, <1>a DEF Recover, Resubmit, Drift, Tick, run, Loaded, Ready
<1>12. CASE EditRules
  <2>1. PICK rule \in Rules : file' \in {AppendIgnored(file, rule), AppendKilled(file, rule),
                                        RemoveKilled(file, rule)}
    BY <1>12 DEF EditRules
  <2>2. IsManifest(file')
    BY <1>12, <2>1, RewrittenTyped DEF EditRules, WellFormed
  <2> QED
    BY <1>12, <2>2 DEF EditRules, run, WellFormed, Loaded, Ready
<1>13. CASE EditFile
  <2>1. IsManifest(file') /\ phase' = "idle"
    BY <1>13, PreparationAssumption DEF EditFile
  <2> QED
    BY <1>b, <2>1
<1>14. CASE UNCHANGED vars
  BY <1>14, <1>a DEF vars, run, Loaded, Ready
<1> QED
  BY <1>1, <1>2, <1>3, <1>4, <1>5, <1>6, <1>7, <1>8, <1>9, <1>10, <1>11, <1>12, <1>13, <1>14
     DEF Next

----------------------------------------------------------------------------
(* The cursor and the progress of a run.                                     *)

(* A cursor that is kept for a plan stays inside it, over operations that    *)
(* took effect.                                                              *)
LEMMA ReconciledShape ==
  ASSUME NEW p, Len(p) \in Nat, CursorHolds, resumeFrom = side.cursor,
         NEW fp, fp = Fingerprint(p)
  PROVE  /\ Reconciled(p) \in Nat /\ Reconciled(p) <= Len(p)
         /\ \A k \in 1..Reconciled(p) : k \in DOMAIN fp /\ fp[k] \in applied
<1>1. CASE resumeFrom > Len(p) \/ (side.fp # <<>> /\ side.fp # Fingerprint(p))
  BY <1>1 DEF Reconciled
<1>2. CASE ~(resumeFrom > Len(p)) /\ side.fp = Fingerprint(p)
  BY <1>2 DEF Reconciled, CursorHolds
<1>3. CASE ~(resumeFrom > Len(p)) /\ side.fp = <<>>
  <2>1. side.cursor \in Nat /\ \A k \in 1..side.cursor : k \in DOMAIN side.fp
    BY DEF CursorHolds
  <2>2. DOMAIN side.fp = {}
    BY <1>3
  <2>3. side.cursor = 0
    BY <2>1, <2>2
  <2> QED
    BY <1>3, <2>3 DEF Reconciled
<1> QED
  BY <1>1, <1>2, <1>3

(* An operation that took effect, and the cursor moved over it if nothing    *)
(* before it is missing.                                                     *)
LEMMA Advanced ==
  ASSUME Inv, AtStep, AdvanceCursor, applied' = applied \union {Identity(Step.op)}
  PROVE  /\ DOMAIN side' = {"there", "cursor", "fp"} /\ side'.there = side.there
         /\ side'.fp = side.fp
         /\ side'.cursor = cursor' /\ cursor' \in Nat
         /\ cursor <= cursor' /\ cursor' <= Len(plan)
         /\ \A k \in 1..cursor' : k \in DOMAIN side'.fp /\ side'.fp[k] \in applied'
<1>1. /\ plan = Plan(m, srv.server, srv.policy) /\ IsManifest(m)
      /\ side.fp = Fingerprint(plan) /\ cursor = side.cursor
      /\ cursor <= Len(plan) /\ i \in 1..(Len(plan) + 1)
  BY DEF Inv, Followed, WellFormed, AtStep, Loaded, Ready
<1>2. DOMAIN plan = 1..Len(plan) /\ Len(plan) \in Nat
  BY <1>1, PlanShape
<1>3. i \in DOMAIN plan
  BY <1>1, <1>2 DEF AtStep
<1>4. i \in DOMAIN side.fp /\ side.fp[i] = Identity(Step.op)
  BY <1>1, <1>3, FingerprintShape DEF Step
<1>5. /\ DOMAIN side = {"there", "cursor", "fp"} /\ cursor \in Nat
      /\ \A k \in 1..cursor : k \in DOMAIN side.fp /\ side.fp[k] \in applied
  BY <1>1 DEF Inv, CursorHolds
<1>6. CASE cursor = i - 1
  <2>1. cursor' = i /\ side' = [side EXCEPT !.cursor = i]
    BY <1>6 DEF AdvanceCursor
  <2>2. /\ DOMAIN side' = DOMAIN side /\ side'.there = side.there
        /\ side'.fp = side.fp /\ side'.cursor = i
    BY <1>5, <2>1
  <2>3. \A k \in 1..i : k = i \/ k \in 1..cursor
    BY <1>1, <1>2, <1>5, <1>6
  <2> QED
    BY <1>1, <1>2, <1>3, <1>4, <1>5, <1>6, <2>1, <2>2, <2>3
<1>7. CASE cursor # i - 1
  BY <1>1, <1>5, <1>7 DEF AdvanceCursor
<1> QED
  BY <1>6, <1>7

(* The cursor covers only what took effect.                                  *)
LEMMA CursorStep == Inv /\ [Next]_vars => CursorHolds'
<1> SUFFICES ASSUME Inv, [Next]_vars PROVE CursorHolds'
  OBVIOUS
<1>a. ASSUME side' = side, applied' = applied, resumeFrom' = resumeFrom,
             phase' \in {"load", "gate", "preflight", "plan"} =>
               phase \in {"load", "gate", "preflight", "plan"}
      PROVE  CursorHolds'
  BY <1>a DEF Inv, CursorHolds
<1>b. ASSUME side' = side \/ side' = NoSide, applied' = applied, phase' = "idle"
      PROVE  CursorHolds'
  <2>1. CASE side' = side
    BY <1>b, <2>1 DEF Inv, CursorHolds
  <2>2. CASE side' = NoSide
    BY <1>b, <2>2 DEF CursorHolds, NoSide
  <2> QED
    BY <1>b, <2>1, <2>2
<1>1. CASE Claim
  <2>1. side' = [side EXCEPT !.there = TRUE] /\ resumeFrom' = side.cursor /\ applied' = applied
    BY <1>1 DEF Claim, history
  <2> QED
    BY <2>1 DEF Inv, CursorHolds
<1>2. CASE Load
  <2>1. applied' = applied
    BY <1>2 DEF Load, history
  <2>2. Finalize("failed") \/ (phase' = "gate" /\ side' = side /\ resumeFrom' = resumeFrom)
    BY <1>2 DEF Load
  <2> QED
    BY <1>2, <1>a, <1>b, <2>1, <2>2 DEF Finalize, Idle, Load
<1>3. CASE Gate
  BY <1>3, <1>a, <1>b DEF Gate, GracefulStop, Idle, history
<1>4. CASE Preflight
  BY <1>4, <1>a, <1>b DEF Preflight, Finalize, Idle
<1>5. CASE PlanRun
  <2> DEFINE p == Plan(m, srv.server, srv.policy)
  <2>1. /\ side' = [side EXCEPT !.cursor = Reconciled(p), !.fp = Fingerprint(p)]
        /\ applied' = applied /\ phase' = "run" /\ phase = "plan"
    BY <1>5 DEF PlanRun, history
  <2>2. IsManifest(m) /\ resumeFrom = side.cursor /\ DOMAIN side = {"there", "cursor", "fp"}
    BY <2>1 DEF Inv, WellFormed, Loaded, CursorHolds
  <2>3. Len(p) \in Nat
    BY <2>2, PlanShape
  <2> HIDE DEF p
  <2>4. /\ Reconciled(p) \in Nat
        /\ \A k \in 1..Reconciled(p) : k \in DOMAIN Fingerprint(p) /\ Fingerprint(p)[k] \in applied
    BY <2>2, <2>3, ReconciledShape DEF Inv
  <2>5. /\ DOMAIN side' = DOMAIN side /\ side'.there = side.there
        /\ side'.cursor = Reconciled(p) /\ side'.fp = Fingerprint(p)
    BY <2>1, <2>2
  <2> QED
    BY <2>1, <2>2, <2>4, <2>5 DEF Inv, CursorHolds
<1>6. CASE Drain \/ CloseWindow \/ Crash
  BY <1>6, <1>b DEF Drain, CloseWindow, Crash, GracefulStop, Idle, history
<1>7. CASE SkipDone
  BY <1>7, <1>a DEF SkipDone, AtStep, history
<1>8. ASSUME AtStep, AdvanceCursor, applied' = applied \union {Identity(Step.op)}, phase' = phase
      PROVE  CursorHolds'
  BY <1>8, Advanced DEF Inv, CursorHolds, AtStep
<1>9. CASE SkipSatisfied
  BY <1>8, <1>9 DEF SkipSatisfied, Pending
<1>10. CASE Execute
  <2>1. PICK outcome \in Outcomes(Step.sql, Step.op) :
           Succeed \/ ((SetAside(outcome) \/ Stop(outcome)) /\ applied' = applied)
    BY <1>10 DEF Execute
  <2>2. AtStep
    BY <1>10 DEF Execute, Pending
  <2> QED
    BY <1>8, <1>a, <2>1, <2>2 DEF Succeed, SetAside, Stop, AtStep
<1>11. CASE FailFast \/ Finish
  BY <1>11, <1>b DEF FailFast, Finish, Finalize, FinalizePartial, Idle, history
<1>12. CASE Recover \/ EditRules \/ EditFile \/ Drift \/ Tick
  BY <1>12, <1>a DEF Recover, EditRules, EditFile, Drift, Tick, run, history
<1>13. CASE Resubmit
  <2>1. side' = NoSide /\ phase' = "idle"
    BY <1>13 DEF Resubmit, Inv, Placed, run
  <2> QED
    BY <2>1 DEF CursorHolds, NoSide
<1>14. CASE UNCHANGED vars
  BY <1>14, <1>a DEF vars, run, history
<1> QED
  BY <1>1, <1>2, <1>3, <1>4, <1>5, <1>6, <1>7, <1>9, <1>10, <1>11, <1>12, <1>13, <1>14 DEF Next

(* The run follows its plan.                                                 *)
LEMMA FollowedStep == Inv /\ [Next]_vars => Followed'
<1> SUFFICES ASSUME Inv, [Next]_vars PROVE Followed'
  OBVIOUS
<1>a. ASSUME phase' \notin {"run", "stop"} PROVE Followed'
  BY <1>a DEF Followed, Ready
<1>b. ASSUME plan' = plan, m' = m, srv' = srv, side' = side, cursor' = cursor, i' = i,
             resumeFrom' = resumeFrom, quarantined' = quarantined, applied' = applied,
             Ready' => Ready
      PROVE  Followed'
  BY <1>b DEF Inv, Followed
<1>c. ASSUME AtStep
      PROVE  /\ IsManifest(m) /\ plan = Plan(m, srv.server, srv.policy)
             /\ DOMAIN plan = 1..Len(plan) /\ Len(plan) \in Nat /\ i \in DOMAIN plan
             /\ Step.op = m.operations[i] /\ i \in DOMAIN m.operations /\ i + 1 \in 1..(Len(plan) + 1)
             /\ side.fp = Fingerprint(plan) /\ cursor = side.cursor /\ cursor \in Nat
             /\ resumeFrom \in Nat /\ resumeFrom <= cursor /\ cursor <= Len(plan)
             /\ quarantined \in Seq(SX!ToSet(m.operations))
             /\ quarantined = <<>> => \A k \in 1..(i - 1) : Identity(plan[k].op) \in applied
  <2>1. /\ IsManifest(m) /\ plan = Plan(m, srv.server, srv.policy)
        /\ i \in 1..(Len(plan) + 1) /\ i <= Len(plan)
    BY <1>c DEF AtStep, Inv, WellFormed, Followed, Ready, Loaded
  <2>2. /\ DOMAIN plan = 1..Len(plan) /\ Len(plan) \in Nat /\ DOMAIN plan = DOMAIN m.operations
        /\ \A k \in DOMAIN plan : plan[k].op = m.operations[k]
    BY <2>1, PlanShape
  <2>3. i \in DOMAIN plan /\ i + 1 \in 1..(Len(plan) + 1)
    BY <2>1, <2>2
  <2> QED
    BY <1>c, <2>1, <2>2, <2>3 DEF AtStep, Inv, Followed, CursorHolds, Ready, Step
<1>d. ASSUME AtStep, AdvanceCursor, applied' = applied \union {Identity(Step.op)}, i' = i + 1,
             UNCHANGED <<srv, m, plan, resumeFrom, quarantined>>
      PROVE  Followed'
  <2>1. /\ side'.fp = side.fp /\ side'.cursor = cursor' /\ cursor' \in Nat
        /\ cursor <= cursor' /\ cursor' <= Len(plan)
    BY <1>d, Advanced
  <2>2. quarantined = <<>> => \A k \in 1..(i + 1 - 1) : Identity(plan[k].op) \in applied'
    <3> SUFFICES ASSUME quarantined = <<>>, NEW k \in 1..(i + 1 - 1)
                 PROVE  Identity(plan[k].op) \in applied'
      OBVIOUS
    <3>1. k = i \/ k \in 1..(i - 1)
      BY <1>c, <1>d
    <3> QED
      BY <1>c, <1>d, <3>1 DEF Step
  <2> QED
    BY <1>c, <1>d, <2>1, <2>2 DEF Followed
<1>1. CASE Claim
  BY <1>1, <1>a DEF Claim
<1>2. CASE Load
  BY <1>2, <1>a DEF Load, Finalize, Idle
<1>3. CASE Gate \/ Preflight
  BY <1>3, <1>a DEF Gate, Preflight, GracefulStop, Finalize, Idle
<1>4. CASE PlanRun
  <2> DEFINE p == Plan(m, srv.server, srv.policy)
  <2>1. /\ side' = [side EXCEPT !.cursor = Reconciled(p), !.fp = Fingerprint(p)]
        /\ plan' = p /\ resumeFrom' = Reconciled(p) /\ cursor' = Reconciled(p)
        /\ i' = 1 /\ quarantined' = <<>> /\ m' = m /\ srv' = srv /\ phase = "plan"
    BY <1>4 DEF PlanRun
  <2>2. IsManifest(m) /\ resumeFrom = side.cursor /\ DOMAIN side = {"there", "cursor", "fp"}
    BY <2>1 DEF Inv, WellFormed, Loaded, CursorHolds
  <2>3. Len(p) \in Nat
    BY <2>2, PlanShape
  <2>4. plan' = Plan(m', srv'.server, srv'.policy)
    BY <2>1
  <2> HIDE DEF p
  <2>5. Reconciled(p) \in Nat /\ Reconciled(p) <= Len(p)
    BY <2>2, <2>3, ReconciledShape DEF Inv
  <2>6. side'.cursor = Reconciled(p) /\ side'.fp = Fingerprint(p)
    BY <2>1, <2>2
  <2>7. 1 \in 1..(Len(p) + 1) /\ (1..(1 - 1)) = {}
    BY <2>3
  <2> QED
    BY <2>1, <2>4, <2>5, <2>6, <2>7 DEF Followed
<1>5. CASE Drain \/ CloseWindow \/ Crash \/ FailFast
  BY <1>5, <1>a DEF Drain, CloseWindow, Crash, FailFast, GracefulStop, Finalize, Idle
<1>6. CASE SkipDone
  <2>1. /\ AtStep /\ i <= resumeFrom /\ i' = i + 1 /\ applied' = applied
        /\ UNCHANGED <<srv, side, m, plan, resumeFrom, cursor, quarantined>>
    BY <1>6 DEF SkipDone, history
  <2>2. i \in 1..side.cursor
    BY <1>c, <2>1
  <2>3. Identity(plan[i].op) \in applied
    BY <1>c, <2>1, <2>2, FingerprintShape DEF Inv, CursorHolds
  <2>4. quarantined = <<>> => \A k \in 1..(i + 1 - 1) : Identity(plan[k].op) \in applied
    <3> SUFFICES ASSUME quarantined = <<>>, NEW k \in 1..(i + 1 - 1)
                 PROVE  Identity(plan[k].op) \in applied
      OBVIOUS
    <3>1. k = i \/ k \in 1..(i - 1)
      BY <1>c, <2>1
    <3> QED
      BY <1>c, <2>1, <2>3, <3>1
  <2> QED
    BY <1>c, <2>1, <2>4 DEF Followed
<1>7. CASE SkipSatisfied
  BY <1>7, <1>d DEF SkipSatisfied, Pending
<1>8. CASE Execute
  <2>1. PICK outcome \in Outcomes(Step.sql, Step.op) :
           Succeed \/ ((SetAside(outcome) \/ Stop(outcome)) /\ applied' = applied)
    BY <1>8 DEF Execute
  <2>2. AtStep /\ srv' = srv
    BY <1>8 DEF Execute, Pending
  <2>3. CASE Succeed
    BY <1>d, <2>2, <2>3 DEF Succeed
  <2>4. CASE Stop(outcome) /\ applied' = applied
    <3>1. Ready
      BY <2>2 DEF AtStep, Ready
    <3> QED
      BY <1>b, <2>2, <2>4, <3>1 DEF Stop
  <2>5. CASE SetAside(outcome) /\ applied' = applied
    <3>1. Step.op \in SX!ToSet(m.operations)
      BY <1>c, <2>2 DEF SX!ToSet
    <3>2. /\ quarantined' = Append(quarantined, Step.op) /\ i' = i + 1
          /\ UNCHANGED <<side, phase, m, plan, resumeFrom, cursor>>
      BY <2>5 DEF SetAside
    <3>3. quarantined' \in Seq(SX!ToSet(m.operations)) /\ quarantined' # <<>>
      BY <1>c, <2>2, <3>1, <3>2
    <3> QED
      BY <1>c, <2>2, <3>2, <3>3 DEF Followed
  <2> QED
    BY <2>1, <2>3, <2>4, <2>5
<1>9. CASE Finish
  BY <1>9, <1>a DEF Finish, Finalize, FinalizePartial, Idle
<1>10. CASE Recover \/ EditFile \/ Resubmit
  BY <1>10, <1>a DEF Recover, EditFile, Resubmit, run
<1>11. CASE EditRules \/ Drift \/ Tick
  BY <1>11, <1>b DEF EditRules, Drift, Tick, run, history, Ready
<1>12. CASE UNCHANGED vars
  BY <1>12, <1>b DEF vars, run, history, Ready
<1> QED
  BY <1>1, <1>2, <1>3, <1>4, <1>5, <1>6, <1>7, <1>8, <1>9, <1>10, <1>11, <1>12 DEF Next

----------------------------------------------------------------------------
(* The database, and what is known of it since the preflight.                *)

(* What a statement that succeeds changes.                                   *)
LEMMA AfterChanges ==
  ASSUME CatalogTyped, NEW op, NEW after, after = After(op)
  PROVE  /\ DOMAIN after = DOMAIN cat /\ after.rights = cat.rights
         /\ DOMAIN after.comp = DOMAIN cat.comp
         /\ after.disabled \subseteq cat.disabled
         /\ \/ after.objects = cat.objects
            \/ after.objects = cat.objects \union {Target(op)}
            \/ /\ after.objects = cat.objects \ {Target(op)}
               /\ after.disabled = cat.disabled \ {Target(op)}
<1>1. {"objects", "disabled", "comp", "rights"} \subseteq DOMAIN cat
  BY DEF CatalogTyped
<1>0. Guard(op) # "" => op.operation \notin {"rebuild_index", "rebuild_heap"}
  BY Zenon DEF Guard
<1>2. CASE Guard(op) = "if_absent"
  <2>0. op.operation \notin {"rebuild_index", "rebuild_heap"} /\ Guard(op) # "if_present"
    BY <1>0, <1>2
  <2>1. after = [cat EXCEPT !.objects = @ \union {Target(op)}]
    BY <1>2, <2>0, Zenon DEF After
  <2> QED
    BY <1>1, <2>1
<1>3. CASE Guard(op) = "if_present"
  <2> DEFINE d == [cat EXCEPT !.objects = @ \ {Target(op)}]
  <2>0. op.operation \notin {"rebuild_index", "rebuild_heap"} /\ Guard(op) # "if_absent"
    BY <1>0, <1>3
  <2>1. after = [cat EXCEPT !.objects = @ \ {Target(op)}, !.disabled = @ \ {Target(op)}]
    BY <1>3, <2>0, Zenon DEF After
  <2>2. /\ DOMAIN d = DOMAIN cat /\ d.objects = cat.objects \ {Target(op)}
        /\ d.disabled = cat.disabled /\ d.comp = cat.comp /\ d.rights = cat.rights
    BY <1>1
  <2>3. after = [d EXCEPT !.disabled = @ \ {Target(op)}]
    BY <1>1, <2>1, <2>2, Zenon
  <2> HIDE DEF d
  <2> QED
    BY <1>1, <2>2, <2>3
<1>4. CASE op.operation = "rebuild_index" /\ ~IsAll(op)
  <2> DEFINE d == [cat EXCEPT !.disabled = @ \ {Target(op)}]
  <2>0. Guard(op) = ""
    BY <1>4, Zenon DEF Guard
  <2>1. after = [d EXCEPT !.comp = Recompressed(op)]
    BY <1>4, <2>0, Zenon DEF After
  <2>2. DOMAIN Recompressed(op) = DOMAIN cat.comp
    BY DEF Recompressed
  <2>3. /\ DOMAIN d = DOMAIN cat /\ d.objects = cat.objects
        /\ d.disabled = cat.disabled \ {Target(op)} /\ d.rights = cat.rights
    BY <1>1
  <2> HIDE DEF d
  <2> QED
    BY <1>1, <2>1, <2>2, <2>3
<1>5. CASE op.operation = "rebuild_heap"
  <2>0. Guard(op) = ""
    BY <1>5, Zenon DEF Guard
  <2>1. after = [cat EXCEPT !.disabled = @ \ Disabled(op.table)]
    BY <1>5, <2>0, Zenon DEF After
  <2> QED
    BY <1>1, <2>1
<1>6. CASE /\ Guard(op) \notin {"if_absent", "if_present"} /\ op.operation # "rebuild_heap"
           /\ ~(op.operation = "rebuild_index" /\ ~IsAll(op))
  <2>1. after = cat
    BY <1>6, Zenon DEF After
  <2> QED
    BY <2>1
<1> QED
  BY <1>2, <1>3, <1>4, <1>5, <1>6

(* What others change: an object comes, goes or is disabled.                 *)
LEMMA ToggleChanges ==
  ASSUME CatalogTyped, NEW o, NEW after \in Toggle(o)
  PROVE  /\ DOMAIN after = DOMAIN cat /\ DOMAIN after.comp = DOMAIN cat.comp
         /\ after.rights = cat.rights
         /\ after.disabled \subseteq cat.disabled \union {o}
         /\ \A x \in after.disabled : IsStructure(x) /\ x \in after.objects
<1>1. {"objects", "disabled", "comp", "rights"} \subseteq DOMAIN cat
  BY DEF CatalogTyped
<1>2. CASE after = [cat EXCEPT !.objects = @ \ {o}] /\ o \notin cat.disabled
  BY <1>1, <1>2 DEF CatalogTyped
<1>3. CASE /\ after = [cat EXCEPT !.disabled = @ \union {o}, !.comp[o] = [p \in DOMAIN @ |-> "NONE"]]
           /\ o \in cat.objects /\ o \in DOMAIN cat.comp
  <2> DEFINE comp == [cat.comp EXCEPT ![o] = [p \in DOMAIN @ |-> "NONE"]]
             d == [cat EXCEPT !.disabled = @ \union {o}]
             e == [d EXCEPT !.comp = comp]
  <2>1. /\ DOMAIN d = DOMAIN cat /\ d.objects = cat.objects /\ d.rights = cat.rights
        /\ d.disabled = cat.disabled \union {o} /\ d.comp = cat.comp
    BY <1>1
  <2>2. after = e
    BY <1>1, <1>3, <2>1, Zenon
  <2>3. DOMAIN comp = DOMAIN cat.comp
    OBVIOUS
  <2> HIDE DEF comp, d
  <2>4. /\ DOMAIN e = DOMAIN cat /\ e.objects = cat.objects /\ e.rights = cat.rights
        /\ e.disabled = cat.disabled \union {o} /\ e.comp = comp
    BY <1>1, <2>1
  <2> QED
    BY <1>3, <2>2, <2>3, <2>4 DEF CatalogTyped
<1>4. CASE after = [cat EXCEPT !.objects = @ \ {o}, !.disabled = @ \ {o}]
  <2> DEFINE d == [cat EXCEPT !.objects = @ \ {o}]
             e == [d EXCEPT !.disabled = @ \ {o}]
  <2>1. /\ DOMAIN d = DOMAIN cat /\ d.objects = cat.objects \ {o} /\ d.rights = cat.rights
        /\ d.disabled = cat.disabled /\ d.comp = cat.comp
    BY <1>1
  <2>2. after = e
    BY <1>1, <1>4, <2>1, Zenon
  <2> HIDE DEF d
  <2>3. /\ DOMAIN e = DOMAIN cat /\ e.objects = cat.objects \ {o} /\ e.rights = cat.rights
        /\ e.disabled = cat.disabled \ {o} /\ e.comp = cat.comp
    BY <1>1, <2>1
  <2> QED
    BY <2>2, <2>3 DEF CatalogTyped
<1>5. CASE after = [cat EXCEPT !.objects = @ \union {o}]
  BY <1>1, <1>5 DEF CatalogTyped
<1> QED
  BY <1>2, <1>3, <1>4, <1>5, Zenon DEF Toggle

(* What others do is on record.                                              *)
LEMMA DriftChanges ==
  ASSUME CatalogTyped, Drift
  PROVE  /\ CatalogTyped' /\ DOMAIN since' = {"others", "own"}
         /\ since'.others # {} /\ since.others \subseteq since'.others
         /\ cat'.disabled \subseteq cat.disabled \union since'.others
<1>0. DOMAIN since = {"others", "own"} /\ {"objects", "disabled", "comp", "rights"} \subseteq DOMAIN cat
  BY DEF CatalogTyped
<1>1. CASE \E o \in Catalog.objects : cat' \in Toggle(o) /\ since' = [since EXCEPT !.others = @ \union {o}]
  <2>1. PICK o : cat' \in Toggle(o) /\ since' = [since EXCEPT !.others = @ \union {o}]
    BY <1>1
  <2>2. since'.others = since.others \union {o} /\ DOMAIN since' = {"others", "own"}
    BY <1>0, <2>1
  <2>3. /\ DOMAIN cat' = DOMAIN cat /\ DOMAIN cat'.comp = DOMAIN cat.comp
        /\ cat'.disabled \subseteq cat.disabled \union {o}
        /\ \A x \in cat'.disabled : IsStructure(x) /\ x \in cat'.objects
    BY <2>1, ToggleChanges
  <2> QED
    BY <1>0, <2>2, <2>3 DEF CatalogTyped
<1>2. CASE \E right \in cat.rights :
             /\ cat' = [cat EXCEPT !.rights = @ \ {right}]
             /\ since' = [since EXCEPT !.others = @ \union {<<right>>}]
  <2>1. PICK right : /\ cat' = [cat EXCEPT !.rights = @ \ {right}]
                     /\ since' = [since EXCEPT !.others = @ \union {<<right>>}]
    BY <1>2
  <2>2. since'.others = since.others \union {<<right>>} /\ DOMAIN since' = {"others", "own"}
    BY <1>0, <2>1
  <2>3. DOMAIN cat' = DOMAIN cat /\ cat'.comp = cat.comp /\ cat'.disabled = cat.disabled
        /\ cat'.objects = cat.objects
    BY <1>0, <2>1
  <2> QED
    BY <1>0, <2>2, <2>3 DEF CatalogTyped
<1> QED
  BY <1>1, <1>2 DEF Drift

(* The database keeps its shape.                                             *)
LEMMA CatalogStep == Inv /\ [Next]_vars => CatalogTyped'
<1> SUFFICES ASSUME Inv, [Next]_vars PROVE CatalogTyped'
  OBVIOUS
<1>0. CatalogTyped
  BY DEF Inv
<1>a. ASSUME cat' = cat, DOMAIN since' = {"others", "own"} PROVE CatalogTyped'
  BY <1>0, <1>a DEF CatalogTyped
<1>b. ASSUME cat' = cat, since' = since PROVE CatalogTyped'
  BY <1>0, <1>b DEF CatalogTyped
<1>1. CASE Claim \/ Load \/ Gate \/ PlanRun
  BY <1>1, <1>b DEF Claim, Load, Gate, PlanRun, history
<1>2. CASE Preflight
  <2>1. cat' = cat /\ since' = NoChange
    BY <1>2 DEF Preflight
  <2> QED
    BY <1>a, <2>1 DEF NoChange
<1>3. CASE Drain \/ SkipDone \/ CloseWindow \/ SkipSatisfied \/ FailFast \/ Finish
  BY <1>3, <1>b DEF Drain, SkipDone, CloseWindow, SkipSatisfied, FailFast, Finish, history
<1>4. CASE Execute
  <2>1. Succeed \/ (cat' = cat /\ since' = since)
    BY <1>4 DEF Execute
  <2>2. CASE Succeed
    <3>1. cat' = After(Step.op) /\ since' = [since EXCEPT !.own = @ \union {Target(Step.op)[1]}]
      BY <2>2 DEF Succeed
    <3>2. DOMAIN since' = {"others", "own"}
      BY <1>0, <3>1 DEF CatalogTyped
    <3>3. /\ DOMAIN cat' = DOMAIN cat /\ DOMAIN cat'.comp = DOMAIN cat.comp
          /\ cat'.disabled \subseteq cat.disabled
          /\ \/ cat'.objects = cat.objects
             \/ cat'.objects = cat.objects \union {Target(Step.op)}
             \/ /\ cat'.objects = cat.objects \ {Target(Step.op)}
                /\ cat'.disabled = cat.disabled \ {Target(Step.op)}
      BY <1>0, <3>1, AfterChanges
    <3> QED
      BY <1>0, <3>2, <3>3 DEF CatalogTyped
  <2> QED
    BY <1>b, <2>1, <2>2
<1>5. CASE Crash \/ Recover \/ EditRules \/ EditFile \/ Resubmit \/ Tick
  BY <1>5, <1>b DEF Crash, Recover, EditRules, EditFile, Resubmit, Tick, history
<1>6. CASE Drift
  BY <1>0, <1>6, DriftChanges
<1>7. CASE UNCHANGED vars
  BY <1>7, <1>b DEF vars, history
<1> QED
  BY <1>1, <1>2, <1>3, <1>4, <1>5, <1>6, <1>7 DEF Next

(* The target of an operation on a table begins with the table.              *)
LEMMA ScopedTarget ==
  ASSUME NEW op, ~Unscoped(op)
  PROVE  Target(op)[1] = op.table
<1>1. op.operation \notin {"check_db", "shrink", "shrink_tempdb"}
  BY DEF Unscoped
<1> DEFINE c == op.operation
<1>2. CASE c \in {"rebuild_index", "create_index", "drop_index", "reorganize_index"}
  <2>1. Target(op) = <<op.table, op.index>>
    BY <1>2, Zenon DEF Target
  <2> QED
    BY <2>1
<1>3. CASE c \in {"alter_column", "add_column", "drop_column"}
  <2>1. Target(op) = <<op.table, op.column>>
    BY <1>3, Zenon DEF Target
  <2> QED
    BY <2>1
<1>4. CASE c \in {"add_constraint", "drop_constraint"}
  <2>1. Target(op) = <<op.table, op.constraint>>
    BY <1>4, Zenon DEF Target
  <2> QED
    BY <2>1
<1>5. CASE c = "update_statistics"
  <2>1. Target(op) = <<op.table, op.statistic>>
    BY <1>5, Zenon DEF Target
  <2> QED
    BY <2>1
<1>6. CASE c \notin {"rebuild_index", "create_index", "drop_index", "reorganize_index",
                    "alter_column", "add_column", "drop_column", "add_constraint",
                    "drop_constraint", "update_statistics"}
  <2>1. Target(op) = <<op.table>>
    BY <1>1, <1>6, Zenon DEF Target
  <2> QED
    BY <2>1
<1> QED
  BY <1>2, <1>3, <1>4, <1>5, <1>6

(* A statement of this run takes away only what is of its own table.         *)
LEMMA OthersUntouched ==
  ASSUME CatalogTyped, NEW op, NEW done, cat' = After(done),
         Target(op)[1] # Target(done)[1], ~Missing(op)
  PROVE  ~Missing(op)'
<1> SUFFICES ASSUME ~Unscoped(op) PROVE ~Missing(op)'
  BY DEF Missing
<1>1. Target(op)[1] = op.table
  BY ScopedTarget
<1>2. Target(op) # Target(done) /\ <<op.table>> # Target(done)
  BY <1>1
<1>3. \/ cat'.objects = cat.objects
      \/ cat'.objects = cat.objects \union {Target(done)}
      \/ cat'.objects = cat.objects \ {Target(done)}
  BY AfterChanges
<1> QED
  BY <1>2, <1>3 DEF Missing, TableExists, TargetExists

(* What the preflight established holds until somebody undoes it: a drift is *)
(* on record, and a statement touches its own table only.                    *)
LEMMA CheckedStep == Inv /\ [Next]_vars => Checked'
<1> SUFFICES ASSUME Inv, [Next]_vars PROVE Checked'
  OBVIOUS
<1>0. CatalogTyped /\ Checked
  BY DEF Inv
<1>a. ASSUME phase' \notin {"plan", "run"} PROVE Checked'
  BY <1>a DEF Checked
<1>b. ASSUME cat' = cat, since' = since, m' = m, phase' \in {"plan", "run"} => phase \in {"plan", "run"}
      PROVE  Checked'
  BY <1>0, <1>b DEF Checked, Denied, StillThere, Missing, Disabled
<1>1. CASE Claim \/ Load \/ Gate
  BY <1>1, <1>a DEF Claim, Load, Gate, GracefulStop, Finalize, Idle
<1>2. CASE Preflight
  <2>1. CASE phase' = "idle"
    BY <1>a, <2>1
  <2>2. CASE phase' # "idle"
    <3>1. PICK lost : Cleared(srv.server, m, cat, lost)
      BY <1>2, <2>2 DEF Preflight, Finalize, Idle
    <3>2. m' = m /\ cat' = cat /\ since' = NoChange
      BY <1>2, <2>2 DEF Preflight, Finalize, Idle
    <3>3. \A k \in DOMAIN m.operations :
             LET op == m.operations[k]
             IN /\ ~Denied(op)
                /\ op.operation # "reorganize_index" => ~Missing(op)
                /\ op.operation = "rebuild_heap" /\ ~op.allow_reenable_disabled_indexes
                     => Disabled(op.table) = {}
      BY <1>0, <3>1, ClearedMeans
    <3> QED
      BY <3>2, <3>3 DEF Checked, Denied, StillThere, Missing, Disabled, NoChange
  <2> QED
    BY <2>1, <2>2
<1>3. CASE PlanRun
  BY <1>3, <1>b DEF PlanRun, history
<1>4. CASE Drain \/ CloseWindow \/ FailFast \/ Finish \/ Crash
  BY <1>4, <1>a DEF Drain, CloseWindow, FailFast, Finish, Crash, GracefulStop, Finalize,
     FinalizePartial, Idle
<1>5. CASE SkipDone \/ SkipSatisfied
  BY <1>5, <1>b DEF SkipDone, SkipSatisfied, history
<1>6. CASE Execute
  <2>1. Succeed \/ (cat' = cat /\ since' = since /\ m' = m)
    BY <1>6 DEF Execute, SetAside, Stop
  <2>2. phase = "run"
    BY <1>6 DEF Execute, Pending, AtStep
  <2>3. CASE Succeed
    <3> DEFINE done == Step.op
    <3>1. /\ cat' = After(done) /\ m' = m
          /\ since' = [since EXCEPT !.own = @ \union {Target(done)[1]}]
      BY <2>3 DEF Succeed
    <3> HIDE DEF done
    <3>2. since'.others = since.others /\ since'.own = since.own \union {Target(done)[1]}
      BY <1>0, <3>1 DEF CatalogTyped
    <3>3. cat'.rights = cat.rights /\ cat'.disabled \subseteq cat.disabled
      BY <1>0, <3>1, AfterChanges
    <3> SUFFICES ASSUME NEW k \in DOMAIN m.operations, NEW op, op = m.operations[k]
                 PROVE  /\ since'.others = {} => ~Denied(op)' /\ StillThere(op)'
                        /\ op.operation = "rebuild_heap" /\ ~op.allow_reenable_disabled_indexes
                             => Disabled(op.table)' \subseteq since'.others
      BY <3>1 DEF Checked
    <3>4. /\ since.others = {} => ~Denied(op) /\ StillThere(op)
          /\ op.operation = "rebuild_heap" /\ ~op.allow_reenable_disabled_indexes
               => Disabled(op.table) \subseteq since.others
      BY <1>0, <2>2 DEF Checked
    <3>5. since.others = {} => StillThere(op)'
      <4> SUFFICES ASSUME since.others = {}, Target(op)[1] \notin since'.own,
                          op.operation # "reorganize_index"
                   PROVE  ~Missing(op)'
        BY DEF StillThere
      <4>1. ~Missing(op) /\ Target(op)[1] # Target(done)[1]
        BY <3>2, <3>4 DEF StillThere
      <4> QED
        BY <1>0, <3>1, <4>1, OthersUntouched
    <3>6. Denied(op)' <=> Denied(op)
      BY <3>3 DEF Denied
    <3>7. Disabled(op.table)' \subseteq Disabled(op.table)
      BY <3>3 DEF Disabled
    <3> QED
      BY <3>2, <3>4, <3>5, <3>6, <3>7
  <2> QED
    BY <1>b, <2>1, <2>2, <2>3
<1>7. CASE Recover \/ EditFile \/ Resubmit
  BY <1>7, <1>a DEF Recover, EditFile, Resubmit, run
<1>8. CASE EditRules \/ Tick
  BY <1>8, <1>b DEF EditRules, Tick, run, history
<1>9. CASE Drift
  <2>1. /\ since'.others # {} /\ since.others \subseteq since'.others
        /\ cat'.disabled \subseteq cat.disabled \union since'.others
    BY <1>0, <1>9, DriftChanges
  <2>2. m' = m /\ phase' = phase
    BY <1>9 DEF Drift, run
  <2>3. ASSUME NEW table, Disabled(table) \subseteq since.others
        PROVE  Disabled(table)' \subseteq since'.others
    BY <2>1, <2>3 DEF Disabled
  <2> QED
    BY <1>0, <2>1, <2>2, <2>3 DEF Checked
<1>10. CASE UNCHANGED vars
  BY <1>10, <1>b DEF vars, run, history
<1> QED
  BY <1>1, <1>2, <1>3, <1>4, <1>5, <1>6, <1>7, <1>8, <1>9, <1>10 DEF Next

(* The invariant holds.                                                      *)
LEMMA Invariance == Spec => []Inv
<1>1. Inv /\ [Next]_vars => Inv'
  <2> SUFFICES ASSUME Inv, [Next]_vars PROVE Inv'
    OBVIOUS
  <2>1. Placed' /\ WellFormed' /\ Quiet'
    BY PlacedStep, WellFormedStep, QuietStep DEF Inv
  <2>2. CursorHolds' /\ Followed' /\ CatalogTyped' /\ Checked'
    BY CursorStep, FollowedStep, CatalogStep, CheckedStep
  <2> QED
    BY <2>1, <2>2 DEF Inv
<1> QED
  BY <1>1, InitInv, PTL DEF Spec

----------------------------------------------------------------------------
(* The window.                                                               *)

(* Dividing by n, and what a number below n, or n further, leaves.           *)
LEMMA Divided ==
  ASSUME NEW n \in Nat \ {0}, NEW t \in Nat
  PROVE  /\ t \div n \in Nat /\ t % n \in 0..(n - 1)
         /\ t = (n * (t \div n)) + (t % n)
  OBVIOUS

LEMMA Remainder ==
  ASSUME NEW n \in Nat \ {0}, NEW x \in 0..(n - 1)
  PROVE  x % n = x /\ (x + n) % n = x
  OBVIOUS

(* Multiples of a positive number keep their order.                          *)
LEMMA Multiples ==
  ASSUME NEW n \in Nat \ {0}, NEW p \in Int, NEW q \in Int
  PROVE  /\ n * p \in Int /\ n * (p + 1) = n * p + n
         /\ p <= q => n * p <= n * q
  OBVIOUS

(* An hour that a window contains lies in the stretch that opened on a day   *)
(* it allows: on the day itself, or after midnight on the day before.        *)
LEMMA ContainsIsInside ==
  ASSUME NEW w, ValidWindow(w), w # Unset,
         NEW t \in 0..(HoursPerDay * DaysPerWeek - 1), Contains(w, t)
  PROVE  InsideWindow(w, t)
<1> DEFINE H == HoursPerDay
           D == DaysPerWeek
           q == t \div H
           h == t % H
           yesterday == (q + D - 1) % D
           days == IF w.days = {} THEN 0..(D - 1) ELSE w.days
           length == (w.end - w.start + H) % H
<1>1. H \in Nat \ {0} /\ D \in Nat \ {0} /\ H * D \in Nat \ {0}
  BY WindowAssumption
<1>2. w.start \in 0..(H - 1) /\ w.end \in 0..(H - 1) /\ w.start # w.end /\ w.days \subseteq 0..(D - 1)
  BY DEF ValidWindow
<1>3. t \in Nat /\ q \in Nat /\ h \in 0..(H - 1) /\ t = (H * q) + h
  <2>1. t \in Nat
    BY <1>1
  <2> QED
    BY <1>1, <2>1, Divided, Zenon
<1>4. q <= D - 1
  <2> SUFFICES ASSUME D <= q PROVE FALSE
    BY <1>1, <1>3
  <2>1. H * D <= H * q
    BY <1>1, <1>3, Multiples
  <2> HIDE DEF q, h
  <2> QED
    BY <1>1, <1>3, <2>1
<1>5. Contains(w, t) <=>
        IF w.start < w.end THEN h >= w.start /\ h < w.end /\ DayAllowed(w, q)
        ELSE \/ h >= w.start /\ DayAllowed(w, q)
             \/ h < w.start /\ h < w.end /\ DayAllowed(w, yesterday)
  BY DEF Contains, Hour, Day
<1>6. InsideWindow(w, t) <=>
        \E day \in days : (t - ((day * H) + w.start) + (H * D)) % (H * D) < length
  BY DEF InsideWindow
<1>7. ASSUME NEW d, d \in 0..(D - 1), DayAllowed(w, d)
      PROVE  d \in days
  BY <1>7 DEF DayAllowed
<1> HIDE DEF q, h, days, yesterday, length
<1>8. length \in 0..(H - 1) /\ length = IF w.start < w.end THEN w.end - w.start ELSE w.end - w.start + H
  <2>1. CASE w.start < w.end
    <3>1. w.end - w.start \in 0..(H - 1)
      BY <1>1, <1>2, <2>1
    <3> QED
      BY <1>1, <2>1, <3>1, Remainder DEF length
  <2>2. CASE w.start > w.end
    <3>1. w.end - w.start + H \in 0..(H - 1)
      BY <1>1, <1>2, <2>2
    <3>2. (w.end - w.start + H) % H = w.end - w.start + H
      BY <1>1, <3>1, Remainder
    <3>3. ~(w.start < w.end)
      BY <1>1, <1>2, <2>2
    <3> QED
      BY <3>1, <3>2, <3>3, Zenon DEF length
  <2> QED
    BY <1>2, <2>1, <2>2
<1>9. H <= H * D
  <2>1. H * 1 <= H * D
    BY <1>1, Multiples
  <2> QED
    BY <1>1, <2>1
<1>10. ASSUME NEW d \in 0..(D - 1), DayAllowed(w, d), NEW x \in 0..(length - 1),
              \/ t - ((d * H) + w.start) = x
              \/ t - ((d * H) + w.start) + (H * D) = x
       PROVE  InsideWindow(w, t)
  <2> DEFINE W == H * D
             y == t - ((d * H) + w.start)
  <2>1. W \in Nat \ {0} /\ x \in 0..(W - 1)
    BY <1>1, <1>8, <1>9
  <2>2. y = x \/ y + W = x
    BY <1>10
  <2>3. (y + W) % W = x
    <3> HIDE DEF W, y
    <3> QED
      BY <2>1, <2>2, Remainder
  <2>4. x < length /\ d \in days
    BY <1>7, <1>8, <1>10
  <2> QED
    BY <1>6, <2>3, <2>4
<1>11. CASE q \in 0..(D - 1) /\ DayAllowed(w, q) /\ h >= w.start /\ h - w.start < length
  <2>1. t - ((q * H) + w.start) = h - w.start
    BY <1>1, <1>2, <1>3
  <2>2. h - w.start \in 0..(length - 1)
    BY <1>1, <1>2, <1>3, <1>8, <1>11
  <2> QED
    BY <1>10, <1>11, <2>1, <2>2
<1>12. CASE w.start > w.end /\ h < w.end /\ DayAllowed(w, yesterday)
  <2>1. h - w.start + H \in 0..(length - 1)
    BY <1>1, <1>2, <1>3, <1>8, <1>12
  <2>2. CASE q = 0
    <3>1. yesterday = D - 1
      BY <1>1, <2>2, Remainder DEF yesterday
    <3>2. H * ((D - 1) + 1) = H * (D - 1) + H /\ H * (D - 1) \in Int /\ (D - 1) + 1 = D
      BY <1>1, Multiples
    <3>3. (D - 1) * H = H * (D - 1) /\ t = h
      BY <1>1, <1>3, <2>2
    <3>4. t - (((D - 1) * H) + w.start) + (H * D) = h - w.start + H
      <4> DEFINE a == H * (D - 1)
                 b == H * D
      <4>1. b = a + H /\ a \in Int /\ (D - 1) * H = a /\ t = h
        BY <3>2, <3>3
      <4> HIDE DEF a, b
      <4>2. t - (a + w.start) + b = h - w.start + H
        BY <1>1, <1>2, <1>3, <4>1
      <4> QED
        BY <4>1, <4>2 DEF b
    <3>5. D - 1 \in 0..(D - 1)
      BY <1>1
    <3> QED
      BY <1>10, <1>12, <2>1, <3>1, <3>4, <3>5
  <2>3. CASE q # 0
    <3>1. q - 1 \in 0..(D - 1)
      BY <1>1, <1>3, <1>4, <2>3
    <3>2. yesterday = q - 1
      <4>1. q + D - 1 = (q - 1) + D
        BY <1>1, <1>3
      <4> QED
        BY <1>1, <3>1, <4>1, Remainder DEF yesterday
    <3>3. H * ((q - 1) + 1) = H * (q - 1) + H /\ H * (q - 1) \in Int /\ (q - 1) + 1 = q
      BY <1>1, <1>3, Multiples
    <3>4. t - (((q - 1) * H) + w.start) = h - w.start + H
      <4> DEFINE a == H * (q - 1)
      <4>1. t = a + H + h /\ a \in Int /\ (q - 1) * H = a
        BY <1>1, <1>3, <3>3
      <4> HIDE DEF a
      <4> QED
        BY <1>1, <1>2, <1>3, <4>1
    <3> QED
      BY <1>10, <1>12, <2>1, <3>1, <3>2, <3>4
  <2> QED
    BY <2>2, <2>3
<1>13. CASE w.start < w.end
  BY <1>1, <1>2, <1>3, <1>4, <1>5, <1>8, <1>11, <1>13
<1>14. CASE w.start > w.end
  BY <1>1, <1>2, <1>3, <1>4, <1>5, <1>8, <1>11, <1>12, <1>14
<1> QED
  BY <1>2, <1>13, <1>14

----------------------------------------------------------------------------
(* The options of a statement.                                               *)

(* An option is chosen only where it applies, whoever asked for it.          *)
LEMMA PickedApplies ==
  ASSUME NEW applicable \in BOOLEAN, NEW default \in BOOLEAN, NEW perOp, NEW global,
         PickBool(applicable, default, perOp, global)
  PROVE  applicable
  BY DEF PickBool

(* Whether an option applies is a truth value.                               *)
LEMMA ApplicableIsBoolean ==
  ASSUME NEW server, NEW command, NEW option
  PROVE  Applicable(server, command, option) \in BOOLEAN
  BY DEF Applicable

(* What is asked of an option is asked where it applies.                     *)
LEMMA AskedApplies ==
  ASSUME NEW op, NEW server, NEW policy, NEW option, NEW default \in BOOLEAN,
         Asks(op, server, policy, option, default)
  PROVE  Applicable(server, op.operation, option)
  BY PickedApplies, ApplicableIsBoolean DEF Asks

(* What an index operation resolves to: each option applies, what needs      *)
(* ONLINE has it, and a resumable rebuild may be one.                        *)
LEMMA IndexOptionsAreLegal ==
  ASSUME NEW op, NEW server, NEW policy,
         NEW res, res = ResolveIndex(op, server, policy)
  PROVE  /\ res.online => Applicable(server, op.operation, "online")
         /\ res.resumable => /\ Applicable(server, op.operation, "resumable")
                             /\ res.online /\ ~res.sort /\ MayResume(op, server)
         /\ res.walp => /\ Applicable(server, op.operation, "wait_at_low_priority")
                        /\ res.online
         /\ res.sort => Applicable(server, op.operation, "sort_in_tempdb")
<1>1. RunsOnline(op, server, policy) => Applicable(server, op.operation, "online")
  BY AskedApplies DEF RunsOnline, AsksOnline
<1>2. AsksResumable(op, server, policy) =>
        Applicable(server, op.operation, "resumable") /\ MayResume(op, server)
  BY AskedApplies DEF AsksResumable
<1>3. AsksWait(op, server, policy) => Applicable(server, op.operation, "wait_at_low_priority")
  BY AskedApplies DEF AsksWait
<1>4. Asks(op, server, policy, "sort_in_tempdb", FALSE) =>
        Applicable(server, op.operation, "sort_in_tempdb")
  BY AskedApplies
<1> QED
  BY <1>1, <1>2, <1>3, <1>4 DEF ResolveIndex

(* The degree of parallelism of an index operation.                          *)
LEMMA IndexMaxDOP ==
  ASSUME NEW op, NEW server, NEW policy
  PROVE  ResolveIndex(op, server, policy).maxdop = MaxDOP(op, server, policy)
  BY Zenon DEF ResolveIndex

(* The commands whose WITH clause may hold every option.                     *)
IndexCommands == {"rebuild_index", "create_index", "rebuild_heap", "add_constraint"}

(* The four shapes of a WITH clause.                                         *)
LEMMA Clauses ==
  ASSUME NEW op, NEW res
  PROVE  /\ op.operation \in IndexCommands => \E comp : With(op, res) = Clause(res, comp)
         /\ op.operation = "alter_column" =>
              With(op, res) = [NoClause EXCEPT !.online = res.online]
         /\ op.operation \in {"check_db", "batch_update", "batch_delete"} =>
              With(op, res) = [NoClause EXCEPT !.maxdop = res.maxdop]
         /\ op.operation \notin IndexCommands \union
              {"alter_column", "shrink", "shrink_tempdb", "check_db", "batch_update", "batch_delete"}
              => With(op, res) = NoClause
  BY Zenon DEF With, IndexCommands

(* What a clause holds comes from the resolution, and what needs ONLINE has  *)
(* it in the clause too.                                                     *)
Keeps(w, res) ==
  /\ w.online => res.online
  /\ w.resumable => res.resumable /\ w.online /\ (w.sort => res.sort)
  /\ w.walp => res.walp /\ w.online
  /\ w.sort => res.sort
  /\ w.maxdop \in {Unset, res.maxdop}

(* Each of the four shapes keeps to the resolution.                          *)
LEMMA FullClauseKeeps ==
  ASSUME NEW res, NEW comp, NEW w, w = Clause(res, comp), res.resumable => res.online
  PROVE  Keeps(w, res)
  BY DEF Keeps, Clause

LEMMA OnlineClauseKeeps ==
  ASSUME NEW res, NEW w, w = [NoClause EXCEPT !.online = res.online]
  PROVE  Keeps(w, res)
  BY DEF Keeps, NoClause, Clause, NoOptions

LEMMA MaxDOPClauseKeeps ==
  ASSUME NEW res, NEW w, w = [NoClause EXCEPT !.maxdop = res.maxdop]
  PROVE  Keeps(w, res)
  BY DEF Keeps, NoClause, Clause, NoOptions

LEMMA NoClauseKeeps ==
  ASSUME NEW res, NEW w, w = NoClause
  PROVE  Keeps(w, res)
  BY DEF Keeps, NoClause, Clause, NoOptions

(* Whatever an operation asks for, of whatever server and under whatever     *)
(* policy, no statement is generated that combines options its server        *)
(* refuses: each is supported there, RESUMABLE and WAIT_AT_LOW_PRIORITY come *)
(* with ONLINE, and RESUMABLE without SORT_IN_TEMPDB, outside tempdb, on one *)
(* index as a whole (resolve.go, generate.go).                               *)
THEOREM OptionsAreLegal ==
  ASSUME NEW op, NEW server, NEW policy,
         op.operation = "rebuild_index" => {"index", "partition"} \subseteq DOMAIN op
  PROVE  LegalOptions(Generate(op, Resolve(op, server, policy)), server)
<1> DEFINE res == Resolve(op, server, policy)
           sql == Generate(op, res)
           w   == With(op, res)
<1>1. sql.command = op.operation /\ sql.with = w /\ sql.text = Text(op)
  BY DEF Generate
<1>2. op.operation = "rebuild_index" =>
        sql.text.index = op.index /\ sql.text.partition = op.partition
  BY <1>1 DEF Text
<1>3. MaxDOP(op, server, policy) # Unset => Applicable(server, CommandType(op), "maxdop")
  BY DEF MaxDOP
<1>4. CASE op.operation \in {"shrink", "shrink_tempdb"}
  <2>1. w.resumable = FALSE
    BY <1>4, Zenon DEF With, NoClause, Clause, NoOptions
  <2> QED
    BY <1>1, <1>4, <2>1 DEF LegalOptions
<1>5. CASE op.operation \in {"batch_update", "batch_delete"}
  <2>1. res = ResolveBatch(op, server, policy)
    BY <1>5, Zenon DEF Resolve
  <2>2. res.maxdop = MaxDOP(op, server, policy)
    BY <2>1 DEF ResolveBatch, NoOptions
  <2>3. w = [NoClause EXCEPT !.maxdop = res.maxdop]
    BY <1>5, Clauses
  <2>4. /\ w.online = FALSE /\ w.resumable = FALSE /\ w.walp = FALSE /\ w.sort = FALSE
        /\ w.maxdop = res.maxdop
    BY <2>3 DEF NoClause, Clause, NoOptions
  <2>5. CommandType(op) = op.operation
    BY <1>5 DEF CommandType
  <2> QED
    BY <1>1, <1>3, <1>5, <2>2, <2>4, <2>5 DEF LegalOptions
<1>6. CASE op.operation \notin {"shrink", "shrink_tempdb", "batch_update", "batch_delete"}
  <2>1. res = ResolveIndex(op, server, policy)
    BY <1>6, Zenon DEF Resolve
  <2>2. CommandType(op) = op.operation
    BY <1>6 DEF CommandType
  <2>3. res.maxdop = MaxDOP(op, server, policy)
    BY <2>1, IndexMaxDOP
  <2>4. Keeps(w, res)
    <3>1. CASE op.operation \in IndexCommands
      BY <2>1, <3>1, Clauses, FullClauseKeeps, IndexOptionsAreLegal
    <3>2. CASE op.operation = "alter_column"
      BY <3>2, Clauses, OnlineClauseKeeps
    <3>3. CASE op.operation = "check_db"
      BY <3>3, Clauses, MaxDOPClauseKeeps
    <3>4. CASE op.operation \notin IndexCommands \union {"alter_column", "check_db"}
      BY <1>6, <3>4, Clauses, NoClauseKeeps
    <3> QED
      BY <3>1, <3>2, <3>3, <3>4
  <2>5. res.resumable => ~IsAll(op) /\ ~IsSinglePartition(op) /\ server.database # "tempdb"
    BY <2>1, IndexOptionsAreLegal DEF MayResume
  <2> SUFFICES LegalOptions(sql, server)
    OBVIOUS
  <2> HIDE DEF res, sql, w
  <2>6. op.operation = "rebuild_index" /\ res.resumable =>
          op.index # "ALL" /\ op.partition = Unset
    BY <2>5 DEF IsAll, IsSinglePartition
  <2>7. /\ w.online => Applicable(server, op.operation, "online")
        /\ w.resumable => Applicable(server, op.operation, "resumable") /\ ~w.sort
        /\ w.walp => Applicable(server, op.operation, "wait_at_low_priority")
        /\ w.sort => Applicable(server, op.operation, "sort_in_tempdb")
        /\ w.maxdop # Unset => Applicable(server, op.operation, "maxdop")
    BY <1>3, <2>1, <2>2, <2>3, <2>4, IndexOptionsAreLegal DEF Keeps
  <2> QED
    BY <1>1, <1>2, <2>4, <2>5, <2>6, <2>7 DEF Keeps, LegalOptions
<1> QED
  BY <1>4, <1>5, <1>6

(* The plan resolves each operation for the database it runs in, and a named *)
(* index for the storage it was found to have: what is refused all the same  *)
(* is the rebuild of a named index whose storage nobody looked up.           *)
LEMMA RefusedIsOffline ==
  ASSUME Inv, AtStep, ~Compiles(Step.sql, InDatabase(srv.server, m.database), StorageOf(Step.op))
  PROVE  NamedOffline(Step.op)
<1> DEFINE server == InDatabase(srv.server, m.database)
<1>1. PICK op : op = m.operations[i] /\ Decoded(op) /\ Step.op = op
                /\ Step.sql = Generate(op, Resolve(op, server, srv.policy))
  <2>1. /\ plan = Plan(m, srv.server, srv.policy) /\ IsManifest(m) /\ i \in 1..(Len(plan) + 1)
        /\ i <= Len(plan) /\ \A k \in DOMAIN m.operations : Decoded(m.operations[k])
    BY DEF AtStep, Inv, WellFormed, Followed, Ready, Loaded
  <2>2. /\ DOMAIN plan = 1..Len(plan) /\ Len(plan) \in Nat /\ DOMAIN plan = DOMAIN m.operations
        /\ \A k \in DOMAIN plan :
             /\ plan[k].op = m.operations[k]
             /\ plan[k].sql = Generate(m.operations[k],
                                Resolve(m.operations[k], server, srv.policy))
    BY <2>1, PlanShape
  <2>3. i \in DOMAIN plan
    BY <2>1, <2>2
  <2> QED
    BY <2>1, <2>2, <2>3 DEF Step
<1> HIDE DEF server
<1>2. op.operation = "rebuild_index" => {"index", "partition"} \subseteq DOMAIN op
  BY <1>1 DEF Decoded
<1> DEFINE res == Resolve(op, server, srv.policy)
           sql == Generate(op, res)
<1>3. LegalOptions(sql, server)
  BY <1>2, OptionsAreLegal
<1>4. ~LegalStorage(sql, StorageOf(op))
  BY <1>1, <1>3 DEF Compiles, server
<1>5. StorageOf(op) # "rowstore"
  BY <1>4 DEF LegalStorage
<1>6. op.operation = "rebuild_index"
  BY <1>5 DEF StorageOf
<1>7. PICK k \in DOMAIN Structures :
         Structure(Structures[k]) = Target(op) /\ StorageOf(op) = Structures[k].storage
  <2> DEFINE named == {s \in StructuresOf(cat, Target(op)[1]) : Structure(s) = Target(op)}
  <2>1. named # {} /\ StorageOf(op) = (CHOOSE s \in named : TRUE).storage
    BY <1>5, <1>6 DEF StorageOf
  <2> DEFINE s == CHOOSE x \in named : TRUE
  <2>2. s \in named /\ StorageOf(op) = s.storage
    BY <2>1
  <2> QED
    BY <2>2 DEF StructuresOf
<1>8. CASE op.storage = "unknown"
  BY <1>1, <1>5, <1>6, <1>7, <1>8 DEF NamedOffline
<1>9. CASE op.storage # "unknown"
  <2>1. PICK j \in DOMAIN Structures :
           /\ Structure(Structures[j]) = Target(op) /\ op.storage = Structures[j].storage
           /\ SupportsOnline(op.storage) \/ op.data_compression = ""
    BY <1>1, <1>9 DEF Decoded
  <2>2. j = k
    BY <1>7, <2>1, StructuresAssumption
  <2>3. ~SupportsOnline(op.storage)
    BY <1>5, <1>7, <1>9, <2>1, <2>2 DEF SupportsOnline
  <2>4. res = ResolveIndex(op, server, srv.policy)
    BY <1>6, Zenon DEF Resolve
  <2>5. ~RunsOnline(op, server, srv.policy)
    BY <1>6, <2>3 DEF RunsOnline, AsksOnline, AsksResumable, AsksWait, OnlineStorage
  <2>6. ~res.online /\ ~res.resumable
    <3> HIDE DEF res
    <3> QED
      BY <2>4, <2>5 DEF ResolveIndex
  <2>7. sql.with = Clause(res, op.data_compression)
    <3>1. sql.with = With(op, res)
      BY DEF Generate
    <3>2. With(op, res) = Clause(res, op.data_compression)
      BY <1>6, Zenon DEF With
    <3> QED
      BY <3>1, <3>2
  <2> HIDE DEF res, sql
  <2>8. ~sql.with.online /\ ~sql.with.resumable /\ sql.with.comp = ""
    <3> DEFINE w == Clause(res, op.data_compression)
    <3>1. w.online = res.online /\ w.resumable = res.resumable /\ w.comp = op.data_compression
      BY DEF Clause
    <3> HIDE DEF w
    <3>2. sql.with = w
      BY <2>7 DEF w
    <3> QED
      BY <2>1, <2>3, <2>6, <3>1, <3>2
  <2> QED
    BY <1>4, <2>8 DEF LegalStorage
<1> QED
  BY <1>8, <1>9

----------------------------------------------------------------------------
(* What is known of the last statement.                                      *)

(* The four promises about the last statement.                               *)
Statement == AcceptedByServer /\ PreflightSuffices /\ ReenabledKnowingly /\ WindowHonoured

(* Nothing sent, nothing broken.                                             *)
LEMMA SilenceIsSafe ==
  ASSUME sent' = NoStatement
  PROVE  Statement'
BY DEF Statement, AcceptedByServer, PreflightSuffices, ReenabledKnowingly, WindowHonoured,
   NoStatement

(* The promises are about the moment the statement was sent.                 *)
LEMMA KeptIsSafe ==
  ASSUME Statement, sent' = sent, m' = m
  PROVE  Statement'
BY DEF Statement, AcceptedByServer, PreflightSuffices, ReenabledKnowingly, WindowHonoured

(* A statement that is sent keeps its promises, however the server takes it. *)
LEMMA ExecuteIsSafe ==
  ASSUME Inv, Execute
  PROVE  Statement'
<1>1. /\ AtStep /\ WindowOpen(m.window, FALSE) /\ m' = m
      /\ \E outcome \in Outcomes(Step.sql, Step.op) : sent' = Sent(outcome)
  BY DEF Execute, Pending, Succeed, SetAside, Stop
<1>2. PICK outcome \in Outcomes(Step.sql, Step.op) : sent' = Sent(outcome)
  BY <1>1
<1>3. /\ sent'.outcome = outcome /\ sent'.op = Step.op /\ sent'.at = now /\ sent'.since = since
      /\ sent'.disabled = IF Unscoped(Step.op) THEN {} ELSE Disabled(Step.op.table)
  BY <1>2 DEF Sent
<1>4. AcceptedByServer'
  <2> SUFFICES ASSUME outcome = "refused" PROVE NamedOffline(Step.op)
    BY <1>3 DEF AcceptedByServer, NamedOffline
  <2>1. ~Compiles(Step.sql, InDatabase(srv.server, m.database), StorageOf(Step.op))
    BY <1>2 DEF Outcomes
  <2> QED
    BY <1>1, <2>1, RefusedIsOffline
<1>5. PICK k \in DOMAIN m.operations : Step.op = m.operations[k]
  <2>1. /\ plan = Plan(m, srv.server, srv.policy) /\ IsManifest(m)
        /\ i \in 1..(Len(plan) + 1) /\ i <= Len(plan)
    BY <1>1 DEF AtStep, Inv, WellFormed, Followed, Ready, Loaded
  <2>2. /\ DOMAIN plan = 1..Len(plan) /\ Len(plan) \in Nat /\ DOMAIN plan = DOMAIN m.operations
        /\ \A n \in DOMAIN plan : plan[n].op = m.operations[n]
    BY <2>1, PlanShape
  <2>3. i \in DOMAIN plan
    BY <2>1, <2>2
  <2> QED
    BY <2>2, <2>3 DEF Step
<1>6. /\ since.others = {} => ~Denied(Step.op) /\ StillThere(Step.op)
      /\ Step.op.operation = "rebuild_heap" /\ ~Step.op.allow_reenable_disabled_indexes
           => Disabled(Step.op.table) \subseteq since.others
  BY <1>1, <1>5 DEF Inv, Checked, AtStep
<1>7. PreflightSuffices'
  <2> SUFFICES ASSUME outcome \in {"missing", "denied"}, since.others = {},
                      Target(Step.op)[1] \notin since.own,
                      Step.op.operation # "reorganize_index"
               PROVE  FALSE
    BY <1>3 DEF PreflightSuffices
  <2>1. Denied(Step.op) \/ Missing(Step.op)
    BY <1>2 DEF Outcomes
  <2> QED
    BY <1>6, <2>1 DEF StillThere
<1>8. ReenabledKnowingly'
  <2>1. Step.op.operation = "rebuild_heap" => ~Unscoped(Step.op)
    BY DEF Unscoped
  <2> QED
    BY <1>3, <1>6, <2>1 DEF ReenabledKnowingly
<1>9. WindowHonoured'
  <2> SUFFICES ASSUME m.window # Unset PROVE InsideWindow(m.window, now)
    BY <1>1, <1>3 DEF WindowHonoured, InsideWindow
  <2>1. Contains(m.window, now)
    BY <1>1 DEF WindowOpen
  <2>2. ValidWindow(m.window) /\ now \in 0..(HoursPerDay * DaysPerWeek - 1)
    BY <1>1 DEF Inv, WellFormed, Placed, AtStep, Loaded, Ready
  <2> QED
    BY <2>1, <2>2, ContainsIsInside
<1> QED
  BY <1>4, <1>7, <1>8, <1>9 DEF Statement

(* Every step keeps the promises.                                            *)
LEMMA StatementStep == Inv /\ Statement /\ [Next]_vars => Statement'
<1> SUFFICES ASSUME Inv, Statement, [Next]_vars PROVE Statement'
  OBVIOUS
<1>1. CASE Claim \/ PlanRun \/ SkipDone \/ SkipSatisfied
  BY <1>1, KeptIsSafe DEF Claim, PlanRun, SkipDone, SkipSatisfied
<1>2. CASE Load
  <2>1. sent' = NoStatement
    BY <1>2 DEF Load, Finalize, Idle, Inv, Quiet, Ready
  <2> QED
    BY <2>1, SilenceIsSafe
<1>3. CASE Gate \/ Preflight
  BY <1>3, KeptIsSafe, SilenceIsSafe DEF Gate, Preflight, GracefulStop, Finalize, Idle
<1>4. CASE Drain \/ CloseWindow \/ FailFast \/ Finish \/ Crash
  BY <1>4, SilenceIsSafe DEF Drain, CloseWindow, FailFast, Finish, Crash, GracefulStop,
     Finalize, FinalizePartial, Idle
<1>5. CASE Execute
  BY <1>5, ExecuteIsSafe
<1>6. CASE EditFile
  <2>1. sent' = NoStatement
    BY <1>6 DEF EditFile, Inv, Quiet, Ready
  <2> QED
    BY <2>1, SilenceIsSafe
<1>7. CASE Recover \/ EditRules \/ Resubmit \/ Drift \/ Tick
  BY <1>7, KeptIsSafe DEF Recover, EditRules, Resubmit, Drift, Tick, run
<1>8. CASE UNCHANGED vars
  BY <1>8, KeptIsSafe DEF vars, run
<1> QED
  BY <1>1, <1>2, <1>3, <1>4, <1>5, <1>6, <1>7, <1>8 DEF Next

(* The promises hold of every run.                                           *)
LEMMA StatementsAreSafe == Spec => []Statement
<1>1. Init => Statement
  BY DEF Init, Statement, AcceptedByServer, PreflightSuffices, ReenabledKnowingly,
     WindowHonoured, NoStatement
<1> QED
  BY <1>1, StatementStep, Invariance, PTL DEF Spec

----------------------------------------------------------------------------
(* The results.                                                              *)

(* A manifest that is worked on is in processing, the cursor and the next    *)
(* operation stay inside the plan, and the clock inside the week.            *)
THEOREM PreparationTyped == Spec => []TypeOK
<1>1. Inv => TypeOK
  <2> SUFFICES ASSUME Inv PROVE TypeOK
    OBVIOUS
  <2>1. Placed /\ side.there \in BOOLEAN /\ side.cursor \in Nat
    BY DEF Inv, CursorHolds
  <2>2. cursor <= Len(plan) /\ i <= Len(plan) + 1
    <3>1. CASE Ready
      BY <3>1 DEF Inv, Followed
    <3>2. CASE ~Ready
      <4>1. plan = <<>> /\ i = 1 /\ cursor = 0
        BY <3>2 DEF Inv, Quiet
      <4> QED
        BY <4>1
    <3> QED
      BY <3>1, <3>2
  <2> QED
    BY <2>1, <2>2 DEF TypeOK, Placed
<1> QED
  BY <1>1, Invariance, PTL

(* Whatever the manifest asks for and on whatever server, the server refuses *)
(* to compile no statement but the rebuild of a named index whose storage    *)
(* was not looked up (Resolve in resolve.go, Expand in expand.go).           *)
THEOREM StatementsCompile == Spec => []AcceptedByServer
<1>1. Statement => AcceptedByServer
  BY DEF Statement
<1> QED
  BY <1>1, StatementsAreSafe, PTL

(* What the preflight cleared has its object and its rights when it is sent, *)
(* unless somebody else or an earlier operation took them (preflight.go).    *)
THEOREM ClearedIsThere == Spec => []PreflightSuffices
<1>1. Statement => PreflightSuffices
  BY DEF Statement
<1> QED
  BY <1>1, StatementsAreSafe, PTL

(* A heap rebuild brings back no index that the preflight knew was disabled  *)
(* unless the operation allows it (CheckReenabledIndexes).                   *)
THEOREM NothingReenabledUnasked == Spec => []ReenabledKnowingly
<1>1. Statement => ReenabledKnowingly
  BY DEF Statement
<1> QED
  BY <1>1, StatementsAreSafe, PTL

(* No operation starts outside the window of its manifest, for any length of *)
(* the day and of the week (MaintenanceWindow.Contains in window.go).        *)
THEOREM WindowIsKept == Spec => []WindowHonoured
<1>1. Statement => WindowHonoured
  BY DEF Statement
<1> QED
  BY <1>1, StatementsAreSafe, PTL

(* A manifest ends in done only when every operation of its plan has taken   *)
(* effect since it was submitted: nothing the cursor lets a run skip was     *)
(* left undone (the loop and finalize in engine.go).                         *)
THEOREM DoneIsDone == Spec => DoneMeansApplied
<1> DEFINE A == phase = "run" /\ place' = "done" =>
                  \A k \in DOMAIN plan : Identity(plan[k].op) \in applied
<1>1. ASSUME Inv, [Next]_vars PROVE [A]_vars
  <2> SUFFICES ASSUME phase = "run", place' = "done"
               PROVE  \A k \in DOMAIN plan : Identity(plan[k].op) \in applied
    OBVIOUS
  <2>1. place = "processing"
    BY <1>1 DEF Inv, Placed
  <2>2. Finish
    BY <1>1, <2>1 DEF Next, Claim, Load, Gate, Preflight, PlanRun, Drain, SkipDone, CloseWindow,
       SkipSatisfied, Execute, Succeed, SetAside, Stop, FailFast, Finalize, GracefulStop, Crash,
       Recover, EditRules, EditFile, Resubmit, Drift, Tick, vars
  <2>3. i > Len(plan) /\ quarantined = <<>>
    BY <2>2 DEF Finish, FinalizePartial
  <2>4. /\ plan = Plan(m, srv.server, srv.policy) /\ IsManifest(m) /\ i \in 1..(Len(plan) + 1)
        /\ \A k \in 1..(i - 1) : Identity(plan[k].op) \in applied
    BY <1>1, <2>3 DEF Inv, WellFormed, Followed, Ready, Loaded
  <2>5. DOMAIN plan = 1..Len(plan) /\ Len(plan) \in Nat
    BY <2>4, PlanShape
  <2> QED
    BY <2>3, <2>4, <2>5
<1> QED
  BY <1>1, Invariance, PTL DEF Spec, DoneMeansApplied
=============================================================================

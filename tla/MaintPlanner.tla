---------------------------- MODULE MaintPlanner ----------------------------
(* Night after night, sqlgopace plan measures a database, decides, and       *)
(* publishes one manifest per category into the queue; a run empties it; the *)
(* database drifts in between.  A shrink records the objects it could not    *)
(* get past, and the operator may hand that sidecar to the next plan.        *)
(* Abstracted: the inventory is the constant layout below; an analysis is    *)
(* one step, whose reads of single objects may each fail; a glob is a set.   *)
EXTENDS MaintDecide, FiniteSets, SequencesExt, FiniteSetsExt

CONSTANTS
  Tables, HeapTables,     \* the tables, and which have no clustered index
  Indexes, TableOf,       \* the rowstore indexes, and their tables
  ColumnStats, StatTable, \* statistics that back no index, and their tables
  Inventory,              \* the structures in the order they are read
  PartsOf,                \* partitions of an index, or of a heap
  Pages, MB, KB,          \* per partition: pages, size, estimated size by tier
  Rows, StaleMods,        \* of every statistic
  FragLevels, Connected,
  Full,                   \* how full a rewrite leaves the pages, in percent
  Starts,                 \* the profile as written, the categories, the state of the
                          \* database, and how many adverse events may follow
  MaxLost                 \* reads that fail in one analysis

VARIABLES
  profile, cats,     \* as loaded; fixed for the history
  frag, tier,        \* by partition
  hot, forwarded, loose, stale, disabled, \* sets: see Measure
  unpublished,       \* the plan's manifests not yet renamed into the queue
  queue,             \* category -> the operations of its manifest in the queue
  claimed,           \* the operations left of the manifest that is running
  captured,          \* the contended objects of the last shrink
  pass,              \* the last pre-shrink pass: whether it was given the sidecar,
                     \* the tables it reorganizes in order, the heaps it advises on
  owed,              \* statistics due when last analysed, not refreshed since
  calm,              \* nothing but the plan happened since it was analysed
  budget             \* drifts, lost reads, failures, crashes and captures to come

db == <<frag, tier, hot, forwarded, loose, stale, disabled>>
plannerVars == <<profile, cats, db, unpublished, queue, claimed, captured, pass,
                 owed, calm, budget>>

Structures == Indexes \union HeapTables
Part       == UNION {{s} \X (1..PartsOf[s]) : s \in Structures}
Stats      == Indexes \union ColumnStats
Files      == <<"checkdb", "index", "heap", "statistics", "shrink">>

\* A name is one structure; a level is a percentage; a profile is what the file
\* can hold.
ASSUME PlannerAssumption ==
  /\ HeapTables \subseteq Tables /\ Indexes \cap HeapTables = {}
  /\ TableOf \in [Indexes -> Tables]
  /\ PartsOf \in [Structures -> Nat \ {0}]
  /\ KB \in [Structures -> [Tiers -> Nat]]
  /\ FragLevels \subseteq 0..100 /\ FragLevels # {} /\ Full \in 50..100
  /\ \A start \in Starts : start.raw \in YamlProfile
                           /\ start.frag \in [Structures -> FragLevels]

Owner(s) == IF s \in Indexes THEN TableOf[s] ELSE s
StatOwner(s) == IF s \in Indexes THEN TableOf[s] ELSE StatTable[s]
PartsIn(s) == {x \in Part : x[1] = s}
IndexesOf(t) == {i \in Indexes : TableOf[i] = t}

\* A disabled index keeps its metadata and loses its rows of the inventory.
Live(s) == \A t \in HeapTables : s \notin disabled[t]

Has(category) == cats = {} \/ category \in cats
WantsCompression == Has("compression") /\ profile.comp.enabled

----------------------------------------------------------------------------
(* Measuring                                                                *)

\* Nothing higher to try for a structure already in PAGE.
Estimable(x) == tier[x] \in {"none", "row"}

SizeAt(level, name, parts) == KB[name][level] * Cardinality(parts)

CurrentSize(name, parts) ==
  LET At(level) == SizeAt(level, name, {x \in parts : tier[x] = level})
  IN At("none") + At("row") + At("page")

EstimateFor(parts, name, lost) ==
  IF <<"estimate", name>> \in lost THEN NoEstimate
  ELSE [known |-> TRUE, current |-> CurrentSize(name, parts),
        row |-> SizeAt("row", name, parts), page |-> SizeAt("page", name, parts)]

Density(s) == IF s \in loose THEN 50 ELSE Full
WorstFrag(parts) == Max({frag[x] : x \in parts})

WriteFor(name, lost) ==
  IF <<"activity", name>> \in lost THEN NoActivity
  ELSE [known |-> TRUE, writes |-> IF name \in hot THEN 1000 ELSE 0, reads |-> 1000]

\* One measurement per partition when the profile asks for it, else one for the
\* index: its total size, its worst fragmentation, its first partition's tier.
Groups(i) ==
  IF WantsCompression /\ profile.comp.perPart /\ PartsOf[i] > 1
  THEN {[parts |-> {x}, part |-> x[2], head |-> x] : x \in PartsIn(i)}
  ELSE {[parts |-> PartsIn(i), part |-> 0, head |-> <<i, 1>>]}

IndexMeasurement(i, g, lost) ==
  LET opinion == /\ WantsCompression /\ Estimable(g.head)
                 /\ CompressesObject(profile, TableOf[i], i)
  IN [table |-> TableOf[i], index |-> i, part |-> g.part,
      pages |-> IF Has("index") THEN Pages[i] * Cardinality(g.parts) ELSE 0,
      mb |-> MB[i] * Cardinality(g.parts),
      frag |-> IF Has("index") THEN WorstFrag(g.parts) ELSE 0,
      current |-> tier[g.head],
      estimate |-> IF opinion THEN EstimateFor(g.parts, i, lost) ELSE NoEstimate,
      write |-> IF opinion THEN WriteFor(i, lost) ELSE NoActivity]

IndexMeasurements(i, lost) ==
  IF Has("index") /\ <<"physical", i>> \in lost THEN {}
  ELSE {IndexMeasurement(i, g, lost) : g \in Groups(i)}

\* The rebuild of a heap rebuilds its indexes too.
RewriteMB(t, asleep) ==
  MB[t] * PartsOf[t] + MapThenSumSet(LAMBDA i : MB[i] * PartsOf[i], IndexesOf(t) \ asleep)

\* A heap out of bounds, or one of whose reads fails, is left out.  Beside a
\* disabled index nothing is scanned: the decision stops at the index.
LeavesOut(t, lost) ==
  \/ MB[t] * PartsOf[t] < profile.heap.min \/ RewriteMB(t, disabled[t]) > profile.heap.max
  \/ <<"disabled", t>> \in lost
  \/ disabled[t] = {} /\ <<"physical", t>> \in lost

HeapMeasurement(t, lost) ==
  LET opinion == WantsCompression /\ CompressesObject(profile, t, NoName)
  IN [table |-> t, mb |-> MB[t] * PartsOf[t], rewriteMB |-> RewriteMB(t, disabled[t]),
      disabled |-> disabled[t],
      forwarded |-> IF t \in forwarded THEN 20 ELSE 0, records |-> 100,
      frag |-> WorstFrag(PartsIn(t)),
      density |-> Density(t), current |-> tier[<<t, 1>>],
      estimate |-> IF opinion THEN EstimateFor(PartsIn(t), t, lost) ELSE NoEstimate,
      write |-> IF opinion THEN WriteFor(t, lost) ELSE NoActivity]

StatMeasurements(lost) ==
  {[table |-> StatOwner(s), stat |-> s, rows |-> Rows,
    mods |-> IF s \in stale THEN StaleMods ELSE 0] :
     s \in {x \in Stats : <<"stats", StatOwner(x)>> \notin lost}}

\* buildInput
Measure(lost) ==
  [indexes |-> IF Has("index") \/ WantsCompression
               THEN UNION {IndexMeasurements(i, lost) : i \in {j \in Indexes : Live(j)}}
               ELSE {},
   heaps   |-> IF Has("heaps") /\ profile.heap.enabled
               THEN {HeapMeasurement(t, lost) : t \in {h \in HeapTables : ~LeavesOut(h, lost)}}
               ELSE {},
   stats   |-> IF Has("statistics") /\ profile.stats.enabled
               THEN StatMeasurements(lost) ELSE {},
   connected |-> Connected]

Analyze(lost) == Decide(Measure(lost), profile)

----------------------------------------------------------------------------
(* The pass before a shrink                                                 *)

\* The sidecar as the planner reads it: what was only pinned by maintenance of
\* somebody else's is not a blocker.
ConfirmedSet ==
  [t \in {x \in DOMAIN captured : ~captured[x].transient} |->
     [times |-> captured[t].times, tail |-> captured[t].tail,
      fromEnd |-> captured[t].fromEnd]]

PreShrinkIndexes(lost) ==
  {[table |-> TableOf[i], index |-> i, pages |-> Pages[i] * PartsOf[i],
    density |-> Density(i),
    order |-> CHOOSE n \in DOMAIN Inventory : Inventory[n] = i] :
     i \in {j \in Indexes : Live(j) /\ <<"physical", j>> \notin lost}}

PreShrinkHeaps(lost) ==
  {[table |-> t, mb |-> MB[t] * PartsOf[t], density |-> Density(t)] :
     t \in {h \in HeapTables : <<"physical", h>> \notin lost}}

\* Only a data shrink with pre_reorganize on is preceded by the pass.
PassRuns == profile.shrink.enabled /\ profile.shrink.type = "data" /\ profile.shrink.pre

PreShrink(confirmed, lost) ==
  IF PassRuns
  THEN LET chosen == ToReorganize(PreShrinkIndexes(lost), profile, confirmed)
       IN SetToSortSeq(chosen, LAMBDA a, b : Before(a, b, confirmed))
  ELSE <<>>

Advised(confirmed, lost) ==
  IF PassRuns THEN {m.table : m \in HeapAdvisories(PreShrinkHeaps(lost), profile, confirmed)}
  ELSE {}

ShrinkOp == Decision("shrink", "shrink", NoName, NoName, 0, "", "")
Shrinking == Decision("shrink", "shrinking", NoName, NoName, 0, "", "")

ShrinkManifest(names) ==
  {Decision("shrink", "reorganize_index", names[n].table, names[n].index, 0, "", "") :
     n \in DOMAIN names} \union {ShrinkOp}

----------------------------------------------------------------------------
(* Planning and publishing                                                  *)

Nothing == [c \in ToSet(Files) |-> {}]

ByCategory(ops) == [c \in ToSet(Files) |-> {d \in ops : d.category = c}]

First(manifests) ==
  Files[CHOOSE n \in DOMAIN Files : /\ manifests[Files[n]] # {}
                                    /\ \A k \in 1..(n - 1) : manifests[Files[k]] = {}]

\* The statistics an analysis finds due, whatever becomes of them.
Due(lost) ==
  {m.stat : m \in {x \in Measure(lost).stats :
                     /\ ReachesThreshold(x, profile)
                     /\ ~OverrideFor(profile, x.table).skip}}

Plan(lost, given) ==
  LET confirmed == IF given THEN ConfirmedSet ELSE << >>
      names     == PreShrink(confirmed, lost)
  IN /\ unpublished = Nothing
     /\ Cardinality(lost) <= budget
     /\ given => profile.shrink.enabled /\ DOMAIN captured # {}
     /\ unpublished' = [ByCategory(Operations(Analyze(lost))) EXCEPT
                          !["shrink"] = IF profile.shrink.enabled
                                        THEN ShrinkManifest(names) ELSE {}]
     /\ pass' = [given |-> given, tables |-> [n \in DOMAIN names |-> names[n].table],
                 advised |-> Advised(confirmed, lost)]
     /\ owed' = Due(lost)
     /\ calm' = (lost = {} /\ queue = Nothing /\ claimed = {})
     /\ budget' = budget - Cardinality(lost)
     /\ UNCHANGED <<profile, cats, db, queue, claimed, captured>>

\* A manifest is staged and renamed: it appears whole, over one of its name
\* that nobody has claimed.
Publish ==
  /\ unpublished # Nothing
  /\ LET c == First(unpublished)
     IN /\ queue' = [queue EXCEPT ![c] = unpublished[c]]
        /\ unpublished' = [unpublished EXCEPT ![c] = {}]
  /\ UNCHANGED <<profile, cats, db, claimed, captured, pass, owed, calm, budget>>

\* The planner dies with only some of its manifests published.
PlannerDies ==
  /\ unpublished # Nothing
  /\ budget > 0
  /\ budget' = budget - 1
  /\ unpublished' = Nothing
  /\ calm' = FALSE
  /\ UNCHANGED <<profile, cats, db, queue, claimed, captured, pass, owed>>

----------------------------------------------------------------------------
(* Running: what the server makes of an operation                           *)

Rewrites(op) ==
  CASE op.kind \in {"rebuild_index", "reorganize_index"} ->
         {x \in PartsIn(op.name) : op.part \in {0, x[2]}}
    [] op.kind = "rebuild_heap" ->
         PartsIn(op.table) \union UNION {PartsIn(i) : i \in IndexesOf(op.table)}
    [] OTHER -> {}

\* A heap's rebuild compresses the heap; its indexes keep their compression.
Recompresses(op) ==
  IF op.tier = "" THEN {}
  ELSE IF op.kind = "rebuild_heap" THEN PartsIn(op.table)
  ELSE Rewrites(op)

Refreshes(op) ==
  CASE op.kind = "update_statistics" -> {op.name}
    [] RebuildsWhole(op) -> {op.name}
    [] op.kind = "rebuild_heap" -> IndexesOf(op.table)
    [] OTHER -> {}

\* The engine takes the manifests in the order of their names.
Claim ==
  /\ claimed = {} /\ queue # Nothing
  /\ claimed' = queue[First(queue)]
  /\ queue' = [queue EXCEPT ![First(queue)] = {}]
  /\ UNCHANGED <<profile, cats, db, unpublished, captured, pass, owed, calm, budget>>

\* The operations of a manifest run in a fixed order, the shrink of a shrink
\* manifest after the reorganizes before it.
Ready == {op \in claimed : op.kind \notin {"shrink", "shrinking"}}

Runnable(op) == Ready # {} /\ op = CHOOSE o \in Ready : TRUE

\* Preflight refuses the rebuild of a heap that would re-enable an index.
Refused(op) == op.kind = "rebuild_heap" /\ disabled[op.table] # {}

RunOp(op) ==
  /\ Runnable(op) /\ ~Refused(op)
  /\ claimed' = claimed \ {op}
  /\ frag' = [x \in Part |-> IF x \in Rewrites(op) THEN 0 ELSE frag[x]]
  /\ tier' = [x \in Part |-> IF x \in Recompresses(op) THEN op.tier ELSE tier[x]]
  /\ forwarded' = IF op.kind = "rebuild_heap" THEN forwarded \ {op.table} ELSE forwarded
  /\ loose' = loose \ {x[1] : x \in Rewrites(op)}
  /\ stale' = stale \ Refreshes(op)
  /\ owed' = owed \ Refreshes(op)
  /\ UNCHANGED <<profile, cats, hot, disabled, unpublished, queue, captured, pass,
                 calm, budget>>

RunFails(op) ==
  /\ Runnable(op)
  /\ \/ Refused(op) /\ UNCHANGED budget
     \/ budget > 0 /\ budget' = budget - 1
  /\ claimed' = claimed \ {op}
  /\ calm' = FALSE
  /\ UNCHANGED <<profile, cats, db, unpublished, queue, captured, pass, owed>>

StartShrink ==
  /\ claimed = {ShrinkOp}
  /\ claimed' = {Shrinking}
  /\ captured' = << >>
  /\ UNCHANGED <<profile, cats, db, unpublished, queue, pass, owed, calm, budget>>

NewCapture == [times |-> 0, tail |-> FALSE, transient |-> FALSE, fromEnd |-> 0]
Entry(t) == IF t \in DOMAIN captured THEN captured[t] ELSE NewCapture

Capture(t, entry) ==
  /\ claimed = {Shrinking}
  /\ budget > 0
  /\ budget' = budget - 1
  /\ captured' = (t :> entry) @@ captured
  /\ UNCHANGED <<profile, cats, db, unpublished, queue, claimed, pass, owed, calm>>

\* A reaction sees the shrink hold a schema lock on the table.
CaptureLock(t) == Capture(t, [Entry(t) EXCEPT !.times = @ + 1])

\* The walk back from the end of a file finds the table at the tail; a pin by
\* maintenance that runs beside the shrink is remembered for good.
CaptureTail(t, fromEnd, transient) ==
  Capture(t, [Entry(t) EXCEPT !.tail = TRUE, !.fromEnd = fromEnd,
                              !.transient = @ \/ transient])

\* A shrink moves pages backwards: every index ends up fragmented.
EndShrink ==
  /\ claimed = {Shrinking}
  /\ claimed' = {}
  /\ frag' = [x \in Part |-> IF x[1] \in Indexes THEN Max(FragLevels) ELSE frag[x]]
  /\ calm' = FALSE
  /\ UNCHANGED <<profile, cats, tier, hot, forwarded, loose, stale, disabled,
                 unpublished, queue, captured, pass, owed, budget>>

----------------------------------------------------------------------------
(* Drift: the workload and the operators                                    *)

Toggle(S, x) == IF x \in S THEN S \ {x} ELSE S \union {x}

Drift ==
  /\ budget > 0
  /\ budget' = budget - 1
  /\ calm' = FALSE
  /\ \/ \E x \in Part, level \in FragLevels :
          /\ frag' = [frag EXCEPT ![x] = level]
          /\ UNCHANGED <<hot, forwarded, loose, stale, disabled>>
     \/ \E s \in Structures :
          /\ hot' = Toggle(hot, s)
          /\ UNCHANGED <<frag, forwarded, loose, stale, disabled>>
     \/ \E t \in HeapTables :
          /\ forwarded' = forwarded \union {t}
          /\ UNCHANGED <<frag, hot, loose, stale, disabled>>
     \/ \E s \in Structures :
          /\ loose' = loose \union {s}
          /\ UNCHANGED <<frag, hot, forwarded, stale, disabled>>
     \/ \E s \in Stats :
          /\ stale' = stale \union {s}
          /\ UNCHANGED <<frag, hot, forwarded, loose, disabled>>
     \/ \E t \in HeapTables : \E i \in IndexesOf(t) :
          /\ disabled' = [disabled EXCEPT ![t] = Toggle(@, i)]
          /\ UNCHANGED <<frag, hot, forwarded, loose, stale>>
  /\ UNCHANGED <<profile, cats, tier, unpublished, queue, claimed, captured, pass, owed>>

----------------------------------------------------------------------------
PlannerInit ==
  /\ \E start \in Starts :
       /\ profile = ApplyDefaults(start.raw) /\ Valid(profile)
       /\ cats = start.cats
       /\ frag = [x \in Part |-> start.frag[x[1]]]
       /\ tier = [x \in Part |-> start.tier[x]]
       /\ stale = start.stale
       /\ budget = start.budget
  /\ hot = {} /\ forwarded = {} /\ loose = {}
  /\ disabled = [t \in HeapTables |-> {}]
  /\ unpublished = Nothing /\ queue = Nothing /\ claimed = {}
  /\ captured = << >>
  /\ pass = [given |-> FALSE, tables |-> <<>>, advised |-> {}]
  /\ owed = {} /\ calm = FALSE

Reads == ({"physical", "estimate", "activity"} \X Structures)
           \union ({"stats"} \X Tables) \union ({"disabled"} \X HeapTables)

PlannerNext ==
  \/ \E lost \in UNION {kSubset(n, Reads) : n \in 0..MaxLost}, given \in BOOLEAN :
       Plan(lost, given)
  \/ Publish \/ PlannerDies
  \/ Claim
  \/ \E op \in claimed : RunOp(op) \/ RunFails(op)
  \/ StartShrink \/ EndShrink
  \/ \E t \in Tables : CaptureLock(t)
  \/ \E t \in Tables, n \in 0..1, pinned \in BOOLEAN : CaptureTail(t, n, pinned)
  \/ Drift

PlannerSpec == PlannerInit /\ [][PlannerNext]_plannerVars

----------------------------------------------------------------------------
(* Properties                                                               *)

Done == unpublished = Nothing /\ queue = Nothing /\ claimed = {}

\* A statistic that was due when it was analysed, and backs an index, has been
\* refreshed once everything that analysis planned has run: leaving one out as
\* redundant counts on a rebuild of the same plan (maint.Decide).
DueIsRefreshed == calm /\ Done => owed \cap Indexes = {}

\* The same of every statistic.  Does not hold: a column statistic of a heap
\* that is rebuilt is left out as redundant, and no rebuild refreshes it.
EveryDueIsRefreshed == calm /\ Done => owed = {}

\* No plan rewrites a partition twice: not by two operations on the index, nor
\* by the rebuild of a heap and an operation on one of its indexes.
Maintenance(manifests) == UNION {manifests[c] : c \in {"index", "heap"}}

NoDoubleWork ==
  \A a, b \in Maintenance(unpublished) : a # b => Rewrites(a) \cap Rewrites(b) = {}

\* Once a plan has run and nothing else has happened, a second analysis finds
\* no heap and no index of a clustered table to rebuild: thresholds, gains, caps,
\* pins and ceilings agree with what the operations they chose leave behind.
Rebuilds(ds) == {d \in ds : d.kind \in {"rebuild_index", "rebuild_heap"}}

SecondPassQuiet ==
  calm /\ Done =>
    \A d \in Rebuilds(Analyze({})) : d.kind = "rebuild_index" /\ d.table \in HeapTables

\* The same of every index.  Does not hold: the index of a heap that is rebuilt
\* is left out as redundant with the compression it was to change to.
SecondPassEmpty == calm /\ Done => Rebuilds(Analyze({})) = {}

\* No analysis chooses an operation that lowers the compression of what no
\* override pins, whatever the workload has become since it was raised.  Does
\* not hold of partitions at different tiers that are measured as one: the first
\* stands for them all.
Pinned(x) == OverrideFor(profile, Owner(x[1])).pin # ""

StoodFor(x) ==
  /\ x[1] \in HeapTables \/ ~profile.comp.perPart
  /\ \E y \in PartsIn(x[1]) : tier[y] # tier[x]

Raises(op) ==
  \A x \in Recompresses(op) :
    Pinned(x) \/ StoodFor(x) \/ TierRank(op.tier) > TierRank(tier[x])

NeverDecompresses ==
  [][unpublished = Nothing => \A op \in Maintenance(unpublished') : Raises(op)]_plannerVars

\* Given the sidecar of a shrink, the pass before the next one reorganizes what
\* was found at the tail of a file before anything that was not, the closest to
\* the end first, whatever their densities.
AtTail(t) == t \in DOMAIN captured /\ captured[t].tail /\ ~captured[t].transient

TailLeads ==
  [][\A i, j \in DOMAIN pass'.tables :
       pass'.given /\ pass' # pass /\ i < j /\ AtTail(pass'.tables[j]) =>
         /\ AtTail(pass'.tables[i])
         /\ captured[pass'.tables[i]].fromEnd <= captured[pass'.tables[j]].fromEnd]_plannerVars

\* What no analysis does: undo the compression of a partition, or put off the
\* tail of a file that a shrink is waiting for.
AnalysisKeeps == NeverDecompresses /\ TailLeads

=============================================================================

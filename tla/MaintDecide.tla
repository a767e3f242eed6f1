----------------------------- MODULE MaintDecide ----------------------------
(* The decision core of the planner: one measurement in, one decision out,   *)
(* then the rules that keep a plan from doing the same work twice.  A        *)
(* partition of 0 is the whole index; a missing estimate or activity is the  *)
(* empty record of its kind (NoEstimate, NoActivity).                        *)
EXTENDS MaintProfile

TierRank(tier) == CASE tier = "row" -> 1 [] tier = "page" -> 2 [] OTHER -> 0

SameTier(a, b) == TierRank(a) = TierRank(b)

MinTier(a, ceiling) == IF TierRank(ceiling) < TierRank(a) THEN ceiling ELSE a

NoEstimate == [known |-> FALSE, current |-> 0, row |-> 0, page |-> 0]
NoActivity == [known |-> FALSE, writes |-> 0, reads |-> 0]

\* Going from one size to another saves at least so many percent.
SavesAtLeast(from, to, percent) ==
  IF from <= 0 THEN percent <= 0 ELSE (from - to) * 100 >= percent * from

RatioAtLeast(num, den, percent) ==
  IF den <= 0 THEN percent <= 0 ELSE num * 100 >= percent * den

----------------------------------------------------------------------------
\* Compression: a pin wins, then the scope, then the gain, then the cap of an
\* object that is written to a lot.
Desired(est, c) ==
  IF /\ SavesAtLeast(est.row, est.page, c.pageExtra)
     /\ SavesAtLeast(est.current, est.page, c.minGain) THEN "page"
  ELSE IF SavesAtLeast(est.current, est.row, c.minGain) THEN "row"
  ELSE "none"

WriteIntensive(write, c) ==
  /\ write.known
  /\ write.writes + write.reads >= c.activity
  /\ RatioAtLeast(write.writes, write.writes + write.reads, c.ratio)

\* mutant: the cap of a write-intensive object is applied as a tier of its own.
CappedTier(m, c) ==
  IF WriteIntensive(m.write, c) THEN c.cap ELSE Desired(m.estimate, c)

Chosen(m, c) ==
  LET desired == Desired(m.estimate, c)
  IN IF WriteIntensive(m.write, c) THEN MinTier(desired, c.cap) ELSE desired

\* mutant: a tier the object already has is chosen again.
AnyDesired(m, index, ov, p) ==
  IF ov.pin # "" \/ ~p.comp.enabled \/ ~m.estimate.known THEN ""
  ELSE IF Chosen(m, p.comp) = "none" THEN "" ELSE Chosen(m, p.comp)

\* The tier to change to, or "" when the compression stays as it is.
DecideCompression(m, index, ov, p) ==
  LET tier == Chosen(m, p.comp)
  IN IF ov.pin # "" THEN IF SameTier(ov.pin, m.current) THEN "" ELSE ov.pin
     ELSE IF ~p.comp.enabled \/ ~CompressesObject(p, m.table, index)
               \/ ~m.estimate.known THEN ""
     ELSE IF tier = "none" \/ SameTier(tier, m.current) THEN ""
     ELSE tier

----------------------------------------------------------------------------
Decision(category, kind, table, name, part, tier, why) ==
  [category |-> category, kind |-> kind, table |-> table, name |-> name,
   part |-> part, tier |-> tier, why |-> why]

Skip(category, table, name, part, why) ==
  Decision(category, "skip", table, name, part, "", why)

DecideIndex(m, p) ==
  LET ov       == OverrideFor(p, m.table)
      tier     == DecideCompression(m, m.index, ov, p)
      rebuild  == m.frag >= p.index.rebuild
      reorg    == m.frag >= p.index.reorg
      Not(why) == Skip("index", m.table, m.index, m.part, why)
      Do(kind, t) == Decision("index", kind, m.table, m.index, m.part, t, "")
      \* Without a rebuild: reorganize if fragmented, and no compression.
      Fallback == IF rebuild \/ reorg THEN Do("reorganize_index", "")
                  ELSE Not("no rebuild")
  IN IF ov.skip THEN Not("override")
     ELSE IF m.pages < p.index.floor THEN Not("floor")
     ELSE IF ~rebuild /\ tier = ""
     THEN IF reorg THEN Do("reorganize_index", "") ELSE Not("sound")
     ELSE IF ov.forbid THEN Fallback
     ELSE IF m.mb > p.index.maxMB
     THEN IF p.index.over = "skip" THEN Not("ceiling") ELSE Fallback
     ELSE Do("rebuild_index", tier)

HeapTriggers(m, p) ==
  \/ RatioAtLeast(m.forwarded, m.records, p.heap.fwd)
  \/ m.frag >= p.heap.frag
  \/ 100 - m.density >= p.heap.free

DecideHeap(m, p) ==
  LET ov == OverrideFor(p, m.table)
      Not(why) == Skip("heap", m.table, NoName, 0, why)
  IN IF ~p.heap.enabled THEN Not("disabled")
     ELSE IF ov.skip THEN Not("override")
     ELSE IF ov.forbid THEN Not("forbidden")
     ELSE IF m.mb < p.heap.min THEN Not("small")
     ELSE IF m.rewriteMB > p.heap.max THEN Not("rewrites too much")
     ELSE IF m.disabled # {} THEN Not("re-enables an index")
     ELSE IF ~HeapTriggers(m, p) THEN Not("sound")
     ELSE Decision("heap", "rebuild_heap", m.table, NoName, 0,
                   DecideCompression(m, NoName, ov, p), "")

\* sqrt(1000 * rows) is compared by its square.
ReachesThreshold(m, p) ==
  IF p.stats.dynamic THEN m.mods * m.mods >= 1000 * m.rows
  ELSE m.mods * 100 >= m.rows * p.stats.modPercent

DecideStatistic(m, p) ==
  LET Not(why) == Skip("statistics", m.table, m.stat, 0, why)
  IN IF ~p.stats.enabled THEN Not("disabled")
     ELSE IF OverrideFor(p, m.table).skip THEN Not("override")
     ELSE IF ~ReachesThreshold(m, p) THEN Not("fresh")
     ELSE Decision("statistics", "update_statistics", m.table, m.stat, 0, "", "")

DecideCheckDB(p, connected) ==
  LET named == p.checkdb.databases
  IN IF ~p.checkdb.enabled THEN {}
     ELSE {Decision("checkdb", "check_db", db, NoName, 0, "", "") :
             db \in IF named = {} THEN {connected} ELSE named}

----------------------------------------------------------------------------
HeapsRebuilt(ds) == {d.table : d \in {e \in ds : e.kind = "rebuild_heap"}}

\* Only the rebuild of a whole index refreshes its statistic with a full scan.
RebuildsWhole(d) == d.kind = "rebuild_index" /\ d.part = 0

\* mutant: the rebuild of one partition counts for the index.
IndexesTouched(ds) == {<<d.table, d.name>> : d \in {e \in ds : e.kind = "rebuild_index"}}

IndexesRebuilt(ds) == {<<d.table, d.name>> : d \in {e \in ds : RebuildsWhole(e)}}

\* mutant: nothing is left out beside the rebuild of a heap.
SuppressNothing(ds) == ds

SuppressIndex(ds) ==
  {IF d.category = "index" /\ d.kind # "skip" /\ d.table \in HeapsRebuilt(ds)
     THEN Skip("index", d.table, d.name, d.part, "redundant") ELSE d : d \in ds}

SuppressStatistic(d, ds) ==
  IF d.kind # "skip" /\ (<<d.table, d.name>> \in IndexesRebuilt(ds)
                          \/ d.table \in HeapsRebuilt(ds))
    THEN Skip("statistics", d.table, d.name, 0, "redundant") ELSE d

Decide(in, p) ==
  LET ds == {DecideIndex(m, p) : m \in in.indexes} \union {DecideHeap(m, p) : m \in in.heaps}
  IN SuppressIndex(ds)
       \union {SuppressStatistic(DecideStatistic(m, p), ds) : m \in in.stats}
       \union DecideCheckDB(p, in.connected)

Operations(ds) == {d \in ds : d.kind # "skip"}

----------------------------------------------------------------------------
(* The pass before a shrink: reorganizes only (a rebuild grows the file), the *)
(* objects an earlier shrink could not get past first.  confirmed is a       *)
(* function from the objects of the sidecar to how they were confirmed.      *)

\* What was found at the tail of a file leads, the closest to the end first,
\* then what blocked the most.
Leads(a, b) ==
  IF a.tail # b.tail THEN a.tail
  ELSE IF a.tail /\ a.fromEnd # b.fromEnd THEN a.fromEnd < b.fromEnd
  ELSE a.times > b.times

\* The measured indexes that are reorganized before the shrink, unordered.
ToReorganize(indexes, p, confirmed) ==
  {m \in indexes : /\ ~OverrideFor(p, m.table).skip
                   /\ m.pages >= p.index.floor
                   /\ m.density < p.shrink.below \/ m.table \in DOMAIN confirmed}

\* a is reorganized before b: the confirmed ones first, then by Leads; ties and
\* the rest stay in the order of the inventory.
Before(a, b, confirmed) ==
  LET known(m) == m.table \in DOMAIN confirmed
  IN IF known(a) # known(b) THEN known(a)
     ELSE IF known(a) /\ Leads(confirmed[a.table], confirmed[b.table]) THEN TRUE
     ELSE IF known(a) /\ Leads(confirmed[b.table], confirmed[a.table]) THEN FALSE
     ELSE a.order < b.order

HeapAdvisories(heaps, p, confirmed) ==
  {m \in heaps : /\ ~OverrideFor(p, m.table).skip
                 /\ m.mb >= p.heap.min
                 /\ m.density < p.shrink.below \/ m.table \in DOMAIN confirmed}
=============================================================================

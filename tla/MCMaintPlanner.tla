--------------------------- MODULE MCMaintPlanner ---------------------------
(* A table T with a clustered index of two partitions, and a heap H with a   *)
(* nonclustered index, a column statistic and a size of its own.             *)
EXTENDS MaintPlanner

TableMap == [i \in {"IX_T", "IX_H"} |-> IF i = "IX_T" THEN "T" ELSE "H"]
StatMap  == [c \in {"C_H"} |-> "H"]
Parts    == [s \in {"IX_T", "IX_H", "H"} |-> IF s = "IX_T" THEN 2 ELSE 1]
Read     == <<"H", "IX_H", "IX_T">>

PageMap == [s \in {"IX_T", "IX_H", "H"} |-> IF s = "IX_T" THEN 600 ELSE 1500]
MBMap   == [s \in {"IX_T", "IX_H", "H"} |-> 50]

\* PAGE is worth it for IX_T, ROW for IX_H and H.
KBMap == [s \in {"IX_T", "IX_H", "H"} |->
            IF s = "IX_T" THEN [none |-> 100, row |-> 80, page |-> 60]
            ELSE [none |-> 100, row |-> 80, page |-> 76]]

Blank ==
  [index |-> [floor |-> 0, reorg |-> 0, rebuild |-> 0, maxMB |-> 0, over |-> ""],
   comp |-> [enabled |-> TRUE, pageExtra |-> 0, minGain |-> 0, ratio |-> 0, cap |-> "",
             activity |-> 0, perPart |-> FALSE, include |-> {}, exclude |-> {}],
   heap |-> [enabled |-> TRUE, min |-> 0, max |-> 0, fwd |-> 0, frag |-> 0, free |-> 0],
   shrink |-> [enabled |-> FALSE, type |-> "", files |-> "", pre |-> TRUE, below |-> 0,
               maxBlock |-> 0],
   stats |-> [enabled |-> TRUE, sample |-> "fullscan", percent |-> 0, dynamic |-> TRUE,
              modPercent |-> 0],
   checkdb |-> [enabled |-> FALSE, databases |-> {}, maxdop |-> 0],
   scope |-> [include |-> {}, exclude |-> {}],
   overrides |-> <<>>]

\* Everything at its default; by partition; the same with a ceiling, a forbidden
\* rebuild and a pin; a shrink and nothing else; one that is refused.
Plain == Blank
Granular == [Blank EXCEPT !.comp.perPart = TRUE, !.heap.enabled = FALSE, !.index.floor = 500]
Ruled ==
  [Blank EXCEPT !.comp.perPart = TRUE, !.index.floor = 500, !.index.maxMB = 90,
                !.index.over = "skip", !.checkdb.enabled = TRUE,
                !.stats.dynamic = FALSE, !.stats.modPercent = 20,
                !.overrides = <<[NoOverride EXCEPT !.match = {"H"}, !.pin = "page"],
                                [NoOverride EXCEPT !.match = {"H", "T"}, !.forbid = TRUE]>>]
Shrinks ==
  [Blank EXCEPT !.shrink.enabled = TRUE, !.shrink.type = "data", !.shrink.files = "all",
                !.comp.enabled = FALSE, !.heap.enabled = FALSE, !.stats.enabled = FALSE]
Upside == [Blank EXCEPT !.index.reorg = 60]

Start(raw, some, fs, ts, stats, n) ==
  {[raw |-> raw, cats |-> some, frag |-> f, tier |-> [x \in Part |-> t], stale |-> st,
    budget |-> n] : f \in fs, t \in ts, st \in stats}

\* The partitions of an index at different tiers.
Mix(start) == [start EXCEPT !.tier = [x \in Part |-> IF x[2] = 1 THEN "none" ELSE "page"]]

AnyFrag == [Structures -> FragLevels]
NoFrag  == [Structures -> {0}]

Cases ==
  Start(Plain, {}, AnyFrag, Tiers, {{}, Stats}, 1)
    \union Start(Plain, {"index", "statistics"}, AnyFrag, {"none"}, {Stats}, 1)
    \union Start(Granular, {}, {[s \in Structures |-> 40]}, {"none"}, {Stats}, 1)
    \union {Mix(start) : start \in Start(Granular, {}, [Structures -> {0, 40}], {"none"}, {Stats}, 1)}
    \union {Mix(start) : start \in Start(Plain, {"index", "compression"}, NoFrag, {"none"}, {{}}, 1)}
    \union Start(Ruled, {}, [Structures -> {0, 40}], {"none", "row"}, {Stats}, 1)
    \union Start(Shrinks, {"checkdb"}, NoFrag, {"none"}, {{}}, 3)
    \union Start(Upside, {}, NoFrag, {"none"}, {{}}, 3)
=============================================================================

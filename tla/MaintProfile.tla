---------------------------- MODULE MaintProfile ----------------------------
(* maintenance_profile.yaml: what a profile is once it is read, which values *)
(* are refused, and what its globs select.  A glob is the set of the names   *)
(* it matches ("schema.table" or an index's full name); "*" is AllNames and  *)
(* a glob that path.Match cannot parse is BadGlob.                           *)
EXTENDS Integers, Sequences

CONSTANTS AllNames, BadGlob, NoName

Tiers == {"none", "row", "page"}

Globs == SUBSET (AllNames \union {BadGlob})

\* The fields of the file; what it leaves out reads as zero.
YamlProfile ==
  [index : [floor : Int, reorg : Int, rebuild : Int, maxMB : Int, over : STRING],
   comp : [enabled : BOOLEAN, pageExtra : Int, minGain : Int, ratio : Int, cap : STRING,
           activity : Int, perPart : BOOLEAN, include : Globs, exclude : Globs],
   heap : [enabled : BOOLEAN, min : Int, max : Int, fwd : Int, frag : Int, free : Int],
   shrink : [enabled : BOOLEAN, type : STRING, files : STRING, pre : BOOLEAN, below : Int,
             maxBlock : Int],
   stats : [enabled : BOOLEAN, sample : STRING, percent : Int, dynamic : BOOLEAN,
            modPercent : Int],
   checkdb : [enabled : BOOLEAN, databases : SUBSET STRING, maxdop : Int],
   scope : [include : SUBSET STRING, exclude : SUBSET STRING],
   overrides : Seq([match : Globs, skip : BOOLEAN, forbid : BOOLEAN, pin : STRING])]

\* What the file leaves out takes the default, and so does a number it writes
\* as 0.
Or(number, default)   == IF number = 0 THEN default ELSE number
OrWord(word, default) == IF word = "" THEN default ELSE word

NoOverride == [match |-> {}, skip |-> FALSE, forbid |-> FALSE, pin |-> ""]

\* The percentages of the defaults are the file's; the ratio is in percent.
IndexDefaults(s) ==
  [floor |-> Or(s.floor, 1000), reorg |-> Or(s.reorg, 5), rebuild |-> Or(s.rebuild, 30),
   maxMB |-> Or(s.maxMB, 51200), over |-> OrWord(s.over, "reorganize")]

CompressionDefaults(s) ==
  [s EXCEPT !.pageExtra = Or(@, 10), !.minGain = Or(@, 5), !.ratio = Or(@, 30),
            !.cap = OrWord(@, "row"), !.activity = Or(@, 1000)]

HeapDefaults(s) ==
  [s EXCEPT !.min = Or(@, 10), !.max = Or(@, 10000),
            !.fwd = Or(@, 10), !.frag = Or(@, 15), !.free = Or(@, 30)]

ShrinkDefaults(s) == IF s.enabled THEN [s EXCEPT !.below = Or(@, 65)] ELSE s

ApplyDefaults(raw) ==
  [raw EXCEPT !.index = IndexDefaults(@), !.comp = CompressionDefaults(@),
              !.heap = HeapDefaults(@), !.shrink = ShrinkDefaults(@)]

Percent(x) == x \in 0..100

GlobsParse(globs) == BadGlob \notin globs

ValidOverride(o) ==
  /\ o.match \notin {{}, {BadGlob}}
  /\ o.pin \in Tiers \union {""}

ValidShrink(s) ==
  s.enabled => /\ s.type \in {"data", "log"}
               /\ s.files # ""
               /\ s.below \in 1..100
               /\ s.maxBlock >= 0

Valid(p) ==
  /\ \A x \in {p.index.reorg, p.index.rebuild, p.comp.pageExtra, p.comp.minGain,
               p.heap.fwd, p.heap.frag, p.heap.free} : Percent(x)
  /\ p.index.reorg <= p.index.rebuild
  /\ p.index.floor >= 0 /\ p.index.maxMB >= 0
  /\ p.index.over \in {"reorganize", "skip"}
  /\ Percent(p.comp.ratio)
  /\ p.comp.cap \in {"row", "none"}
  /\ p.comp.activity >= 0
  /\ GlobsParse(p.comp.include \union p.comp.exclude)
  /\ p.heap.min >= 0 /\ p.heap.max >= p.heap.min
  /\ p.stats.sample = "percent" => p.stats.percent \in 1..100
  /\ p.stats.dynamic \/ p.stats.modPercent \in 1..100
  /\ p.checkdb.maxdop >= 0
  /\ GlobsParse(p.scope.include \union p.scope.exclude)
  /\ \A k \in DOMAIN p.overrides : ValidOverride(p.overrides[k])
  /\ ValidShrink(p.shrink)

----------------------------------------------------------------------------
\* The first override, in the order they are declared, that matches the table.
OverrideFor(p, table) ==
  LET hits == {k \in DOMAIN p.overrides : table \in p.overrides[k].match}
  IN IF hits = {} THEN NoOverride
     ELSE p.overrides[CHOOSE k \in hits : \A j \in hits : k <= j]

\* A two-part glob selects the table, a three-part one a single index.
Matches(globs, table, index) == globs \cap ({table, index} \ {NoName}) # {}

CompressesObject(p, table, index) ==
  /\ p.comp.include = {} \/ Matches(p.comp.include, table, index)
  /\ ~Matches(p.comp.exclude, table, index)

ScopeIncludes(p, database) ==
  /\ p.scope.include = {} \/ database \in p.scope.include
  /\ database \notin p.scope.exclude
=============================================================================

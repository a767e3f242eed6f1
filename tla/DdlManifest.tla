---------------------------- MODULE DdlManifest ----------------------------
(* A manifest: the document an operator or the planner writes, what it       *)
(* decodes to, what is refused when it is loaded, and what is written back   *)
(* when a run edits it or leaves a recovery.                                 *)
(*                                                                           *)
(* A document is a function from the keys it writes to their values; a       *)
(* decoded operation has every key of its command, at its zero value where   *)
(* the document has none.  schema and table are one key, the table.  Text    *)
(* that only SQL Server reads is a value; Bad is text the loader refuses.    *)
EXTENDS Integers, Sequences, FiniteSets, TLC

CONSTANTS Unset,   \* the nil pointer
          Bad      \* a word, a regexp, a number the loader does not accept

OptionNames == {"online", "resumable", "wait_at_low_priority", "sort_in_tempdb",
                "maxdop", "ignore_blocking", "max_block_minutes"}

AutoOptions == [o \in OptionNames |-> Unset]

\* A constant; the null a document writes decodes to the zero value.
Literal(raw, str) == [raw |-> raw, str |-> str]
NullLiteral       == Literal("", FALSE)

----------------------------------------------------------------------------
(* The keys of each command.                                                 *)

BatchKeys == {"table", "set", "set_raw", "where", "where_raw", "batch",
              "confirm_full_table", "options"}

Fields ==
  [rebuild_index |-> {"table", "index", "partition", "data_compression", "intent", "options"},
   create_index  |-> {"table", "index", "columns", "unique", "data_compression", "options"},
   drop_index    |-> {"table", "index"},
   reorganize_index |-> {"table", "index", "partition", "lob_compaction"},
   rebuild_heap  |-> {"table", "data_compression", "options",
                      "allow_reenable_disabled_indexes"},
   alter_column  |-> {"table", "column", "type", "nullable", "options"},
   add_column    |-> {"table", "column", "type", "nullable", "default"},
   drop_column   |-> {"table", "column"},
   add_constraint  |-> {"table", "constraint", "kind", "columns", "options"},
   drop_constraint |-> {"table", "constraint"},
   update_statistics |-> {"table", "statistic", "full_scan", "sample_percent", "resample"},
   check_db      |-> {"database", "physical_only", "data_purity", "options"},
   shrink        |-> {"type", "files", "emptyfile", "targetfreespace", "options",
                      "identify_tail_object"},
   shrink_tempdb |-> {"targetsizemb", "flushcaches", "options"},
   batch_update  |-> BatchKeys,
   batch_delete  |-> BatchKeys]

Pointers == {"partition", "sample_percent", "default"}
Counts   == {"targetsizemb"}
Flags    == {"unique", "nullable", "lob_compaction", "allow_reenable_disabled_indexes",
             "full_scan", "resample", "physical_only", "data_purity", "emptyfile",
             "identify_tail_object", "flushcaches", "confirm_full_table"}
Lists    == {"columns", "where", "set"}     \* set is a map from columns to literals

NoBatch == [strategy |-> "", key |-> "", initial_rows |-> Unset]

Zero(key) ==
  CASE key \in Pointers  -> Unset
    [] key \in Counts    -> 0
    [] key \in Flags     -> FALSE
    [] key \in Lists     -> <<>>
    [] key = "options"   -> AutoOptions
    [] key = "batch"     -> NoBatch
    [] OTHER             -> ""

----------------------------------------------------------------------------
(* Decoding.  A key the command does not have is refused, at every level.    *)

KnownKeys(doc) ==
  /\ "operation" \in DOMAIN doc /\ doc.operation \in DOMAIN Fields
  /\ DOMAIN doc \ {"operation"} \subseteq Fields[doc.operation]
  /\ "options" \in DOMAIN doc => DOMAIN doc.options \subseteq OptionNames
  /\ "batch" \in DOMAIN doc => DOMAIN doc.batch \subseteq DOMAIN NoBatch

\* A block that leaves keys out has the defaults for them.
Filled(block, defaults) ==
  [k \in DOMAIN defaults |-> IF k \in DOMAIN block THEN block[k] ELSE defaults[k]]

\* A condition always has its three keys; the value may be unset.
Value(doc, key) ==
  IF key \notin DOMAIN doc THEN Zero(key)
  ELSE IF key = "options" THEN Filled(doc.options, AutoOptions)
  ELSE IF key = "batch" THEN Filled(doc.batch, NoBatch)
  ELSE doc[key]

\* The storage of the index is not in the file: it is unknown until an ALL is
\* expanded.
Decode(doc) ==
  [key \in Fields[doc.operation] \union {"operation", "storage"} |->
     IF key = "operation" THEN doc.operation
     ELSE IF key = "storage" THEN "unknown"
     ELSE Value(doc, key)]

OptionsOf(op) == IF "options" \in DOMAIN op THEN op.options ELSE AutoOptions

IsAll(op) == op.operation = "rebuild_index" /\ op.index = "ALL"

IsKeyRange(op) == op.batch.strategy = "key_range"

\* shrink is the one command whose name in the matrix is not its own.
CommandType(op) ==
  IF op.operation = "shrink" THEN IF op.type = "log" THEN "shrink_log" ELSE "shrink_data"
  ELSE op.operation

\* What an operation acts on.
Target(op) ==
  LET c == op.operation
  IN CASE c \in {"rebuild_index", "create_index", "drop_index", "reorganize_index"}
                                     -> <<op.table, op.index>>
       [] c \in {"alter_column", "add_column", "drop_column"} -> <<op.table, op.column>>
       [] c \in {"add_constraint", "drop_constraint"} -> <<op.table, op.constraint>>
       [] c = "update_statistics"    -> <<op.table, op.statistic>>
       [] c = "check_db"             -> <<op.database>>
       [] c = "shrink"               -> <<IF op.files = "" THEN "all" ELSE op.files>>
       [] c = "shrink_tempdb"        -> <<"tempdb">>
       [] OTHER                      -> <<op.table>>

----------------------------------------------------------------------------
(* What is refused at load.                                                  *)

Blank(word) == word = ""

Intents      == {"", "compression", "fragmentation", "relocation"}
Compressions == {"", "NONE", "ROW", "PAGE", "COLUMNSTORE", "COLUMNSTORE_ARCHIVE"}
NullTests    == {"IS NULL", "IS NOT NULL"}
Comparisons  == {"=", "<>", "<", "<=", ">", ">="}

Required ==
  [c \in DOMAIN Fields |->
     CASE c = "add_constraint" -> {"table", "constraint", "kind"}
       [] c \in {"alter_column", "add_column"} -> {"table", "column", "type"}
       [] OTHER -> Fields[c] \cap {"table", "index", "column", "constraint", "database"}]

ValidIndexOp(op) ==
  /\ "data_compression" \in DOMAIN op => op.data_compression \in Compressions
  /\ "intent" \in DOMAIN op => op.intent \in Intents
  /\ "columns" \in DOMAIN op => op.columns # <<>>

ValidType(op) == op.type # Bad

ValidStatistics(op) ==
  /\ Cardinality({k \in {"full_scan", "resample"} : op[k]})
       + (IF op.sample_percent = Unset THEN 0 ELSE 1) <= 1
  /\ op.sample_percent # Unset => op.sample_percent \in 1..100

ValidShrink(op) ==
  /\ op.type \in {"data", "log"}
  /\ ~op.emptyfile
  /\ op.targetfreespace \notin {"", Bad}

ValidCondition(c) ==
  /\ ~Blank(c.column)
  /\ c.op \in NullTests \union Comparisons
  /\ (c.op \in NullTests) <=> (c.value = Unset)

\* Neither a filter nor the consent to do without; a raw SET that never ends.
ValidScope(op) ==
  LET filtered == op.where # <<>> \/ ~Blank(op.where_raw)
  IN /\ op.where = <<>> \/ Blank(op.where_raw)
     /\ filtered \/ op.confirm_full_table
     /\ op.operation = "batch_update" /\ ~Blank(op.set_raw) => filtered \/ IsKeyRange(op)

ValidBatch(op) ==
  /\ IF op.operation = "batch_update" THEN (op.set = <<>>) # Blank(op.set_raw)
     ELSE op.set = <<>> /\ Blank(op.set_raw)
  /\ \A column \in DOMAIN op.set : ~Blank(column)
  /\ \A k \in DOMAIN op.where : ValidCondition(op.where[k])
  /\ ValidScope(op)
  /\ IsKeyRange(op) => op.operation = "batch_update" /\ op.set # <<>>
  /\ op.batch.strategy \in {"", "predicate", "key_range"}
  /\ op.batch.initial_rows # Unset => op.batch.initial_rows > 0

ValidMaxDOP(dop) == dop # Unset => dop \in 0..32767

ValidOp(op) ==
  /\ \A key \in Required[op.operation] : ~Blank(op[key])
  /\ ValidMaxDOP(OptionsOf(op).maxdop)
  /\ CASE op.operation \in {"rebuild_index", "create_index", "rebuild_heap", "add_constraint"}
                                                         -> ValidIndexOp(op)
       [] op.operation \in {"alter_column", "add_column"} -> ValidType(op)
       [] op.operation = "update_statistics"             -> ValidStatistics(op)
       [] op.operation = "shrink"                        -> ValidShrink(op)
       [] op.operation = "shrink_tempdb"                 -> op.targetsizemb > 0
       [] op.operation \in {"batch_update", "batch_delete"} -> ValidBatch(op)
       [] OTHER                                          -> TRUE

----------------------------------------------------------------------------
(* The window: hours of a day and days of a week, on the server's clock.     *)

CONSTANTS HoursPerDay, DaysPerWeek

ASSUME WindowAssumption == HoursPerDay \in Nat \ {0} /\ DaysPerWeek \in Nat \ {0}

Hour(t) == t % HoursPerDay
Day(t)  == t \div HoursPerDay

ValidWindow(w) ==
  w # Unset => /\ w.start \in 0..(HoursPerDay - 1) /\ w.end \in 0..(HoursPerDay - 1)
               /\ w.start # w.end
               /\ w.days \subseteq 0..(DaysPerWeek - 1)

DayAllowed(w, day) == w.days = {} \/ day \in w.days

\* mutant: the tail of an overnight window belongs to the day it falls on.
ContainsByToday(w, t) ==
  /\ DayAllowed(w, Day(t))
  /\ IF w.start < w.end THEN Hour(t) >= w.start /\ Hour(t) < w.end
     ELSE Hour(t) >= w.start \/ Hour(t) < w.end

\* After midnight an overnight window is the tail of yesterday's.
Contains(w, t) ==
  LET yesterday == (Day(t) + DaysPerWeek - 1) % DaysPerWeek
  IN IF w.start < w.end
     THEN Hour(t) >= w.start /\ Hour(t) < w.end /\ DayAllowed(w, Day(t))
     ELSE \/ Hour(t) >= w.start /\ DayAllowed(w, Day(t))
          \/ Hour(t) < w.start /\ Hour(t) < w.end /\ DayAllowed(w, yesterday)

----------------------------------------------------------------------------
(* The manifest.  A session rule is the set of its criteria.                 *)

ValidRule(rule) == rule # {} /\ Bad \notin rule

ValidManifest(m) ==
  /\ m.on_failure \in {"", "stop", "continue"}
  /\ m.intent \in Intents
  /\ \A rule \in m.ignore \union m.kill : ValidRule(rule)
  /\ ValidWindow(m.window)
  /\ m.operations # <<>>
  /\ \A k \in DOMAIN m.operations : ValidOp(m.operations[k])

Decodes(file) == \A k \in DOMAIN file.operations : KnownKeys(file.operations[k])

\* What a file loads to; Loads is false when the loader returns an error.
Parse(file) ==
  [file EXCEPT !.operations = [k \in DOMAIN @ |-> Decode(@[k])]]

Loads(file) == Decodes(file) /\ ValidManifest(Parse(file))

Continue(m) == m.on_failure = "continue"

----------------------------------------------------------------------------
(* Writing it back.  What carries no information is left out: a null, an     *)
(* empty string, an empty list or block.  The entries of set are data.       *)

\* mutant: a false is left out as well, where it means "forced off".
InformativeTrue(key, value) ==
  CASE key \in Pointers \ {"default"} -> value # Unset
    [] key \in OptionNames -> value \notin {Unset, FALSE}
    [] key = "default" -> value # Unset /\ value.raw # ""
    [] key = "value"   -> value # Unset /\ value.raw # ""
    [] key \in Flags   -> value
    [] key \in Lists   -> value # <<>>
    [] key = "initial_rows" -> value # Unset
    [] key \in Counts  -> TRUE
    [] OTHER -> value # ""

\* A forced-off option is a false and is kept; a flag of the operation itself
\* is left out when it is false (omitempty).
Informative(key, value) ==
  CASE key \in (Pointers \ {"default"}) \union OptionNames \union {"initial_rows"} -> value # Unset
    [] key \in {"default", "value"} -> value # Unset /\ value.raw # ""
    [] key \in Flags   -> value
    [] key \in Lists   -> value # <<>>
    [] key \in Counts  -> TRUE
    [] OTHER -> value # ""

Compact(block) ==
  [key \in {k \in DOMAIN block : Informative(k, block[k])} |-> block[key]]

\* A condition whose value is left out decodes to one without a value.
RenderCondition(c) ==
  [c EXCEPT !.value = IF Informative("value", c.value) THEN c.value ELSE Unset]

Rendered(key, value) ==
  CASE key \in {"options", "batch"} -> Compact(value)
    [] key = "where" -> [k \in DOMAIN value |-> RenderCondition(value[k])]
    [] OTHER -> value

Kept(key, value) ==
  IF key \in {"options", "batch"} THEN Compact(value) # <<>> ELSE Informative(key, value)

MarshalOp(op) ==
  [key \in {k \in Fields[op.operation] : Kept(k, op[k])} \union {"operation"} |->
     IF key = "operation" THEN op.operation ELSE Rendered(key, op[key])]

Marshal(m) == [m EXCEPT !.operations = [k \in DOMAIN @ |-> MarshalOp(@[k])]]

\* A rule added or removed from the console rewrites the whole file, and
\* nothing is written when nothing changes.
AppendIgnored(file, rule) ==
  IF rule \in file.ignore THEN file
  ELSE Marshal([Parse(file) EXCEPT !.ignore = @ \union {rule}])

AppendKilled(file, rule) ==
  IF rule \in file.kill THEN file
  ELSE Marshal([Parse(file) EXCEPT !.kill = @ \union {rule}])

RemoveKilled(file, rule) ==
  IF rule \notin file.kill THEN file
  ELSE Marshal([Parse(file) EXCEPT !.kill = @ \ {rule}])
=============================================================================

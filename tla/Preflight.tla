------------------------------ MODULE Preflight ------------------------------
(* The checks of a manifest before its first statement, over a picture of    *)
(* the server.  Each check passes, warns or fails; only a failure, or a read *)
(* that returns an error, stops the manifest.  The checks that never fail    *)
(* (pre-existing blocking, the right to kill, the autogrowth settings, the   *)
(* scope of a heap rebuild, isolation) are left out.                         *)
(*                                                                           *)
(* A picture holds the objects that exist (<<table>> or <<table, name>>),    *)
(* the disabled indexes, the compression of every partition of every index,  *)
(* the rights of the login, the structures and their sizes in megabytes, the *)
(* free space and what autogrowth can add, the clustering key, and how many  *)
(* rows a filter and an operation spare.                                     *)
EXTENDS DdlResolve

FX == INSTANCE FiniteSetsExt

CONSTANTS Structures,      \* a sequence of [table, name, clustered, storage, parts, mb]
          RequireDataFreeSpace, LogMaxPercent

unmatchedRowSample == 1000

FailIf(condition) == IF condition THEN "fail" ELSE "pass"

HasFailure(report) == "fail" \in report

CheckServer(server) == FailIf(server.tier = "unknown")

CheckLog(cat) == FailIf(cat.logPercent >= LogMaxPercent)

----------------------------------------------------------------------------
(* Rights.                                                                   *)

RequiresElevatedRights(op) == op.operation \in {"check_db", "shrink", "shrink_tempdb"}

Elevates(m) == \E k \in DOMAIN m.operations : RequiresElevatedRights(m.operations[k])

ShrinksTempdb(m) == \E k \in DOMAIN m.operations : m.operations[k].operation = "shrink_tempdb"

CheckElevatedRights(cat) == FailIf(cat.rights \cap {"db_owner", "sysadmin"} = {})

CheckTempdbShrinkRights(cat) == FailIf("sysadmin" \notin cat.rights)

----------------------------------------------------------------------------
(* Sizes.                                                                    *)

\* The heap itself is the structure without a name.
Structure(s) == IF s.name = "" THEN <<s.table>> ELSE <<s.table, s.name>>

ASSUME StructuresAssumption ==
  /\ Structures \in Seq(SX!ToSet(Structures))
  /\ \A j, k \in DOMAIN Structures :
        Structure(Structures[j]) = Structure(Structures[k]) => j = k

StructuresOf(cat, table) ==
  {Structures[k] : k \in {j \in DOMAIN Structures :
      Structures[j].table = table /\ Structure(Structures[j]) \in cat.objects}}

SizedOperation(op) == op.operation \in {"rebuild_index", "rebuild_heap", "reorganize_index"}

\* A heap rebuild rewrites every structure of its table.
Rewritten(op, cat) ==
  {s \in StructuresOf(cat, op.table) : op.operation = "rebuild_heap" \/ s.name = op.index}

DisabledIn(structures, cat) == {s \in structures : Structure(s) \in cat.disabled}

\* A disabled structure has no size, and REBUILD PARTITION rewrites just one.
NeedMB(op, cat) ==
  LET rewritten == Rewritten(op, cat)
      MB(s) == s.mb * (IF IsSinglePartition(op) THEN 1 ELSE s.parts)
  IN FX!MapThenSumSet(MB, rewritten \ DisabledIn(rewritten, cat))

\* growth is Unset when it could not be read; a size that could not be read is
\* not checked.
CheckDataFreeSpace(need, free, growth) ==
  IF need <= 0 THEN "warn"
  ELSE IF free >= need THEN "pass"
  ELSE IF growth = Unset THEN "warn"
  ELSE IF growth.unlimited \/ growth.headroom >= need - free THEN "warn"
  ELSE "fail"

CheckSpace(op, cat, lost) ==
  IF RequireDataFreeSpace /\ SizedOperation(op) /\ op.operation # "reorganize_index"
  THEN CheckDataFreeSpace(IF "sizes" \in lost THEN 0 ELSE NeedMB(op, cat),
                          cat.freeMB, cat.growth)
  ELSE "pass"

\* mutant: a read that fails tells nothing, and nothing is refused.
ReenablesUnread(op, cat, lost) ==
  IF op.operation # "rebuild_heap" \/ "sizes" \in lost THEN "pass"
  ELSE IF DisabledIn(StructuresOf(cat, op.table), cat) = {} THEN "pass"
  ELSE IF op.allow_reenable_disabled_indexes THEN "warn" ELSE "fail"

\* A heap rebuild brings every disabled index of its table back; what cannot be
\* read is refused, whatever the operation allows.
CheckReenabledIndexes(op, cat, lost) ==
  IF op.operation # "rebuild_heap" THEN "pass"
  ELSE IF "sizes" \in lost \/ StructuresOf(cat, op.table) = {} THEN "fail"
  ELSE IF DisabledIn(StructuresOf(cat, op.table), cat) = {} THEN "pass"
  ELSE IF op.allow_reenable_disabled_indexes THEN "warn" ELSE "fail"

----------------------------------------------------------------------------
(* Existence.                                                                *)

Unscoped(op) == op.operation \in {"check_db", "shrink", "shrink_tempdb"}

MustExist == {"rebuild_index", "drop_index", "alter_column", "drop_column", "drop_constraint"}

\* mutant: what is dropped is looked up, what is altered is not.
MustExistToDrop(op) == op.operation \in {"drop_index", "drop_column", "drop_constraint"}

NeedsTarget(op) == op.operation \in MustExist

TableExists(op, cat)  == <<op.table>> \in cat.objects
TargetExists(op, cat) == IsAll(op) \/ Target(op) \in cat.objects

CheckOperation(op, cat) ==
  IF Unscoped(op) THEN "pass"
  ELSE FailIf(~TableExists(op, cat) \/ (NeedsTarget(op) /\ ~TargetExists(op, cat)))

----------------------------------------------------------------------------
(* Batches.                                                                  *)

IsBatch(op) == op.operation \in {"batch_update", "batch_delete"}

DmlPermissionFor(op) == IF op.operation = "batch_delete" THEN "DELETE" ELSE "UPDATE"

CheckBatchDMLPermission(op, perm, cat) == FailIf(perm \notin cat.rights)

\* The key a key_range walk may use: single, an integer, unique, and the one
\* the manifest names, if it names one.
KeyRangeKey(op, key) ==
  /\ Len(key) = 1
  /\ op.batch.key \in {"", key[1].name}
  /\ key[1].integer /\ key[1].unique

CheckBatchDMLKeyRange(op, cat) == FailIf(IsKeyRange(op) /\ ~KeyRangeKey(op, cat.key))

CheckBatchDMLSelectivity(filterSpared, opSpared) ==
  IF filterSpared = 0 /\ opSpared = 0 THEN "fail"
  ELSE IF filterSpared < unmatchedRowSample THEN "warn"
  ELSE "pass"

Filtered(op) == op.where # <<>> \/ op.where_raw # ""

\* The clause that makes a literal SET idempotent narrows the statement too,
\* except in a key_range walk, which covers every row.
SelfLimits(op) ==
  op.operation = "batch_update" /\ op.set_raw = "" /\ op.set # <<>> /\ ~IsKeyRange(op)

CheckSelectivity(op, cat) ==
  IF op.confirm_full_table \/ ~Filtered(op) THEN "pass"
  ELSE CheckBatchDMLSelectivity(cat.filterSpared,
         IF SelfLimits(op) THEN cat.opSpared ELSE cat.filterSpared)

CheckBatch(op, cat) ==
  {CheckBatchDMLPermission(op, perm, cat) : perm \in {DmlPermissionFor(op), "SELECT"}}
    \union {CheckBatchDMLKeyRange(op, cat), CheckSelectivity(op, cat)}

----------------------------------------------------------------------------
(* The whole report, and the reads that end it.                              *)

Probes == {"log", "rights", "space", "objects", "batch", "sizes"}

Errs(m, cat, lost) ==
  \/ "log" \in lost
  \/ "rights" \in lost /\ Elevates(m)
  \/ "space" \in lost /\ RequireDataFreeSpace
  \/ \E k \in DOMAIN m.operations :
        LET op == m.operations[k]
        IN \/ "objects" \in lost /\ ~Unscoped(op)
           \/ "batch" \in lost /\ IsBatch(op) /\ TableExists(op, cat)

CheckOne(op, cat, lost) ==
  {CheckSpace(op, cat, lost), CheckReenabledIndexes(op, cat, lost), CheckOperation(op, cat)}
    \union (IF IsBatch(op) /\ TableExists(op, cat) THEN CheckBatch(op, cat) ELSE {})

Report(server, m, cat, lost) ==
  {CheckServer(server), CheckLog(cat)}
    \union (IF Elevates(m) THEN {CheckElevatedRights(cat)} ELSE {})
    \union (IF ShrinksTempdb(m) THEN {CheckTempdbShrinkRights(cat)} ELSE {})
    \union UNION {CheckOne(m.operations[k], cat, lost) : k \in DOMAIN m.operations}

\* The manifest may run.
Cleared(server, m, cat, lost) ==
  ~Errs(m, cat, lost) /\ ~HasFailure(Report(server, m, cat, lost))
=============================================================================

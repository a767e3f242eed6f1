----------------------------- MODULE DdlResolve -----------------------------
(* From an operation and a server to a statement: the compatibility matrix,  *)
(* the options that are injected, the expansion of ALTER INDEX ALL, and the  *)
(* statement that is generated.  What SQL Server accepts stands beside it.   *)
(*                                                                           *)
(* A server is a record of its major version, its tier and the database the  *)
(* operation runs in.  A policy gives each option TRUE, FALSE or Unset (a    *)
(* number for maxdop), whether blockers may be aborted, and the minutes of a *)
(* low-priority wait.                                                        *)
EXTENDS DdlManifest

SX == INSTANCE SequencesExt

AzurePseudoMajor == 9999

Rule(major, editions) == [major |-> major, editions |-> editions]

Paid     == {"enterprise", "azure"}
Parallel == {"enterprise", "standard", "azure"}
AnyTier  == {"enterprise", "standard", "express", "azure"}

\* ddl_compatibility.yaml: the options of each command and since when.
Matrix ==
  [rebuild_index  |-> [online |-> Rule(9, Paid), wait_at_low_priority |-> Rule(12, Paid),
                       resumable |-> Rule(14, Paid), sort_in_tempdb |-> Rule(9, Parallel),
                       maxdop |-> Rule(9, Parallel)],
   create_index   |-> [online |-> Rule(9, Paid), resumable |-> Rule(15, Paid),
                       wait_at_low_priority |-> Rule(16, Paid),
                       sort_in_tempdb |-> Rule(9, Parallel), maxdop |-> Rule(9, Parallel)],
   alter_column   |-> [online |-> Rule(13, Paid)],
   add_constraint |-> [online |-> Rule(13, Paid), resumable |-> Rule(16, Paid)],
   check_db       |-> [maxdop |-> Rule(12, Parallel)],
   rebuild_heap   |-> [online |-> Rule(13, Paid), maxdop |-> Rule(9, Parallel)],
   shrink_data    |-> [wait_at_low_priority |-> Rule(16, AnyTier)],
   shrink_tempdb  |-> [wait_at_low_priority |-> Rule(16, AnyTier)],
   batch_update   |-> [maxdop |-> Rule(9, AnyTier)],
   batch_delete   |-> [maxdop |-> Rule(9, AnyTier)]]

TierOf(engineEdition) ==
  CASE engineEdition = 2 -> "standard" [] engineEdition = 3 -> "enterprise"
    [] engineEdition = 4 -> "express"  [] engineEdition \in {5, 8} -> "azure"
    [] OTHER -> "unknown"

HasRule(command, option) == command \in DOMAIN Matrix /\ option \in DOMAIN Matrix[command]

Applicable(server, command, option) ==
  /\ HasRule(command, option)
  /\ LET rule  == Matrix[command][option]
         major == IF server.tier = "azure" THEN AzurePseudoMajor ELSE server.major
     IN major >= rule.major /\ server.tier \in rule.editions

InDatabase(server, name) == IF name = "" THEN server ELSE [server EXCEPT !.database = name]

----------------------------------------------------------------------------
(* One boolean option: the operation's word, then the policy's, then the     *)
(* default; what is forced on and unsupported is left out.                   *)

Overridden(perOp, global) == perOp # Unset \/ global # Unset

PickBool(applicable, default, perOp, global) ==
  IF perOp # Unset THEN perOp /\ applicable
  ELSE IF global # Unset THEN global /\ applicable
  ELSE default /\ applicable

FirstSet(a, b) == IF a # Unset THEN a ELSE b

NoOptions == [online |-> FALSE, resumable |-> FALSE, walp |-> FALSE, sort |-> FALSE,
              maxdop |-> Unset, abort |-> "", minutes |-> 0, hold |-> FALSE, cap |-> 0]

IsSinglePartition(op) == op.operation = "rebuild_index" /\ op.partition # Unset

\* Only a rowstore index rebuilds online; a named index is taken for one.
SupportsOnline(storage) == storage \in {"unknown", "rowstore"}

AbortAfterWait(policy) == IF policy.abortBlockers THEN "BLOCKERS" ELSE "SELF"

PositiveOr(number, default) == IF number # Unset /\ number > 0 THEN number ELSE default

MaxDOP(op, server, policy) ==
  IF Applicable(server, CommandType(op), "maxdop")
  THEN FirstSet(OptionsOf(op).maxdop, policy.maxdop) ELSE Unset

\* The reaction policy of an operation: no option of the statement.
Reactions(op) ==
  LET ov == OptionsOf(op)
  IN [hold |-> ov.ignore_blocking = TRUE, cap |-> PositiveOr(ov.max_block_minutes, 0)]

\* A resumable rebuild is refused on ALL, in tempdb and on one partition.
MayResume(op, server) ==
  ~IsAll(op) /\ server.database # "tempdb" /\ ~IsSinglePartition(op)

\* mutant: the kinds that rebuild offline are not told apart.
OnlineAnyStorage(op) == TRUE

OnlineStorage(op) == op.operation = "rebuild_index" => SupportsOnline(op.storage)

Asks(op, server, policy, option, default) ==
  PickBool(Applicable(server, op.operation, option), default,
           OptionsOf(op)[option], policy[option])

AsksOnline(op, server, policy) ==
  Asks(op, server, policy, "online", TRUE) /\ OnlineStorage(op)

AsksResumable(op, server, policy) ==
  Asks(op, server, policy, "resumable", TRUE) /\ MayResume(op, server) /\ OnlineStorage(op)

AsksWait(op, server, policy) ==
  Asks(op, server, policy, "wait_at_low_priority", TRUE) /\ OnlineStorage(op)

\* Both need ONLINE, and force it unless somebody spoke of it.
RunsOnline(op, server, policy) ==
  \/ AsksOnline(op, server, policy)
  \/ /\ AsksResumable(op, server, policy) \/ AsksWait(op, server, policy)
     /\ ~Overridden(OptionsOf(op).online, policy.online)
     /\ Applicable(server, op.operation, "online")

ResolveIndex(op, server, policy) ==
  LET online  == RunsOnline(op, server, policy)
      waits   == online /\ AsksWait(op, server, policy)
      resumes == online /\ AsksResumable(op, server, policy)
  IN [online    |-> online,
      resumable |-> resumes,
      walp      |-> waits,
      sort      |-> ~resumes /\ Asks(op, server, policy, "sort_in_tempdb", FALSE),
      maxdop    |-> MaxDOP(op, server, policy),
      abort     |-> IF waits THEN AbortAfterWait(policy) ELSE "",
      minutes   |-> IF waits THEN PositiveOr(policy.waitMinutes, 1) ELSE 0,
      hold      |-> Reactions(op).hold,
      cap       |-> Reactions(op).cap]

DefaultShrinkMaxBlockMinutes == 2

\* A shrink that says nothing of max_block_minutes is capped; 0 opts out.
ShrinkCap(ov) ==
  IF ov.max_block_minutes = Unset THEN DefaultShrinkMaxBlockMinutes
  ELSE PositiveOr(ov.max_block_minutes, 0)

ResolveShrink(op, server, policy) ==
  LET ov   == OptionsOf(op)
      walp == PickBool(Applicable(server, CommandType(op), "wait_at_low_priority"), TRUE,
                       ov.wait_at_low_priority, policy.wait_at_low_priority)
  IN [NoOptions EXCEPT
        !.walp = walp, !.cap = ShrinkCap(ov),
        !.abort = IF ~walp THEN "" ELSE IF op.operation = "shrink_tempdb" THEN "SELF"
                  ELSE AbortAfterWait(policy)]

ResolveBatch(op, server, policy) ==
  [NoOptions EXCEPT !.maxdop = MaxDOP(op, server, policy),
                    !.hold = Reactions(op).hold, !.cap = Reactions(op).cap]

Resolve(op, server, policy) ==
  CASE op.operation \in {"shrink", "shrink_tempdb"}      -> ResolveShrink(op, server, policy)
    [] op.operation \in {"batch_update", "batch_delete"} -> ResolveBatch(op, server, policy)
    [] OTHER                                             -> ResolveIndex(op, server, policy)

----------------------------------------------------------------------------
(* ALTER INDEX ALL becomes one rebuild per index, the clustered one first.   *)
(* An index is described by its name, whether it is clustered, its storage.  *)

\* The members of s that are in S, in their order.
Only(s, S) ==
  SX!FlattenSeq([k \in DOMAIN s |-> IF s[k] \in S THEN <<s[k]>> ELSE <<>>])

ClusteredFirst(indexes) ==
  LET all       == SX!ToSet(indexes)
      clustered == {x \in all : x.clustered}
  IN Only(indexes, clustered) \o Only(indexes, all \ clustered)

ExpandedRebuild(op, x) ==
  [op EXCEPT !.index = x.name, !.storage = x.storage,
             !.data_compression = IF SupportsOnline(x.storage) THEN @ ELSE ""]

----------------------------------------------------------------------------
(* The statement: what it does to what, its WITH clause, and the existence   *)
(* test it is wrapped in.                                                    *)

Clause(res, comp) ==
  [online |-> res.online, resumable |-> res.resumable, walp |-> res.online /\ res.walp,
   sort |-> res.sort, maxdop |-> res.maxdop, comp |-> comp]

NoClause == Clause(NoOptions, "")

With(op, res) ==
  CASE op.operation \in {"rebuild_index", "create_index", "rebuild_heap"}
                                           -> Clause(res, op.data_compression)
    [] op.operation = "add_constraint"     -> Clause(res, "")
    [] op.operation = "alter_column"       -> [NoClause EXCEPT !.online = res.online]
    [] op.operation = "shrink"             -> [NoClause EXCEPT !.walp = res.walp]
    [] op.operation = "shrink_tempdb"      -> [NoClause EXCEPT !.walp = res.walp]
    [] op.operation \in {"check_db", "batch_update", "batch_delete"}
                                           -> [NoClause EXCEPT !.maxdop = res.maxdop]
    [] OTHER                               -> NoClause

Guard(op) ==
  CASE op.operation \in {"create_index", "add_column", "add_constraint"}     -> "if_absent"
    [] op.operation \in {"drop_index", "drop_column", "drop_constraint"}     -> "if_present"
    [] OTHER -> ""

\* The rest of the text comes from the keys the clause does not hold.
Text(op) ==
  [key \in DOMAIN op \ {"options", "intent", "data_compression", "storage",
                        "allow_reenable_disabled_indexes"} |-> op[key]]

Generate(op, res) ==
  [command |-> op.operation, target |-> Target(op), text |-> Text(op),
   with |-> With(op, res), guard |-> Guard(op)]

Plan(m, server, policy) ==
  [k \in DOMAIN m.operations |->
     LET op  == m.operations[k]
         res == Resolve(op, InDatabase(server, m.database), policy)
     IN [op |-> op, options |-> res, sql |-> Generate(op, res)]]

\* What the resume cursor is bound to: the commands and their targets.
Identity(op)      == <<CommandType(op), Target(op)>>
Fingerprint(plan) == [k \in DOMAIN plan |-> Identity(plan[k].op)]

----------------------------------------------------------------------------
(* What the server refuses when it compiles the statement (Msg 11438, 11439, *)
(* 155, 1712 and the like); storage is that of the index itself.             *)

\* Options the version and the edition have, in a combination they allow.
LegalOptions(sql, server) ==
  LET w == sql.with
      Known(on, option) == on => Applicable(server, sql.command, option)
  IN /\ sql.command \notin {"shrink", "shrink_tempdb"} =>
          /\ Known(w.online, "online") /\ Known(w.resumable, "resumable")
          /\ Known(w.walp, "wait_at_low_priority") /\ Known(w.sort, "sort_in_tempdb")
          /\ Known(w.maxdop # Unset, "maxdop")
          /\ w.resumable \/ w.walp => w.online
     /\ w.resumable => /\ ~w.sort
                       /\ server.database # "tempdb"
                       /\ sql.command = "rebuild_index" =>
                            sql.text.index # "ALL" /\ sql.text.partition = Unset

\* Only a rowstore index rebuilds online or takes a row or page compression.
LegalStorage(sql, storage) ==
  storage # "rowstore" =>
    ~sql.with.online /\ ~sql.with.resumable /\ sql.with.comp \notin {"ROW", "PAGE"}

Compiles(sql, server, storage) == LegalOptions(sql, server) /\ LegalStorage(sql, storage)
=============================================================================

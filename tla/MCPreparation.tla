---------------------------- MODULE MCPreparation ----------------------------
(* A table with a clustered index, a partitioned index and a columnstore     *)
(* index, a heap with one index, and the manifests that exercise each rule.  *)
EXTENDS Preparation

S(table, name, clustered, storage, parts) ==
  [table |-> table, name |-> name, clustered |-> clustered, storage |-> storage,
   parts |-> parts, mb |-> 10]

MCStructures ==
  <<S("T", "IX", FALSE, "rowstore", 2), S("T", "PK", TRUE, "rowstore", 1),
    S("T", "CS", FALSE, "columnstore", 1),
    S("H", "", FALSE, "rowstore", 1), S("H", "HX", FALSE, "rowstore", 1)>>

MCCatalog ==
  [objects  |-> {<<"T">>, <<"T", "IX">>, <<"T", "PK">>, <<"T", "CS">>, <<"T", "c">>,
                 <<"H">>, <<"H", "HX">>},
   disabled |-> {},
   comp     |-> <<"T", "IX">> :> <<"NONE", "PAGE">> @@ <<"T", "PK">> :> <<"PAGE">>
                  @@ <<"T", "CS">> :> <<"COLUMNSTORE">> @@ <<"H", "HX">> :> <<"NONE">>,
   rights   |-> {"db_owner", "sysadmin", "UPDATE", "SELECT"},
   logPercent |-> 10, freeMB |-> 15, growth |-> [unlimited |-> FALSE, headroom |-> 5],
   key      |-> <<[name |-> "id", integer |-> TRUE, unique |-> TRUE]>>,
   filterSpared |-> 0, opSpared |-> 1000]

File(mode, ops) ==
  [database |-> "", on_failure |-> mode, intent |-> "", ignore |-> {}, kill |-> {},
   window |-> Unset, operations |-> ops]

Op(command, table) == [operation |-> command, table |-> table]
Rebuild(index) == Op("rebuild_index", "T") @@ [index |-> index]

\* Every index of the table, the compression the reason.
RebuildAll ==
  [File("continue", <<Rebuild("ALL") @@ [data_compression |-> "PAGE",
      options |-> [wait_at_low_priority |-> TRUE, sort_in_tempdb |-> TRUE]]>>)
     EXCEPT !.intent = "compression"]

\* A drop, and what needs what it dropped.
DropThenAlter ==
  File("continue", <<Op("drop_index", "T") @@ [index |-> "IX"],
                     Op("alter_column", "T") @@ [column |-> "c", type |-> "int",
                                                 options |-> [online |-> FALSE]],
                     Rebuild("IX")>>)

\* The same two indexes, in another order and number.
Reordered == File("", <<Rebuild("PK"), Rebuild("IX") @@ [partition |-> 2]>>)
Shorter   == File("", <<Rebuild("IX")>>)

Overnight ==
  [File("stop", <<Op("rebuild_heap", "H"), Op("reorganize_index", "H") @@ [index |-> "HX"]>>)
     EXCEPT !.window = [start |-> 2, end |-> 1, days |-> {1}]]

Reenabling == File("", <<Op("rebuild_heap", "H") @@
                           [allow_reenable_disabled_indexes |-> TRUE]>>)

Build == [File("continue",
  <<Op("create_index", "T") @@ [index |-> "N", columns |-> <<"c">>,
        options |-> [sort_in_tempdb |-> TRUE, maxdop |-> 4]],
    Rebuild("CS"),
    Op("add_constraint", "H") @@ [constraint |-> "UQ", kind |-> "unique", columns |-> <<"c">>]>>)
   EXCEPT !.kill = {{"app"}}]

Batched == File("continue",
  <<Op("batch_update", "T") @@ [set |-> [c |-> NullLiteral],
        where |-> <<[column |-> "d", op |-> "IS NULL", value |-> Unset]>>],
    [operation |-> "shrink_tempdb", targetsizemb |-> 64]>>)

InTempdb == [File("", <<Rebuild("PK")>>) EXCEPT !.database = "tempdb"]

EmptyDefault == File("", <<Op("add_column", "T") @@
   [column |-> "n", type |-> "varchar(5)", default |-> EmptyString]>>)

Misspelt == File("", <<Rebuild("PK") @@ [data_compresion |-> "PAGE"]>>)
TooWide  == File("", <<Rebuild("PK") @@ [options |-> [maxdop |-> 40000]]>>)

MCFiles == {RebuildAll, DropThenAlter, Reordered, Shorter, Overnight, Reenabling, Build,
            Batched, InTempdb, EmptyDefault, Misspelt, TooWide}

MCRevisions ==
  {<<Reordered, Shorter>>, <<Shorter, Reordered>>, <<RebuildAll, Reordered>>,
   <<Reordered, RebuildAll>>, <<DropThenAlter, Shorter>>, <<Overnight, Reenabling>>}

Auto == [o \in {"online", "resumable", "wait_at_low_priority", "sort_in_tempdb", "maxdop"}
           |-> Unset] @@ [abortBlockers |-> FALSE, waitMinutes |-> Unset]

Server(major, tier) == [major |-> major, tier |-> tier, database |-> "db"]

Production == [server |-> Server(16, TierOf(3)), policy |-> Auto]

MCServers ==
  {Production,
   [server |-> Server(13, TierOf(3)), policy |-> [Auto EXCEPT !.sort_in_tempdb = TRUE]],
   [server |-> Server(16, TierOf(3)),
    policy |-> [Auto EXCEPT !.online = FALSE, !.resumable = TRUE]],
   [server |-> Server(16, TierOf(2)), policy |-> [Auto EXCEPT !.online = TRUE]]}

\* The window is the same on every server.
MCSubmissions == ((MCFiles \ {Overnight}) \X MCServers) \union {<<Overnight, Production>>}

MCRules == {{"app"}}
=============================================================================

----------------------------- MODULE Preparation -----------------------------
(* One manifest from its file to its statements: claimed, loaded, expanded,  *)
(* held to its window, checked, planned, bound to the cursor of an earlier   *)
(* run, and run operation by operation, while other people change the        *)
(* database, an operator edits the file, the clock moves and the program     *)
(* dies.  What a statement does while it runs is MonitoredRunner's, how the  *)
(* files move between the directories ManifestLifecycle's.                   *)
EXTENDS Preflight

CONSTANTS Submissions,   \* pairs: a manifest, and the server and policy it meets
          Revisions,     \* pairs: a manifest and what it may be edited into
          Catalog,       \* the picture of the database at the start
          Rules,         \* session rules the console may add
          MaxClaims, MaxEdits, MaxDrift, MaxTicks, MaxFailures, MaxLost

\* A manifest has every key at its own level; its operations are a sequence.
IsManifest(doc) ==
  /\ DOMAIN doc = {"database", "on_failure", "intent", "ignore", "kill", "window",
                   "operations"}
  /\ doc.operations \in Seq(SX!ToSet(doc.operations))

IsStructure(o) == \E k \in DOMAIN Structures : o = Structure(Structures[k])

ASSUME PreparationAssumption ==
  /\ \A submission \in Submissions : IsManifest(submission[1])
  /\ \A revision \in Revisions : IsManifest(revision[2])
  /\ {"objects", "disabled", "comp", "rights"} \subseteq DOMAIN Catalog
  /\ \A o \in DOMAIN Catalog.comp : IsStructure(o)
  /\ \A o \in Catalog.disabled : IsStructure(o) /\ o \in Catalog.objects

VARIABLES
  srv,         \* the server and the policy of the configuration
  file,        \* the manifest as it is on disk
  place,       \* "to_run", "processing", "done" or "failed"
  side,        \* the sidecar: whether there is one, its cursor and fingerprint
  phase,       \* "idle", "load", "gate", "preflight", "plan", "run" or "stop"
  m,           \* the manifest in memory, expanded
  plan, i,     \* the planned operations and the next one
  resumeFrom, cursor, quarantined,
  cat,         \* the database
  now,         \* the server's clock: an hour of a week
  sent,        \* the last statement, and how the server took it
  since,       \* what others, and what this run, changed since the preflight
  applied,     \* the operations that took effect since the file was submitted
  used         \* how often each bounded event has happened

run     == <<phase, m, plan, i, resumeFrom, cursor, quarantined, sent>>
history == <<since, applied>>
vars    == <<srv, file, place, side, run, cat, now, history, used>>

NoSide      == [there |-> FALSE, cursor |-> 0, fp |-> <<>>]
NoStatement == [outcome |-> "none"]
NoChange    == [others |-> {}, own |-> {}]

Counts0 == [claims |-> 0, edits |-> 0, drift |-> 0, ticks |-> 0, failures |-> 0, lost |-> 0]
Limits  == [claims |-> MaxClaims, edits |-> MaxEdits, drift |-> MaxDrift,
            ticks |-> MaxTicks, failures |-> MaxFailures, lost |-> MaxLost]

Use(event) == used[event] < Limits[event] /\ used' = [used EXCEPT ![event] = @ + 1]

UseIf(event, condition) == IF condition THEN Use(event) ELSE used' = used

TypeOK ==
  /\ srv \in {s[2] : s \in Submissions}
  /\ place \in {"to_run", "processing", "done", "failed"}
  /\ side.there \in BOOLEAN /\ side.cursor \in Nat
  /\ phase \in {"idle", "load", "gate", "preflight", "plan", "run", "stop"}
  /\ phase # "idle" => place = "processing"
  /\ cursor <= Len(plan) /\ i <= Len(plan) + 1
  /\ now \in 0..(HoursPerDay * DaysPerWeek - 1)

Init ==
  /\ \E submission \in Submissions : file = submission[1] /\ srv = submission[2]
  /\ place = "to_run"
  /\ side = NoSide
  /\ phase = "idle" /\ m = file /\ plan = <<>> /\ i = 1
  /\ resumeFrom = 0 /\ cursor = 0 /\ quarantined = <<>>
  /\ cat = Catalog
  /\ now \in IF file.window = Unset THEN {0} ELSE 0..(HoursPerDay * DaysPerWeek - 1)
  /\ sent = NoStatement /\ since = NoChange /\ applied = {}
  /\ used = Counts0

----------------------------------------------------------------------------
(* The window.  A clock that cannot be read (twice) closes it.               *)

WindowOpen(w, clockLost) ==
  IF w = Unset THEN TRUE ELSE ~clockLost /\ Contains(w, now)

DeferredByWindow(clockLost) ==
  Loads(file) /\ file.window # Unset /\ ~WindowOpen(file.window, clockLost)

----------------------------------------------------------------------------
(* Leaving.  A terminal outcome removes the sidecar; a graceful stop leaves  *)
(* the manifest in processing for a later run.                               *)

Idle ==
  /\ phase' = "idle" /\ m' = file' /\ plan' = <<>> /\ i' = 1
  /\ resumeFrom' = 0 /\ cursor' = 0 /\ quarantined' = <<>> /\ sent' = NoStatement

Finalize(where) ==
  /\ place' = where /\ side' = NoSide /\ file' = file
  /\ Idle

GracefulStop ==
  /\ UNCHANGED <<file, place, side>>
  /\ Idle

\* What a run that quarantined operations leaves to be submitted again.
Recovery(ignore, kill) ==
  Marshal([m EXCEPT !.on_failure = "continue", !.ignore = ignore, !.kill = kill,
                    !.operations = quarantined])

\* The rules are those of the file as it is on disk when the run ends.
FinalizePartial ==
  /\ place' = "failed" /\ side' = NoSide
  /\ file' = IF Loads(file) THEN Recovery(file.ignore, file.kill)
             ELSE Recovery(m.ignore, m.kill)
  /\ Idle

----------------------------------------------------------------------------
(* From the queue to the plan.                                               *)

\* The sidecar of an earlier run keeps its cursor.
Claim ==
  /\ phase = "idle" /\ place = "to_run"
  /\ ~DeferredByWindow(FALSE)
  /\ Use("claims")
  /\ place' = "processing"
  /\ side' = [side EXCEPT !.there = TRUE]
  /\ phase' = "load" /\ resumeFrom' = side.cursor
  /\ UNCHANGED <<srv, file, m, plan, i, cursor, quarantined, sent, cat, now, history>>

\* The rebuildable indexes of a table: those that exist and are not disabled.
RebuildableIndexes(table) ==
  Only(Structures, {s \in StructuresOf(cat, table) :
                      s.name # "" /\ Structure(s) \notin cat.disabled})

\* An ALTER INDEX ALL is expanded when the manifest is loaded.
ExpandOp(op) ==
  IF IsAll(op)
  THEN LET xs == ClusteredFirst(RebuildableIndexes(op.table))
       IN [k \in DOMAIN xs |-> ExpandedRebuild(op, xs[k])]
  ELSE <<op>>

ExpandAll(doc) ==
  [doc EXCEPT !.operations = SX!FlattenSeq([k \in DOMAIN @ |-> ExpandOp(@[k])])]

Load ==
  /\ phase = "load"
  /\ IF Loads(file)
     THEN \E lost \in BOOLEAN :
            /\ UseIf("lost", lost)
            /\ IF lost /\ \E k \in DOMAIN file.operations : IsAll(Parse(file).operations[k])
               THEN Finalize("failed")
               ELSE /\ m' = ExpandAll(Parse(file))
                    /\ phase' = "gate"
                    /\ UNCHANGED <<file, place, side, plan, i, resumeFrom, cursor,
                                  quarantined, sent>>
     ELSE Finalize("failed") /\ UNCHANGED used
  /\ UNCHANGED <<srv, cat, now, history>>

Gate ==
  /\ phase = "gate"
  /\ \E clockLost \in BOOLEAN :
       /\ UseIf("lost", clockLost)
       /\ IF WindowOpen(m.window, clockLost)
          THEN phase' = "preflight" /\ UNCHANGED <<file, place, side, m, plan, i, resumeFrom,
                                                   cursor, quarantined, sent>>
          ELSE GracefulStop
  /\ UNCHANGED <<srv, cat, now, history>>

\* Every operation is checked, the ones an earlier run did included.
Preflight ==
  /\ phase = "preflight"
  /\ \E lost \in {{}} \union {{probe} : probe \in Probes} :
       /\ UseIf("lost", lost # {})
       /\ IF Cleared(srv.server, m, cat, lost)
          THEN phase' = "plan" /\ UNCHANGED <<file, place, side, m, plan, i, resumeFrom,
                                              cursor, quarantined, sent>>
          ELSE Finalize("failed")
  /\ since' = NoChange
  /\ UNCHANGED <<srv, cat, now, applied>>

\* mutant: only a cursor past the end of the plan tells that it changed.
ReconciledByLength(planned) ==
  IF resumeFrom > Len(planned) THEN 0 ELSE resumeFrom

\* The cursor holds only for the plan it was recorded against.
Reconciled(planned) ==
  IF resumeFrom > Len(planned) \/ (side.fp # <<>> /\ side.fp # Fingerprint(planned))
  THEN 0 ELSE resumeFrom

PlanRun ==
  /\ phase = "plan"
  /\ LET planned == Plan(m, srv.server, srv.policy)
     IN /\ plan' = planned
        /\ resumeFrom' = Reconciled(planned)
        /\ cursor' = Reconciled(planned)
        /\ side' = [side EXCEPT !.cursor = Reconciled(planned), !.fp = Fingerprint(planned)]
  /\ phase' = "run" /\ i' = 1 /\ quarantined' = <<>>
  /\ UNCHANGED <<srv, file, place, m, sent, cat, now, history, used>>

----------------------------------------------------------------------------
(* The steps of the plan.                                                    *)

Step == plan[i]
AtStep == phase = "run" /\ i <= Len(plan)
Pending == AtStep /\ i > resumeFrom

\* The cursor moves over an unbroken prefix only.
AdvanceCursor ==
  IF cursor = i - 1
  THEN cursor' = i /\ side' = [side EXCEPT !.cursor = i]
  ELSE UNCHANGED <<cursor, side>>

Drain ==
  /\ AtStep
  /\ GracefulStop
  /\ UNCHANGED <<srv, cat, now, history, used>>

SkipDone ==
  /\ AtStep /\ i <= resumeFrom
  /\ i' = i + 1
  /\ UNCHANGED <<srv, file, place, side, phase, m, plan, resumeFrom, cursor, quarantined, sent,
                 cat, now, history, used>>

CloseWindow ==
  /\ Pending
  /\ \E clockLost \in BOOLEAN :
       /\ UseIf("lost", clockLost)
       /\ ~WindowOpen(m.window, clockLost)
  /\ GracefulStop
  /\ UNCHANGED <<srv, cat, now, history>>

EffectiveIntent(op) == IF op.intent # "" THEN op.intent ELSE m.intent

\* Every partition, or the one the operation names, has the compression asked.
CompressionSatisfied(op) ==
  /\ Target(op) \in cat.objects
  /\ \A p \in DOMAIN cat.comp[Target(op)] :
        op.partition \in {Unset, p} => cat.comp[Target(op)][p] = op.data_compression
  /\ op.partition # Unset => op.partition \in DOMAIN cat.comp[Target(op)]

Satisfied(op) ==
  /\ op.operation = "rebuild_index" /\ ~IsAll(op)
  /\ op.data_compression # ""
  /\ EffectiveIntent(op) = "compression"
  /\ CompressionSatisfied(op)

SkipSatisfied ==
  /\ Pending /\ WindowOpen(m.window, FALSE)
  /\ Satisfied(Step.op)
  /\ i' = i + 1
  /\ AdvanceCursor
  /\ applied' = applied \union {Identity(Step.op)}
  /\ UNCHANGED <<srv, file, place, phase, m, plan, resumeFrom, quarantined, sent, cat, now,
                 since, used>>

----------------------------------------------------------------------------
(* The server.                                                               *)

StorageOf(op) ==
  LET named == {s \in StructuresOf(cat, Target(op)[1]) : Structure(s) = Target(op)}
  IN IF op.operation = "rebuild_index" /\ named # {}
     THEN (CHOOSE s \in named : TRUE).storage ELSE "rowstore"

Denied(op) ==
  \/ IsBatch(op) /\ ~({DmlPermissionFor(op), "SELECT"} \subseteq cat.rights)
  \/ Unscoped(op) /\ cat.rights \cap {"db_owner", "sysadmin"} = {}

Missing(op) ==
  /\ ~Unscoped(op) /\ Guard(op) # "if_present"
  /\ \/ ~TableExists(op, cat)
     \/ /\ op.operation \in {"rebuild_index", "reorganize_index", "alter_column"}
        /\ ~TargetExists(op, cat)

\* What a statement that succeeds leaves of the database.
Recompressed(op) ==
  [o \in DOMAIN cat.comp |-> [p \in DOMAIN cat.comp[o] |->
     IF o = Target(op) /\ op.partition \in {Unset, p} /\ op.data_compression # ""
     THEN op.data_compression ELSE cat.comp[o][p]]]

Disabled(table) == {o \in cat.disabled : o[1] = table}

After(op) ==
  CASE Guard(op) = "if_absent"  -> [cat EXCEPT !.objects = @ \union {Target(op)}]
    [] Guard(op) = "if_present" -> [cat EXCEPT !.objects = @ \ {Target(op)},
                                               !.disabled = @ \ {Target(op)}]
    [] op.operation = "rebuild_index" /\ ~IsAll(op) ->
         [cat EXCEPT !.disabled = @ \ {Target(op)}, !.comp = Recompressed(op)]
    [] op.operation = "rebuild_heap" -> [cat EXCEPT !.disabled = @ \ Disabled(op.table)]
    [] OTHER -> cat

\* How the server takes the statement; it may also fail while it runs.
Outcomes(sql, op) ==
  IF ~Compiles(sql, InDatabase(srv.server, m.database), StorageOf(op)) THEN {"refused"}
  ELSE IF Denied(op) THEN {"denied"}
  ELSE IF Missing(op) THEN {"missing"}
  ELSE {"ok", "failed"}

Sent(outcome) ==
  [outcome |-> outcome, op |-> Step.op, at |-> now, since |-> since,
   disabled |-> IF Unscoped(Step.op) THEN {} ELSE Disabled(Step.op.table)]

Succeed ==
  /\ cat' = After(Step.op)
  /\ since' = [since EXCEPT !.own = @ \union {Target(Step.op)[1]}]
  /\ applied' = applied \union {Identity(Step.op)}
  /\ sent' = Sent("ok")
  /\ AdvanceCursor
  /\ i' = i + 1
  /\ UNCHANGED <<file, place, phase, m, plan, resumeFrom, quarantined>>

\* on_failure: continue sets the operation aside and goes on.
SetAside(outcome) ==
  /\ quarantined' = Append(quarantined, Step.op)
  /\ sent' = Sent(outcome)
  /\ i' = i + 1
  /\ UNCHANGED <<file, place, side, phase, m, plan, resumeFrom, cursor>>

\* Fail fast: the manifest stops; the statement is kept in sent until it has.
Stop(outcome) ==
  /\ phase' = "stop"
  /\ sent' = Sent(outcome)
  /\ UNCHANGED <<file, place, side, m, plan, i, resumeFrom, cursor, quarantined>>

Execute ==
  /\ Pending /\ WindowOpen(m.window, FALSE)
  /\ \E lost \in BOOLEAN, outcome \in Outcomes(Step.sql, Step.op) :
       /\ Satisfied(Step.op) => lost
       /\ IF outcome = "failed" THEN ~lost /\ Use("failures") ELSE UseIf("lost", lost)
       /\ IF outcome = "ok" THEN Succeed
          ELSE /\ IF Continue(m) THEN SetAside(outcome) ELSE Stop(outcome)
               /\ UNCHANGED <<cat, since, applied>>
  /\ UNCHANGED <<srv, now>>

FailFast ==
  /\ phase = "stop"
  /\ Finalize("failed")
  /\ UNCHANGED <<srv, cat, now, history, used>>

Finish ==
  /\ phase = "run" /\ i > Len(plan)
  /\ IF quarantined = <<>> THEN Finalize("done") ELSE FinalizePartial
  /\ UNCHANGED <<srv, cat, now, history, used>>

----------------------------------------------------------------------------
(* Everything else.                                                          *)

\* The program dies; the next start puts the manifest back in the queue.
Crash ==
  /\ phase # "idle"
  /\ GracefulStop
  /\ UNCHANGED <<srv, cat, now, history, used>>

Recover ==
  /\ place = "processing" /\ phase = "idle"
  /\ place' = "to_run"
  /\ UNCHANGED <<srv, file, side, run, cat, now, history, used>>

\* The console rewrites the file of the manifest that runs.
EditRules ==
  /\ phase # "idle" /\ Loads(file)
  /\ Use("edits")
  /\ \E rule \in Rules : file' \in {AppendIgnored(file, rule), AppendKilled(file, rule),
                                    RemoveKilled(file, rule)}
  /\ file' # file
  /\ UNCHANGED <<srv, place, side, run, cat, now, history>>

\* An operator edits a manifest that waits, its sidecar beside it.
EditFile ==
  /\ phase = "idle" /\ place = "to_run" /\ side.there
  /\ Use("edits")
  /\ \E revision \in Revisions : revision[1] = file /\ file' = revision[2]
  /\ m' = file'
  /\ UNCHANGED <<srv, place, side, phase, plan, i, resumeFrom, cursor, quarantined, sent,
                 cat, now, history>>

\* What failed is submitted again: the recovery, or the file as it was.
Resubmit ==
  /\ phase = "idle" /\ place = "failed"
  /\ Use("edits")
  /\ place' = "to_run" /\ applied' = {}
  /\ UNCHANGED <<srv, file, side, run, cat, now, since>>

Toggle(o) ==
  IF o \in cat.objects /\ o \in DOMAIN cat.comp /\ o \notin cat.disabled
  THEN {[cat EXCEPT !.objects = @ \ {o}],
        [cat EXCEPT !.disabled = @ \union {o}, !.comp[o] = [p \in DOMAIN @ |-> "NONE"]]}
  ELSE IF o \in cat.objects THEN {[cat EXCEPT !.objects = @ \ {o}, !.disabled = @ \ {o}]}
  ELSE {[cat EXCEPT !.objects = @ \union {o}]}

Named(ops) == {ops[k].table : k \in {j \in DOMAIN ops : "table" \in DOMAIN ops[j]}}

\* Others create, drop or disable an object of a table the manifest names, or
\* revoke a right.
Drift ==
  /\ phase \in {"load", "preflight", "run"}
  /\ Use("drift")
  /\ \/ \E o \in {obj \in Catalog.objects : obj[1] \in Named(file.operations)} :
          cat' \in Toggle(o) /\ since' = [since EXCEPT !.others = @ \union {o}]
     \/ \E right \in cat.rights :
          /\ cat' = [cat EXCEPT !.rights = @ \ {right}]
          /\ since' = [since EXCEPT !.others = @ \union {<<right>>}]
  /\ UNCHANGED <<srv, file, place, side, run, now, applied>>

\* The clock says something to a manifest with a window only.
Tick ==
  /\ file.window # Unset
  /\ Use("ticks")
  /\ now' = (now + 1) % (HoursPerDay * DaysPerWeek)
  /\ UNCHANGED <<srv, file, place, side, run, cat, history>>

Next ==
  \/ Claim \/ Load \/ Gate \/ Preflight \/ PlanRun
  \/ Drain \/ SkipDone \/ CloseWindow \/ SkipSatisfied \/ Execute \/ FailFast \/ Finish
  \/ Crash \/ Recover \/ EditRules \/ EditFile \/ Resubmit \/ Drift \/ Tick

Spec == Init /\ [][Next]_vars

----------------------------------------------------------------------------
(* Properties.                                                               *)

\* A rebuild the planner of options knows nothing about: a named index whose
\* storage is not rowstore (resolve.go treats it as rowstore, and says so).
NamedOffline(op) ==
  op.operation = "rebuild_index" /\ op.storage = "unknown"
    /\ \E k \in DOMAIN Structures : Structure(Structures[k]) = Target(op)
                                   /\ Structures[k].storage # "rowstore"

\* Whatever the version, the edition, the policy, the overrides, the partition
\* and the expansion: no statement the resolver builds combines options the
\* server refuses to compile, the rebuild of a named columnstore index apart.
AcceptedByServer == sent.outcome = "refused" => NamedOffline(sent.op)

\* What the preflight let through has its object and its rights when it is
\* sent, unless somebody, or an earlier operation of the manifest, took them
\* away in between.  reorganize_index is not looked up beyond its table.
PreflightSuffices ==
  sent.outcome \in {"missing", "denied"} =>
    \/ sent.since.others # {}
    \/ Target(sent.op)[1] \in sent.since.own
    \/ sent.op.operation = "reorganize_index"

\* A heap rebuild brings a disabled index back only when the operation says it
\* may, or when the index was disabled after the check.
ReenabledKnowingly ==
  sent.outcome = "ok" /\ sent.op.operation = "rebuild_heap" =>
    sent.op.allow_reenable_disabled_indexes \/ sent.disabled \subseteq sent.since.others

\* The week seen as a circle: a window opens on each of its days at start and
\* stays open until the next end, whatever day that falls on.
InsideWindow(w, t) ==
  \E day \in (IF w.days = {} THEN 0..(DaysPerWeek - 1) ELSE w.days) :
    LET opened   == day * HoursPerDay + w.start
        length   == (w.end - w.start + HoursPerDay) % HoursPerDay
        week     == HoursPerDay * DaysPerWeek
    IN (t - opened + week) % week < length

\* No operation starts outside the window, overnight windows and day lists
\* included, however long the run and however it was interrupted.
WindowHonoured ==
  sent.outcome # "none" /\ m.window # Unset => InsideWindow(m.window, sent.at)

\* A manifest that ends in done had each of its operations, as it stands, take
\* effect since it was submitted, through interruptions, edits of the waiting
\* file and expansions that change between two runs.
DoneMeansApplied ==
  [][phase = "run" /\ place' = "done" =>
       \A k \in DOMAIN plan : Identity(plan[k].op) \in applied]_vars

Meaning(ops) ==
  [k \in DOMAIN ops |->
     LET op  == [ops[k] EXCEPT !.storage = "unknown"]
     IN <<Generate(op, Resolve(op, srv.server, srv.policy)),
          Resolve(op, srv.server, srv.policy),
          IF op.operation = "rebuild_index" THEN EffectiveIntent(op) ELSE "">>]

\* The empty strings an operator wrote as data.
EmptyString == Literal("", TRUE)

WritesEmpty(ops) ==
  \E k \in DOMAIN ops :
    \/ ops[k].operation = "add_column" /\ ops[k].default = EmptyString
    \/ IsBatch(ops[k]) /\ \E j \in DOMAIN ops[k].where : ops[k].where[j].value = EmptyString

\* A file written back by the console or left as a recovery loads, and its
\* operations generate the statements of the ones it stands for.  The empty
\* strings an operator wrote as data are the exception (see EmptyStringKept).
RewriteKeepsMeaning ==
  [][phase # "idle" /\ file' # file /\ ~WritesEmpty(m.operations) =>
       /\ Loads(file')
       /\ Meaning(Parse(file').operations)
            = Meaning(IF place' = "failed" THEN quarantined ELSE Parse(file).operations)]_vars

\* The same of every manifest, which render.go's head promises.  Does not hold:
\* compact takes an empty string literal for a field that is not set, so
\* default: '' is lost and a condition on '' no longer loads.
EmptyStringKept ==
  [][phase # "idle" /\ file' # file =>
       /\ Loads(file')
       /\ Meaning(Parse(file').operations)
            = Meaning(IF place' = "failed" THEN quarantined ELSE Parse(file).operations)]_vars

\* A resumed manifest is refused for what it has left to do.  Does not hold: the
\* preflight looks up the objects of the finished operations too, and a drop
\* that is done has none.
ResumeJudgedOnTheRest ==
  [][phase = "preflight" /\ place' = "failed" /\ used' = used =>
       ~Cleared(srv.server, [m EXCEPT !.operations = SubSeq(@, resumeFrom + 1, Len(@))],
                cat, {})]_vars

\* The recovery re-runs a quarantined operation as it was planned.  Does not
\* hold: the storage an expansion found is not written, and a columnstore
\* index, offline in the plan, is rebuilt online from the recovery.
RecoveryKeepsOptions ==
  [][phase = "run" /\ place' = "failed" =>
       \A k \in DOMAIN quarantined :
          Resolve(Parse(file').operations[k], srv.server, srv.policy)
            = Resolve(quarantined[k], srv.server, srv.policy)]_vars

\* An operation that opts in is let through whatever the sizes say.  Does not
\* hold: a read that fails refuses it.
OptInLetsThrough ==
  phase = "preflight" =>
    \A k \in DOMAIN m.operations :
       m.operations[k].operation = "rebuild_heap"
         /\ m.operations[k].allow_reenable_disabled_indexes
       => CheckReenabledIndexes(m.operations[k], cat, {"sizes"}) # "fail"
=============================================================================

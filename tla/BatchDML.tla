------------------------------ MODULE BatchDML ------------------------------
(***************************************************************************)
(* A batched UPDATE or DELETE: the loop that commits batch after batch,    *)
(* the watermark sidecar a key_range walk leaves beside its manifest, and  *)
(* the runs, crashes, stops and manifest edits between which it survives.  *)
(*                                                                         *)
(* A statement changes rows of a table to a value of its own; a row needs  *)
(* it while it matches the filter and holds something else.  How a sample  *)
(* becomes a reaction is MonitoredRunner's subject: here a batch may be    *)
(* stopped whenever the monitoring could stop it.                          *)
(***************************************************************************)
EXTENDS Integers, FiniteSets, FiniteSetsExt

CONSTANTS
  Strategies,    \* among predicate, raw (a set_raw that consumes nothing), key_range
  Row,           \* the rows of the table
  Key,           \* [column -> [Row -> its key]]: the columns a walk may follow
  Where,         \* [statement -> the rows its filter matches]
  InitialRows, MinRows, MaxRows, EscalationCap, RCSI,
  Est,           \* the row estimate, 0 when unavailable
  SmallTable, UnknownTable,      \* the cumulative-row ceilings
  SelfWait, LogDrain,            \* ticks
  MaxEdits, MaxRekeys, MaxStops, MaxTouches, MaxCrashes   \* bounds on the environment

Statement == DOMAIN Where
Column    == DOMAIN Key

ASSUME BatchAssumption ==
  /\ Strategies \subseteq {"predicate", "raw", "key_range"}
  /\ IsFiniteSet(Row) /\ Column # {}
  /\ Statement \subseteq Nat \ {0} /\ Statement # {}
  /\ \A s \in Statement : Where[s] \subseteq Row
  /\ \A c \in Column : /\ Key[c] \in [Row -> Nat \ {0}]
                       /\ \A r, q \in Row : Key[c][r] = Key[c][q] => r = q
  /\ {InitialRows, MinRows, MaxRows, EscalationCap} \subseteq Nat \ {0}
  /\ MinRows <= MaxRows /\ MinRows <= EscalationCap
  /\ {Est, SmallTable, UnknownTable, SelfWait} \subseteq Nat /\ LogDrain \in Nat \ {0}
  /\ RCSI \in BOOLEAN
  /\ {MaxEdits, MaxRekeys, MaxStops, MaxTouches, MaxCrashes} \subseteq Nat

VARIABLES
  strategy,  \* of the operation
  stmt,      \* the statement of the manifest
  column,    \* the clustered key of the table, which is the manifest's key
  outcome,   \* of the last run: none | success | incomplete | failed | interrupted
  file,      \* the watermark sidecar: its fingerprint and position, or NoFile
  val,       \* what each row holds: the statement that last wrote it, or 0
  pc,        \* idle | top | ranged | batch | stopping | relief | save | clear | final
  size,      \* rows of the next batch
  wm,        \* the walk's position in memory, 0 before the first key
  next,      \* the upper key of the batch
  rows,      \* cumulative rows the run has counted
  stall,     \* ticks waited for relief since a batch committed
  waited,    \* ticks of the current wait for relief
  batch,     \* the statement on the server: none | running | committed | undone
  got,       \* the rows it affected
  pressure,  \* none | blocking | log
  drain,     \* a graceful stop is requested
  used,      \* what the environment has done so far (bounds)
  touched,   \* rows the application wrote since the walk began (history)
  redone,    \* rows rewritten though they held the target (history)
  unsaved    \* a Save failed in this walk (history)

manifest == <<strategy, stmt, column, outcome>>
runner   == <<pc, size, wm, next, rows, stall, waited>>
server   == <<val, batch, got>>
history  == <<touched, redone, unsaved>>
vars     == <<manifest, file, runner, server, pressure, drain, used, history>>

NoFile == [fp |-> 0, wm |-> 0]
KeyRange == strategy = "key_range"
Event == {"edit", "rekey", "stop", "touch", "crash"}
Budget == [edit |-> MaxEdits, rekey |-> MaxRekeys, stop |-> MaxStops, touch |-> MaxTouches,
           crash |-> MaxCrashes]
Spend(e) == used[e] < Budget[e] /\ used' = [used EXCEPT ![e] = @ + 1]

-----------------------------------------------------------------------------
(* Sizes and ceilings.                                                      *)

Hi == IF RCSI \/ EscalationCap >= MaxRows THEN MaxRows ELSE EscalationCap

ClampRows(n) == IF n < MinRows THEN MinRows ELSE IF n > Hi THEN Hi ELSE n

\* Light I/O doubles the size, pressure halves it, anything else keeps it.
Adjusted == {ClampRows(n) : n \in {size \div 2, size, 2 * size}}

RowCeiling ==
  IF Est = 0 THEN UnknownTable ELSE IF 2 * Est > SmallTable THEN 2 * Est ELSE SmallTable

-----------------------------------------------------------------------------
(* Which rows a batch acts on.                                              *)

\* A mutant: the statement does not exclude the rows already at the target.
UnlimitedRows == Where[stmt]

Needs ==
  IF strategy = "raw" THEN Where[stmt] ELSE {r \in Where[stmt] : val[r] # stmt}

Above(k) == {r \in Needs : Key[column][r] > k}

KeysAbove(k) == {Key[column][r] : r \in Above(k)}

\* The size-th smallest key above the watermark, or the last one.
NextKey ==
  CHOOSE k \in KeysAbove(wm) :
    LET upTo == Cardinality({j \in KeysAbove(wm) : j <= k})
    IN  upTo = size \/ (upTo < size /\ k = Max(KeysAbove(wm)))

\* TOP picks whichever rows it meets first; a range is whole.
Batches ==
  IF KeyRange THEN {{r \in Above(wm) : Key[column][r] <= next}}
  ELSE kSubset(IF Cardinality(Needs) < size THEN Cardinality(Needs) ELSE size, Needs)

-----------------------------------------------------------------------------
Init ==
  /\ strategy \in Strategies /\ stmt = Min(Statement) /\ column = CHOOSE c \in Column : TRUE
  /\ outcome = "none" /\ file = NoFile
  /\ val = [r \in Row |-> 0]
  /\ pc = "idle" /\ size = MinRows /\ wm = 0 /\ next = 0 /\ rows = 0
  /\ stall = 0 /\ waited = 0
  /\ batch = "none" /\ got = 0 /\ pressure = "none" /\ drain = FALSE
  /\ used = [e \in Event |-> 0]
  /\ touched = {} /\ redone = {} /\ unsaved = FALSE

\* A mutant: any position found is resumed, whatever statement it was taken for.
AnyPosition == file # NoFile

Resumes == KeyRange /\ file # NoFile /\ file.fp = stmt

\* A run takes the manifest up: for the first time, again after an
\* interruption, or moved back to pending by hand.  Whatever the previous run
\* left on the server is gone by then (see ManifestLifecycle).
Start ==
  /\ pc = "idle" /\ outcome # "success" /\ batch # "running"
  /\ pc' = "top" /\ size' = ClampRows(InitialRows)
  /\ wm' = (IF Resumes THEN file.wm ELSE 0)
  /\ next' = 0 /\ rows' = 0 /\ stall' = 0 /\ waited' = 0
  /\ batch' = "none" /\ got' = 0 /\ pressure' = "none" /\ drain' = FALSE
  /\ outcome' = "none"
  /\ IF Resumes THEN UNCHANGED <<touched, unsaved>> ELSE touched' = {} /\ unsaved' = FALSE
  /\ UNCHANGED <<strategy, stmt, column, file, val, used, redone>>

End(o) ==
  /\ pc' = "idle" /\ outcome' = o
  /\ UNCHANGED <<strategy, stmt, column, size, wm, next, rows, stall, waited, server, drain, history>>

\* Between two batches the graceful stop is looked at, first of all.
StopAtTop == pc = "top" /\ drain /\ End("interrupted") /\ UNCHANGED <<file, pressure, used>>

Issue(from) ==
  /\ pc = from
  /\ pc' = "batch" /\ batch' = "running" /\ got' = 0
  /\ UNCHANGED <<manifest, file, size, wm, next, rows, stall, waited, val, pressure, drain,
                 used, history>>

IssuePredicate == ~KeyRange /\ ~drain /\ Issue("top")
IssueRange     == KeyRange /\ Issue("ranged")

ReadNextKey ==
  /\ KeyRange /\ pc = "top" /\ ~drain
  /\ IF Above(wm) = {} THEN pc' = "clear" /\ UNCHANGED next
     ELSE pc' = "ranged" /\ next' = NextKey
  /\ UNCHANGED <<manifest, file, size, wm, rows, stall, waited, server, pressure, drain,
                 used, history>>

\* A query of the walk fails, or the statement.
QueryFails ==
  pc = "top" /\ KeyRange /\ ~drain /\ End("failed") /\ UNCHANGED <<file, pressure, used>>

BatchFails ==
  pc = "batch" /\ batch = "undone" /\ End("failed") /\ UNCHANGED <<file, pressure, used>>

-----------------------------------------------------------------------------
(* The server.                                                              *)

BatchCommits ==
  /\ batch = "running" /\ batch' = "committed"
  /\ \E S \in Batches :
       /\ got' = Cardinality(S)
       /\ val' = IF strategy = "raw" THEN val ELSE [r \in Row |-> IF r \in S THEN stmt ELSE val[r]]
       /\ redone' = IF strategy = "raw" THEN redone
                    ELSE redone \cup {r \in S : val[r] = stmt}
  /\ UNCHANGED <<manifest, file, runner, pressure, drain, used, touched, unsaved>>

\* An error, the cancel or the KILL rolled it back.
BatchUndone ==
  /\ batch = "running" /\ batch' = "undone"
  /\ UNCHANGED <<manifest, file, runner, val, got, pressure, drain, used, history>>

-----------------------------------------------------------------------------
(* The batch committed.                                                     *)

\* A mutant: a predicate that never exhausts is never given up.
NoCeiling(n) == FALSE

PastCeiling(n) == n >= RowCeiling

\* The count so far, capped past the point where only the ceiling matters.
Total == Min({rows + got, RowCeiling + MaxRows})

Counted ==
  /\ stall' = 0 /\ batch' = "none"
  /\ UNCHANGED <<manifest, file, next, waited, val, got, pressure, drain, used, touched,
                 redone, unsaved>>

PredicateCounts ==
  /\ ~KeyRange /\ pc = "batch" /\ batch = "committed" /\ got > 0
  /\ ~PastCeiling(rows + got)
  /\ pc' = "top" /\ rows' = Total /\ size' \in Adjusted
  /\ UNCHANGED wm /\ Counted

PredicateExhausted ==
  /\ ~KeyRange /\ pc = "batch" /\ batch = "committed" /\ got = 0
  /\ pc' = "clear"
  /\ UNCHANGED <<manifest, file, size, wm, next, rows, stall, waited, server, pressure, drain,
                 used, history>>

PredicateRunsAway ==
  /\ ~KeyRange /\ pc = "batch" /\ batch = "committed" /\ got > 0
  /\ PastCeiling(rows + got)
  /\ End("failed") /\ UNCHANGED <<file, pressure, used>>

RangeCounts ==
  /\ KeyRange /\ pc = "batch" /\ batch = "committed"
  /\ pc' = "save" /\ rows' = Total /\ wm' = next
  /\ UNCHANGED size /\ Counted

Position == [fp |-> stmt, wm |-> wm]

\* The save is best effort: a failure is warned about and the walk goes on.
Save(ok) ==
  /\ pc = "save"
  /\ file' = (IF ok THEN Position ELSE file)
  /\ unsaved' = (unsaved \/ ~ok)
  /\ pc' = "top" /\ size' \in Adjusted
  /\ UNCHANGED <<manifest, wm, next, rows, stall, waited, server, pressure, drain, used,
                 touched, redone>>

\* A mutant: any run that ends without an error drops its position.
ClearedBy(o) == o \in {"success", "incomplete"}

Clears(o) == o = "success"

Close(o) ==
  /\ file' = IF KeyRange /\ Clears(o) THEN NoFile ELSE file
  /\ UNCHANGED used

\* The walk is over: its position goes, then the manifest is finalized.
Clear ==
  /\ pc = "clear" /\ pc' = "final" /\ Close("success")
  /\ UNCHANGED <<manifest, size, wm, next, rows, stall, waited, server, pressure, drain, history>>

Finalize == pc = "final" /\ End("success") /\ UNCHANGED <<file, pressure, used>>

-----------------------------------------------------------------------------
(* The batch is stopped, and the wait for relief.                           *)

\* A sample arrived first, whether or not the statement has finished meanwhile.
React(p) ==
  /\ pc = "batch" /\ Spend("stop")
  /\ pc' = "stopping" /\ pressure' = p
  /\ UNCHANGED <<manifest, file, size, wm, next, rows, stall, waited, server, drain, touched,
                 redone, unsaved>>

\* The cancel was answered.  What the statement did is not looked at.
Stopped ==
  /\ pc = "stopping" /\ batch # "running"
  /\ pc' = "relief" /\ waited' = 0
  /\ UNCHANGED <<manifest, file, size, wm, next, rows, stall, server, pressure, drain, used,
                 history>>

PressureClears ==
  /\ pc \in {"stopping", "relief"} /\ pressure # "none" /\ pressure' = "none"
  /\ UNCHANGED <<manifest, file, runner, server, drain, used, history>>

WaitTick ==
  /\ pc = "relief" /\ pressure # "none" /\ ~drain
  /\ waited < (IF SelfWait > LogDrain THEN SelfWait ELSE LogDrain)
  /\ waited' = waited + 1
  /\ UNCHANGED <<manifest, file, pc, size, wm, next, rows, stall, server, pressure, drain,
                 used, history>>

StallOver == SelfWait > 0 /\ stall + waited >= SelfWait

Relieved ==
  /\ pc = "relief" /\ pressure = "none" /\ ~drain /\ ~StallOver
  /\ pc' = "top" /\ stall' = stall + waited
  /\ UNCHANGED <<manifest, file, size, wm, next, rows, waited, server, pressure, drain, used,
                 history>>

\* The self-wait budget is spent, or the log did not drain: a clean stop.
GivesUp ==
  /\ pc = "relief" /\ ~drain
  /\ \/ pressure = "none" /\ StallOver
     \/ pressure = "log" /\ waited >= LogDrain
  /\ End("incomplete") /\ Close("incomplete") /\ UNCHANGED pressure

StopInRelief ==
  /\ pc = "relief" /\ drain
  /\ End("interrupted") /\ UNCHANGED <<file, pressure, used>>

ReliefBlind ==
  /\ pc = "relief"
  /\ End("failed") /\ UNCHANGED <<file, pressure, used>>

-----------------------------------------------------------------------------
(* Everybody else.                                                          *)

\* The process dies; the statement on the server ends later, one way or the other.
Crash ==
  /\ pc # "idle" /\ Spend("crash")
  /\ pc' = "idle" /\ outcome' = "interrupted"
  /\ UNCHANGED <<strategy, stmt, column, file, size, wm, next, rows, stall, waited, server, pressure,
                 drain, history>>

Drain ==
  /\ pc # "idle" /\ ~drain /\ drain' = TRUE
  /\ UNCHANGED <<manifest, file, runner, server, pressure, used, history>>

\* The application writes a row, which needs the statement again.
Touch(r) ==
  /\ val[r] # 0 /\ Spend("touch")
  /\ val' = [val EXCEPT ![r] = 0] /\ touched' = touched \cup {r}
  /\ UNCHANGED <<manifest, file, runner, batch, got, pressure, drain, redone, unsaved>>

\* The manifest is edited between two runs.
Editable(e) == pc = "idle" /\ outcome \notin {"none", "success"} /\ batch # "running" /\ Spend(e)

EditStatement(s) ==
  /\ Editable("edit") /\ s # stmt
  /\ stmt' = s
  /\ UNCHANGED <<strategy, column, outcome, file, runner, server, pressure, drain, history>>

\* The table gets another clustered key, and the manifest names it.
EditKey(c) ==
  /\ KeyRange /\ Editable("rekey") /\ c # column
  /\ column' = c
  /\ UNCHANGED <<strategy, stmt, outcome, file, runner, server, pressure, drain, history>>

Over == outcome = "success" /\ UNCHANGED vars

Runner ==
  \/ StopAtTop \/ IssuePredicate \/ ReadNextKey \/ IssueRange \/ BatchFails
  \/ PredicateCounts \/ PredicateExhausted \/ PredicateRunsAway \/ RangeCounts
  \/ Clear \/ Finalize
  \/ Stopped \/ WaitTick \/ Relieved \/ GivesUp \/ StopInRelief
  \/ \E ok \in BOOLEAN : Save(ok)

Next ==
  \/ Start \/ Runner \/ QueryFails \/ ReliefBlind
  \/ BatchCommits \/ BatchUndone \/ PressureClears
  \/ \E p \in {"blocking", "log"} : React(p)
  \/ Crash \/ Drain
  \/ \E r \in Row : Touch(r)
  \/ \E s \in Statement : EditStatement(s)
  \/ \E c \in Column : EditKey(c)
  \/ Over

Spec == Init /\ [][Next]_vars

\* The runner takes the steps it can, the server ends its statements, and
\* blocking ends with the statement that caused it; errors, crashes, stops and
\* edits are never owed.
Fairness ==
  /\ WF_vars(Runner) /\ WF_vars(BatchCommits) /\ WF_vars(PressureClears /\ pressure = "blocking")

LiveSpec == Spec /\ Fairness

-----------------------------------------------------------------------------
(* Properties.                                                              *)

TypeOK ==
  /\ strategy \in Strategies /\ stmt \in Statement /\ column \in Column
  /\ outcome \in {"none", "success", "incomplete", "failed", "interrupted"}
  /\ file \in [fp : Statement \cup {0}, wm : Nat]
  /\ val \in [Row -> Statement \cup {0}]
  /\ pc \in {"idle", "top", "ranged", "batch", "stopping", "relief", "save", "clear", "final"}
  /\ size \in MinRows..MaxRows
  /\ {wm, next, rows, stall, waited, got} \subseteq Nat
  /\ batch \in {"none", "running", "committed", "undone"}
  /\ pressure \in {"none", "blocking", "log"} /\ {drain, unsaved} \subseteq BOOLEAN
  /\ \A e \in Event : used[e] \in 0..Budget[e]
  /\ touched \subseteq Row /\ redone \subseteq Row

\* operations.md:302-307, of an edited walk: it "never skips any" row.  A batch
\* operation that reports success left none behind, except those the
\* application wrote meanwhile.
NeverSkips == outcome = "success" => \A r \in Where[stmt] \ touched : val[r] = stmt

\* What holds of it: every row the filter matches holds the target, whatever
\* crashed, was stopped, was retried or was edited before, unless the key column
\* was, or the statement was edited away and perhaps back.
NothingSkipped == used["rekey"] = 0 /\ used["edit"] <= 1 => NeverSkips

\* No replay, retry or late commit writes a row a second time: a trigger or a
\* temporal table sees each row once.
AppliedOnce == redone = {}

\* However an interrupted or abandoned walk ended, the next run starts from its
\* last committed batch: a position is dropped only when the walk is complete.
ResumePointKept ==
  (KeyRange /\ pc = "idle" /\ wm > 0 /\ ~unsaved /\ used["edit"] + used["rekey"] = 0
     /\ (outcome \in {"incomplete", "failed"} \/ (outcome = "interrupted" /\ used["crash"] = 0)))
    => file = Position

\* Every run of the operation comes to an end: the table is exhausted, the
\* ceiling of a predicate that consumes nothing is reached, or the wait for
\* relief is given up.
RunEnds == [](pc = "top" => <>(pc = "idle"))

=============================================================================

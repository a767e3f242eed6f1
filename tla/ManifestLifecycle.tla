------------------------- MODULE ManifestLifecycle -------------------------
(***************************************************************************)
(* The life of a manifest: the queue directories, the engine that runs the *)
(* operations of one manifest at a time, the sidecar that makes a run      *)
(* resumable, the crash-recovery sweep, and the paused resumable rebuilds  *)
(* and orphaned sessions a run can leave on the server.                    *)
(*                                                                         *)
(* Every action ends at a durable write, a server read or a statement, so  *)
(* that a crash may fall between any two of them.  One process runs at a   *)
(* time: module QueueLock is about why.                                    *)
(***************************************************************************)
EXTENDS Naturals, Sequences

CONSTANTS
  Manifest,     \* manifest names; their order as numbers is the name order
  Op,           \* operations, one per distinct generated statement
  Target,       \* (command, object) identities: what a plan fingerprint sees
  TargetOf,     \* [Op -> Target]
  TableOf,      \* [Target -> table]
  IndexOp,      \* operations on an index (ALTER INDEX ... ABORT applies)
  Resumable,    \* operations resolved to RESUMABLE = ON
  Stoppable,    \* reorganizes, shrinks, batched DML: they heed a drain too
  Chunked,      \* shrinks and batched DML: they may stop short of target
  Intent,       \* rebuilds under intent: compression
  Plans,        \* the plans a manifest may hold
  Continue,     \* manifests with on_failure: continue
  OptIn,        \* manifests with abort_blocking_resumable: true
  Windowed,     \* manifests with an execution window
  Foreign,      \* a statement no manifest generated
  NoPause,      \* nothing is paused on the target
  Faults,       \* the kinds of adverse event this instance allows
  MaxFaults     \* how many of them may happen

FaultKind == {"crash", "drain", "window", "probe", "loss", "repin",
              "edit", "withdraw", "foreign"}

ASSUME LifecycleAssumption ==
  /\ Manifest \subseteq Nat
  /\ TargetOf \in [Op -> Target]
  /\ Resumable \subseteq IndexOp /\ IndexOp \subseteq Op
  /\ Chunked \subseteq Stoppable /\ Stoppable \subseteq Op /\ Intent \subseteq Op
  /\ Plans \subseteq Seq(Op)
  /\ Continue \subseteq Manifest /\ OptIn \subseteq Manifest
  /\ Windowed \subseteq Manifest
  /\ Foreign \notin Op /\ NoPause \notin Op /\ Foreign # NoPause
  /\ Faults \subseteq FaultKind
  /\ MaxFaults \in Nat

VARIABLES
  dir,       \* the directory holding the manifest file
  sidecar,   \* <name>.state.json in processing
  plan,      \* the operations the manifest file holds
  recovery,  \* <name>.recovery.yaml: the operations it holds
  verdict,   \* the outcome in <name>.log beside a finished manifest
  pc,        \* where the process is
  todo,      \* names the current sweep or pass has still to visit
  cur,       \* the manifest being worked on
  i,         \* the operation being worked on, from 1
  failed,    \* positions quarantined in this run
  stmt,      \* the statement issued for operation i
  result,    \* how operation i ended
  outcome,   \* the outcome being finalized
  drain,     \* the drain flag
  repinned,  \* the execution session changed since the sidecar was stamped
  effect,    \* targets whose work was done for a manifest (history)
  paused,    \* the statement of the paused resumable rebuild of a target
  orphans,   \* sessions still executing for a process that crashed
  faults     \* adverse events so far

files  == <<dir, sidecar, plan, recovery, verdict>>
memory == <<cur, i, failed, stmt, result, outcome>>
server == <<effect, paused, orphans>>
vars   == <<files, pc, todo, memory, drain, repinned, server, faults>>

Mark      == [op: Nat, target: Target]   \* a paused-resumable record
Outcome   == {"SUCCESS", "PARTIAL", "FAILED", "INCOMPLETE"}
Sidecar   == [live: BOOLEAN, cursor: Nat, fp: Seq(Target), paused: SUBSET Mark]
NoSidecar == [live |-> FALSE, cursor |-> 0, fp |-> <<>>, paused |-> {}]
Orphan    == [m: Manifest, op: Op, known: BOOLEAN]
             \* known: the sidecar named the session when the process died

Fingerprint(p) == [j \in 1..Len(p) |-> TargetOf[p[j]]]

Init ==
  /\ dir = [m \in Manifest |-> "to_run"]
  /\ sidecar = [m \in Manifest |-> NoSidecar]
  /\ plan \in [Manifest -> Plans]
  /\ recovery = [m \in Manifest |-> {}]
  /\ verdict = [m \in Manifest |-> "none"]
  /\ pc = "down" /\ todo = {} /\ cur = 0 /\ i = 0 /\ failed = {}
  /\ stmt = "none" /\ result = "none" /\ outcome = "none"
  /\ drain = FALSE /\ repinned = FALSE
  /\ effect = [m \in Manifest |-> {}]
  /\ paused = [t \in Target |-> NoPause]
  /\ orphans = {}
  /\ faults = 0

(* An adverse event of kind f happens now. *)
Fault(f) == f \in Faults /\ faults < MaxFaults /\ faults' = faults + 1

First(S, m) == m \in S /\ \A n \in S : m <= n

-----------------------------------------------------------------------------
(* Startup: the lock is taken and the recovery sweep reads the sidecars. *)
Start ==
  /\ pc = "down"
  /\ pc' = "recover"
  /\ todo' = {m \in Manifest : sidecar[m].live}
  /\ drain' = FALSE /\ repinned' = FALSE
  /\ cur' = 0 /\ i' = 0 /\ failed' = {}
  /\ stmt' = "none" /\ result' = "none" /\ outcome' = "none"
  /\ UNCHANGED <<files, server, faults>>

(* Mutants: a paused rebuild read as proof that the orphan stopped; the SPID *)
(* alone taken as identity, though another session has it by now.            *)
OrphanAliveUnlessPaused(m) ==
  /\ \E o \in orphans : o.m = m /\ o.known
  /\ \A t \in Target : paused[t] = NoPause
OrphanBySpidAlone(m) == sidecar[m].live

OrphanAlive(m) == \E o \in orphans : o.m = m /\ o.known
ResumableExists == \E t \in Target : paused[t] # NoPause
KeepSidecarToResume(m) == ResumableExists   \* mutant: the cursor is forgotten
KeepSidecar(m) == ResumableExists \/ sidecar[m].cursor > 0

Sweeping(m) == pc = "recover" /\ First(todo, m)

(* The server cannot be read about this orphan: it stays where it is. *)
RecoverUnreadable(m) ==
  /\ Sweeping(m)
  /\ Fault("probe")
  /\ todo' = todo \ {m}
  /\ UNCHANGED <<files, pc, memory, drain, repinned, server>>

Adopt(m) ==
  /\ Sweeping(m)
  /\ OrphanAlive(m)
  /\ todo' = todo \ {m}
  /\ UNCHANGED <<files, pc, memory, drain, repinned, server, faults>>

(* Resume or restart: back to to_run (or already there), and the sidecar is *)
(* kept when the next run needs it.                                         *)
Requeue(m) ==
  /\ Sweeping(m)
  /\ ~OrphanAlive(m)
  /\ dir[m] \in {"processing", "to_run"}
  /\ dir' = [dir EXCEPT ![m] = "to_run"]
  /\ \/ KeepSidecar(m) /\ todo' = todo \ {m} /\ UNCHANGED <<pc, cur>>
     \/ ~KeepSidecar(m) /\ pc' = "drop" /\ cur' = m /\ UNCHANGED todo
  /\ UNCHANGED <<sidecar, plan, recovery, verdict, i, failed, stmt, result,
                 outcome, drain, repinned, server, faults>>

DropSidecar ==
  /\ pc = "drop"
  /\ sidecar' = [sidecar EXCEPT ![cur] = NoSidecar]
  /\ todo' = todo \ {cur}
  /\ pc' = "recover"
  /\ UNCHANGED <<dir, plan, recovery, verdict, memory, drain, repinned,
                 server, faults>>

(* The manifest is in neither directory: the requeue error ends the sweep, *)
(* and the run with it.                                                    *)
AbortSweep(m) ==
  /\ Sweeping(m)
  /\ ~OrphanAlive(m)
  /\ dir[m] \notin {"processing", "to_run"}
  /\ pc' = "down"
  /\ todo' = {}
  /\ UNCHANGED <<files, memory, drain, repinned, server, faults>>

Discover ==
  /\ pc = "recover"
  /\ todo = {}
  /\ todo' = {m \in Manifest : dir[m] = "to_run"}
  /\ pc' = "scan"
  /\ UNCHANGED <<files, memory, drain, repinned, server, faults>>

-----------------------------------------------------------------------------
(* ProcessAll: the loop over the discovered names. *)
Exit ==
  /\ pc = "scan"
  /\ todo = {} \/ drain
  /\ pc' = "down"
  /\ todo' = {}
  /\ UNCHANGED <<files, memory, drain, repinned, server, faults>>

Visiting(m) == pc = "scan" /\ ~drain /\ First(todo, m)

Defer(m) ==
  /\ Visiting(m)
  /\ m \in Windowed /\ Fault("window")
  /\ todo' = todo \ {m}
  /\ UNCHANGED <<files, pc, memory, drain, repinned, server>>

(* The name is gone from to_run by the time of the rename. *)
SkipMissing(m) ==
  /\ Visiting(m)
  /\ dir[m] # "to_run"
  /\ todo' = todo \ {m}
  /\ UNCHANGED <<files, pc, memory, drain, repinned, server, faults>>

Claim(m) ==
  /\ Visiting(m)
  /\ dir[m] = "to_run"
  /\ dir' = [dir EXCEPT ![m] = "processing"]
  /\ todo' = todo \ {m}
  /\ cur' = m /\ failed' = {}
  /\ pc' = "claimed"
  /\ UNCHANGED <<sidecar, plan, recovery, verdict, i, stmt, result, outcome,
                 drain, repinned, server, faults>>

(* Re-stamp the session, carry over cursor, fingerprint and paused record. *)
Stamped(s) == [s EXCEPT !.live = TRUE]

WriteSidecar ==
  /\ pc = "claimed"
  /\ sidecar' = [sidecar EXCEPT ![cur] = Stamped(@)]
  /\ repinned' = FALSE
  /\ pc' = "load"
  /\ UNCHANGED <<dir, plan, recovery, verdict, todo, memory, drain, server,
                 faults>>

(* The manifest does not load, expand, pass preflight or plan. *)
Reject ==
  /\ pc = "load"
  /\ outcome' = "FAILED"
  /\ pc' = "seal"
  /\ UNCHANGED <<files, todo, cur, i, failed, stmt, result, drain, repinned,
                 server, faults>>

ClosedAtLoad ==
  /\ pc = "load"
  /\ cur \in Windowed /\ Fault("window")
  /\ pc' = "scan"
  /\ UNCHANGED <<files, todo, memory, drain, repinned, server>>

(* Mutant: the cursor is trusted whatever plan it was recorded against. *)
ResumeFromAnyPlan(s, p) == IF s.cursor > Len(p) THEN 0 ELSE s.cursor

ResumeFrom(s, p) ==
  IF s.cursor > Len(p) \/ (s.fp # <<>> /\ s.fp # Fingerprint(p))
  THEN 0 ELSE s.cursor

Bound(s, p) == [s EXCEPT !.cursor = ResumeFrom(s, p), !.fp = Fingerprint(p)]

Prepare ==
  /\ pc = "load"
  /\ sidecar' = [sidecar EXCEPT ![cur] = Bound(@, plan[cur])]
  /\ i' = 1
  /\ pc' = "op"
  /\ UNCHANGED <<dir, plan, recovery, verdict, todo, cur, failed, stmt,
                 result, outcome, drain, repinned, server, faults>>

-----------------------------------------------------------------------------
(* runStep: operation i, from the drain check to the statement. *)
op == plan[cur][i]
target == TargetOf[op]
AtStep == pc = "op" /\ i <= Len(plan[cur])
Pending == AtStep /\ ~drain /\ i > sidecar[cur].cursor
Own == [op |-> i, target |-> target]
Owns == Own \in sidecar[cur].paused

(* Paused rebuilds on the operation's table that are not this statement. *)
Blockers == {t \in Target : /\ TableOf[t] = TableOf[target]
                            /\ paused[t] # NoPause
                            /\ ~(t = target /\ paused[t] = op)}

StopBetween ==
  /\ \/ AtStep /\ drain /\ UNCHANGED faults
     \/ Pending /\ cur \in Windowed /\ Fault("window")
  /\ pc' = "scan"
  /\ UNCHANGED <<files, todo, memory, drain, repinned, server>>

(* An earlier run completed it. *)
SkipDone ==
  /\ AtStep /\ ~drain /\ i <= sidecar[cur].cursor
  /\ i' = i + 1
  /\ UNCHANGED <<files, pc, todo, cur, failed, stmt, result, outcome, drain,
                 repinned, server, faults>>

(* intent: compression, and the server says the target already holds it. *)
SkipSatisfied ==
  /\ Pending
  /\ op \in Intent /\ ~Owns
  /\ effect' = [effect EXCEPT ![cur] = @ \cup {target}]
  /\ pc' = "advance"
  /\ UNCHANGED <<files, todo, memory, drain, repinned, paused, orphans, faults>>

Issue(s) == stmt' = s /\ pc' = "run" /\ UNCHANGED result
Refuse(r) == result' = r /\ pc' = "ended" /\ UNCHANGED stmt

(* The sidecar says this operation left a paused rebuild: continue it if *)
(* the server still holds one, else run the planned statement.           *)
BeginOwned ==
  /\ Pending /\ Owns
  /\ \/ paused[target] # NoPause /\ Issue("resume") /\ UNCHANGED faults
     \/ paused[target] = NoPause /\ Issue("rebuild") /\ UNCHANGED faults
     \/ Fault("probe") /\ Issue("rebuild")
  /\ UNCHANGED <<files, todo, cur, i, failed, outcome, drain, repinned, server>>

(* Nothing else is paused on the table, or what is paused is this very *)
(* statement: issue it, and the server starts or continues it.         *)
BeginClear ==
  /\ Pending /\ ~Owns
  /\ op \in IndexOp => Blockers = {} \/ paused[target] = op
  /\ Issue("rebuild")
  /\ UNCHANGED <<files, todo, cur, i, failed, outcome, drain, repinned,
                 server, faults>>

(* The paused operations cannot be read: stop, keep the manifest. *)
BeginUnreadable ==
  /\ Pending /\ ~Owns /\ op \in IndexOp
  /\ Fault("probe")
  /\ Refuse("stopped")
  /\ UNCHANGED <<files, todo, cur, i, failed, outcome, drain, repinned, server>>

MayAbortSibling(b) == cur \in OptIn   \* mutant: the opt-in covers any index
MayAbort(b) == b = target /\ cur \in OptIn

(* Another build is paused on the table. With the opt-in, one on this very *)
(* index is aborted and the rebuild runs; anything else fails the operation. *)
BeginBlocked ==
  /\ Pending /\ ~Owns /\ op \in IndexOp
  /\ paused[target] # op
  /\ \E b \in Blockers :
       IF MayAbort(b)
       THEN \/ /\ paused' = [paused EXCEPT ![b] = NoPause]
               /\ Issue("rebuild")
               /\ UNCHANGED faults
            \/ Fault("loss") /\ Refuse("failed") /\ UNCHANGED paused
       ELSE Refuse("failed") /\ UNCHANGED <<paused, faults>>
  /\ UNCHANGED <<files, todo, cur, i, failed, outcome, drain, repinned,
                 effect, orphans>>

-----------------------------------------------------------------------------
(* What the server makes of the statement of operation o: external. *)
Runnable ==
  \/ op \notin IndexOp
  \/ stmt = "resume" /\ paused[target] # NoPause
  \/ stmt = "rebuild" /\ Blockers = {}

Commits ==
  /\ Runnable
  /\ effect' = [effect EXCEPT ![cur] = @ \cup {target}]
  /\ paused' = IF op \in IndexOp THEN [paused EXCEPT ![target] = NoPause]
                                 ELSE paused
Pauses ==
  /\ Runnable /\ op \in Resumable
  /\ paused' = [paused EXCEPT ![target] = IF @ = NoPause THEN op ELSE @]
  /\ UNCHANGED effect
RollsBack == UNCHANGED <<effect, paused>>

Ends(r) ==
  /\ result' = r /\ pc' = "ended"
  /\ UNCHANGED <<files, todo, cur, i, failed, stmt, outcome, drain, repinned,
                 orphans>>

Completes == pc = "run" /\ Commits /\ Ends("ok") /\ UNCHANGED faults

StopsShort ==
  /\ pc = "run" /\ op \in Chunked
  /\ RollsBack /\ Ends("short") /\ UNCHANGED faults

(* A drain pauses a resumable, or ends a wait or a chunk loop; whatever the *)
(* statement did at that moment, the runner answers ErrStopped.             *)
StopsOnDrain ==
  /\ pc = "run" /\ drain /\ op \in Resumable \cup Stoppable
  /\ Commits \/ Pauses \/ RollsBack
  /\ Ends("stopped") /\ UNCHANGED faults

(* The statement ends in an error. A resumable one is then looked for on the *)
(* server: still paused, or unreadable, makes it an interruption.            *)
LeftPaused == op \in Resumable /\ paused'[target] # NoPause

Errors ==
  /\ pc = "run"
  /\ \/ RollsBack /\ ~(Runnable /\ LeftPaused) /\ UNCHANGED faults
     \/ (Commits \/ Pauses \/ RollsBack) /\ Fault("loss")
  /\ Ends(IF LeftPaused THEN "interrupted" ELSE "failed")

ErrorsUnreadable ==
  /\ pc = "run" /\ op \in Resumable
  /\ Fault("probe")
  /\ Commits \/ Pauses \/ RollsBack
  /\ Ends("interrupted")

-----------------------------------------------------------------------------
(* runStep: from the result to the next operation or the outcome. *)
Recorded(s) == [s EXCEPT !.paused = IF op \in Resumable THEN {Own} ELSE @]

Interrupt ==
  /\ pc = "ended" /\ result \in {"stopped", "interrupted"}
  /\ sidecar' = [sidecar EXCEPT ![cur] = Recorded(@)]
  /\ pc' = "scan"
  /\ UNCHANGED <<dir, plan, recovery, verdict, todo, memory, drain, repinned,
                 server, faults>>

FailManifest ==
  /\ pc = "ended"
  /\ \/ result = "failed" /\ cur \notin Continue /\ outcome' = "FAILED"
     \/ result = "short" /\ outcome' = "INCOMPLETE"
  /\ pc' = "seal"
  /\ UNCHANGED <<files, todo, cur, i, failed, stmt, result, drain, repinned,
                 server, faults>>

Quarantine ==
  /\ pc = "ended" /\ result = "failed" /\ cur \in Continue
  /\ failed' = failed \cup {i}
  /\ i' = i + 1
  /\ pc' = "op"
  /\ UNCHANGED <<files, todo, cur, stmt, result, outcome, drain, repinned,
                 server, faults>>

Cleared(s) == [s EXCEPT !.paused = {r \in @ : r.op # i}]

Succeed ==
  /\ pc = "ended" /\ result = "ok"
  /\ sidecar' = [sidecar EXCEPT ![cur] = Cleared(@)]
  /\ pc' = "advance"
  /\ UNCHANGED <<dir, plan, recovery, verdict, todo, memory, drain, repinned,
                 server, faults>>

(* The cursor moves only from exactly i-1: it freezes at the first gap. *)
NewCursor(c) == IF c = i - 1 THEN i ELSE c

Advanced(s) == [s EXCEPT !.cursor = NewCursor(@)]

AdvanceCursor ==
  /\ pc = "advance"
  /\ sidecar' = [sidecar EXCEPT ![cur] = Advanced(@)]
  /\ i' = i + 1
  /\ pc' = "op"
  /\ UNCHANGED <<dir, plan, recovery, verdict, todo, cur, failed, stmt,
                 result, outcome, drain, repinned, server, faults>>

VerdictUnlessAllFailed ==   \* mutant: a quarantine is forgotten if anything succeeded
  IF failed = 1..Len(plan[cur]) THEN "PARTIAL" ELSE "SUCCESS"
Verdict == IF failed = {} THEN "SUCCESS" ELSE "PARTIAL"

LoopEnds ==
  /\ pc = "op" /\ i > Len(plan[cur])
  /\ outcome' = Verdict
  /\ pc' = "seal"
  /\ UNCHANGED <<files, todo, cur, i, failed, stmt, result, drain, repinned,
                 server, faults>>

-----------------------------------------------------------------------------
(* finalize, finalizeIncomplete, finalizePartial: sidecar first, then the *)
(* move, then the recovery manifest and the report.                       *)
Seal ==
  /\ pc = "seal"
  /\ sidecar' = [sidecar EXCEPT ![cur] = NoSidecar]
  /\ pc' = "move"
  /\ UNCHANGED <<dir, plan, recovery, verdict, todo, memory, drain, repinned,
                 server, faults>>

Move ==
  /\ pc = "move"
  /\ dir' = [dir EXCEPT ![cur] =
               IF outcome = "SUCCESS" THEN "done" ELSE "failed"]
  /\ pc' = IF outcome = "PARTIAL" THEN "handover" ELSE "report"
  /\ UNCHANGED <<sidecar, plan, recovery, verdict, todo, memory, drain,
                 repinned, server, faults>>

HandOver ==
  /\ pc = "handover"
  /\ recovery' = [recovery EXCEPT ![cur] = {plan[cur][j] : j \in failed}]
  /\ pc' = "report"
  /\ UNCHANGED <<dir, sidecar, plan, verdict, todo, memory, drain, repinned,
                 server, faults>>

Report ==
  /\ pc = "report"
  /\ verdict' = [verdict EXCEPT ![cur] = outcome]
  /\ pc' = "scan"
  /\ UNCHANGED <<dir, sidecar, plan, recovery, todo, memory, drain, repinned,
                 server, faults>>

-----------------------------------------------------------------------------
(* The environment. *)
Crash ==
  /\ pc # "down" /\ Fault("crash")
  /\ pc' = "down"
  /\ todo' = {}
  /\ orphans' = IF pc = "run"
                THEN orphans \cup {[m |-> cur, op |-> op, known |-> ~repinned]}
                ELSE orphans
  /\ UNCHANGED <<files, memory, drain, repinned, effect, paused>>

(* An orphaned statement ends: committed, rolled back or left paused. *)
OrphanEnds(o) ==
  /\ o \in orphans
  /\ orphans' = orphans \ {o}
  /\ LET t == TargetOf[o.op]
     IN \/ /\ effect' = [effect EXCEPT ![o.m] = @ \cup {t}]
           /\ paused' = IF o.op \in IndexOp
                        THEN [paused EXCEPT ![t] = NoPause] ELSE paused
        \/ /\ o.op \in Resumable
           /\ paused' = [paused EXCEPT ![t] = IF @ = NoPause THEN o.op ELSE @]
           /\ UNCHANGED effect
        \/ UNCHANGED <<effect, paused>>
  /\ UNCHANGED <<files, pc, todo, memory, drain, repinned, faults>>

RequestDrain ==
  /\ pc # "down" /\ ~drain /\ Fault("drain")
  /\ drain' = TRUE
  /\ UNCHANGED <<files, pc, todo, memory, repinned, server>>

CancelDrain ==
  /\ pc # "down" /\ drain
  /\ drain' = FALSE
  /\ UNCHANGED <<files, pc, todo, memory, repinned, server, faults>>

(* A broken execution connection is re-pinned before the next statement. *)
Repin ==
  /\ pc \in {"op", "run"} /\ ~repinned /\ Fault("repin")
  /\ repinned' = TRUE
  /\ UNCHANGED <<files, pc, todo, memory, drain, server>>

InHand(m) == cur = m /\ pc \notin {"down", "recover", "drop", "scan"}

(* The operator changes the operations of a manifest no run has loaded. *)
Edit(m) ==
  /\ dir[m] \in {"to_run", "processing"} /\ ~InHand(m) /\ Fault("edit")
  /\ \E p \in Plans : plan' = [plan EXCEPT ![m] = p]
  /\ UNCHANGED <<dir, sidecar, recovery, verdict, pc, todo, memory, drain,
                 repinned, server>>

(* The operator disables a queued manifest by giving it a leading dot. *)
Withdraw(m) ==
  /\ dir[m] = "to_run" /\ Fault("withdraw")
  /\ dir' = [dir EXCEPT ![m] = "withdrawn"]
  /\ UNCHANGED <<sidecar, plan, recovery, verdict, pc, todo, memory, drain,
                 repinned, server>>

(* Somebody else leaves a resumable rebuild paused. *)
ForeignPause(t) ==
  /\ \A u \in Target : TableOf[u] = TableOf[t] => paused[u] = NoPause
  /\ Fault("foreign")
  /\ paused' = [paused EXCEPT ![t] = Foreign]
  /\ UNCHANGED <<files, pc, todo, memory, drain, repinned, effect, orphans>>

-----------------------------------------------------------------------------
Recovery ==
  \/ Start \/ DropSidecar \/ Discover
  \/ \E m \in Manifest : \/ RecoverUnreadable(m) \/ Adopt(m)
                         \/ Requeue(m) \/ AbortSweep(m)
Pass ==
  \/ Exit \/ WriteSidecar \/ Reject \/ ClosedAtLoad \/ Prepare
  \/ \E m \in Manifest : Defer(m) \/ SkipMissing(m) \/ Claim(m)
Step ==
  \/ StopBetween \/ SkipDone \/ SkipSatisfied
  \/ BeginOwned \/ BeginClear \/ BeginUnreadable \/ BeginBlocked
  \/ Completes \/ StopsShort \/ StopsOnDrain \/ Errors \/ ErrorsUnreadable
  \/ Interrupt \/ FailManifest \/ Quarantine \/ Succeed \/ AdvanceCursor
Finalize == LoopEnds \/ Seal \/ Move \/ HandOver \/ Report

Environment ==
  \/ Crash \/ RequestDrain \/ CancelDrain \/ Repin
  \/ \E o \in orphans : OrphanEnds(o)
  \/ \E m \in Manifest : Edit(m) \/ Withdraw(m)
  \/ \E t \in Target : ForeignPause(t)

Next == Recovery \/ Pass \/ Step \/ Finalize \/ Environment

Spec == Init /\ [][Next]_vars

(* The process keeps taking its steps while it is up, the operator launches  *)
(* it again when it is down (cron, a service), and an orphaned statement ends. *)
Process == Recovery \/ Pass \/ Step \/ Finalize
FairSpec == Spec /\ WF_vars(Process) /\ WF_vars(\E o \in orphans : OrphanEnds(o))

-----------------------------------------------------------------------------
FlagsTyped == drain \in BOOLEAN /\ repinned \in BOOLEAN

StateTyped ==
  /\ dir \in [Manifest -> {"to_run", "processing", "done", "failed", "withdrawn"}]
  /\ sidecar \in [Manifest -> Sidecar]
  /\ plan \in [Manifest -> Plans]
  /\ recovery \in [Manifest -> SUBSET Op]
  /\ verdict \in [Manifest -> {"none"} \cup Outcome]
  /\ pc \in {"down", "recover", "drop", "scan", "claimed", "load", "op", "run",
             "ended", "advance", "seal", "move", "handover", "report"}
  /\ todo \subseteq Manifest
  /\ cur \in Manifest \/ (cur = 0 /\ pc \in {"down", "recover", "scan"})
  /\ i \in Nat
  /\ failed \subseteq Nat
  /\ stmt \in {"none", "rebuild", "resume"}
  /\ result \in {"none", "ok", "short", "stopped", "interrupted", "failed"}
  /\ outcome \in {"none"} \cup Outcome
  /\ effect \in [Manifest -> SUBSET Target]
  /\ paused \in [Target -> Op \cup {Foreign, NoPause}]
  /\ orphans \subseteq Orphan
  /\ faults \in 0..MaxFaults

TypeOK == StateTyped /\ FlagsTyped

Done(m, j) == TargetOf[plan[m][j]] \in effect[m]

(* A manifest that reaches 04.done has had every operation of its plan       *)
(* carried out, over however many interrupted, edited and resumed runs: the  *)
(* cursor, the fingerprint and the quarantine of runStep never skip one.     *)
SuccessIsEarned ==
  \A m \in Manifest : dir[m] = "done" => \A j \in 1..Len(plan[m]) : Done(m, j)

(* A PARTIAL manifest loses nothing: each operation was carried out, or is in *)
(* the recovery manifest finalizePartial writes, even when some ran in an    *)
(* earlier run and their failures are not in this run's memory.              *)
PartialAccountsForAll ==
  \A m \in Manifest : verdict[m] = "PARTIAL" =>
    \A j \in 1..Len(plan[m]) : Done(m, j) \/ plan[m][j] \in recovery[m]

Covers(s, e) == /\ s.cursor <= Len(s.fp)
                /\ \A j \in 1..s.cursor : s.fp[j] \in e

(* The durable cursor covers only operations already carried out for the     *)
(* plan it was recorded against, whatever was quarantined before them and    *)
(* wherever a crash fell between the statement and the write (advanceCursor). *)
CursorCoversOnlyDone == \A m \in Manifest : Covers(sidecar[m], effect[m])

(* No run relaunches a manifest while a statement of an earlier, crashed run *)
(* of it still executes on a session the sidecar named (DecideRecovery).     *)
NoDoubleExecution ==
  pc = "run" => \A o \in orphans : ~(o.m = cur /\ o.known)

(* Recorded progress is given up only when the manifest is sealed or when    *)
(* its plan is no longer the one the progress was recorded against: no other *)
(* path of the sweep, the claim or an interruption moves a cursor back.      *)
ProgressKept ==
  [][\A m \in Manifest : sidecar'[m].cursor < sidecar[m].cursor =>
       \/ pc = "seal" /\ cur = m
       \/ pc = "load" /\ cur = m /\ sidecar[m].fp # Fingerprint(plan[m])]_vars

(* Server-side progress is destroyed only by the operation that owns the     *)
(* index it is on: a pause disappears when a statement on that very index    *)
(* commits, or by the ABORT a manifest opted in to; never a sibling's pause, *)
(* never the run's own recorded one (clearOrRejectBlockingResumable).        *)
PauseDestroyedOnlyByOwner ==
  [][\A t \in Target : paused[t] # NoPause /\ paused'[t] = NoPause =>
       \/ pc = "run" /\ t = target /\ t \in effect'[cur]
       \/ \E o \in orphans \ orphans' : t = TargetOf[o.op]
       \/ pc = "op" /\ t = target /\ cur \in OptIn /\ ~Owns]_vars

(* A manifest in processing that no sidecar and no process speaks for: the   *)
(* crash fell between the claim and the sidecar, or the sidecar's removal    *)
(* and the move.  The sweep reads sidecars only.                             *)
Stranded(m) == dir[m] = "processing" /\ ~sidecar[m].live /\ ~InHand(m)
Concluded(m) == dir[m] \in {"done", "failed"}

(* Every queued manifest is concluded, whatever bounded trouble it meets,    *)
(* unless a crash strands it or the operator withdraws it.                   *)
EveryManifestConcludes ==
  \A m \in Manifest : <>(Concluded(m) \/ Stranded(m) \/ dir[m] = "withdrawn")

(* docs/running.md: after a crash the manifest stays in 02.processing and the *)
(* next run continues it.  Does not hold of a crash before the sidecar is     *)
(* written or after it is removed: the sweep reads sidecars only.             *)
NothingStranded == \A m \in Manifest : ~Stranded(m)

(* The comment of runStep: a foreign paused resumable is never adopted,      *)
(* whatever the cursor.  Does not hold: an unreadable server at the boundary  *)
(* records a pause nobody saw, which the next run takes for ownership.        *)
ForeignNeverAdopted == ~(pc = "run" /\ stmt = "resume" /\ paused[target] = Foreign)

(* docs/running.md: a crash adopts a still-running operation, so nothing is  *)
(* started beside it.  Does not hold after a re-pin: the sidecar still names  *)
(* the session before it.                                                     *)
NothingRunsBesideAnOrphan == pc = "run" => \A o \in orphans : o.m # cur

(* docs/running.md: with on_failure: continue each failed operation ends in  *)
(* the recovery manifest.  Does not hold: finalizeIncomplete writes none.     *)
QuarantineHandedOver ==
  pc = "report" => {plan[cur][j] : j \in failed} \subseteq recovery[cur]

(* What the queue promises of a manifest, and the lifecycle implementing it. *)
Promise == INSTANCE ManifestContract WITH
  status   <- [m \in Manifest |-> IF verdict[m] = "none" THEN "open" ELSE verdict[m]],
  leftover <- [m \in Manifest |-> IF verdict[m] = "PARTIAL" THEN recovery[m] ELSE {}]

(* Every step of the queue, the engine, the sweep and their environment is a *)
(* step of the contract or changes nothing the contract sees.                *)
KeepsPromise == Promise!Contract

=============================================================================

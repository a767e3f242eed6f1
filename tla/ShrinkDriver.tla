---------------------------- MODULE ShrinkDriver ----------------------------
(***************************************************************************)
(* DBCC SHRINKFILE, one file after another: a free TRUNCATEONLY pass, then *)
(* chunks that move pages; a log is one statement; tempdb truncates every  *)
(* file before it moves a page. The supervision of a chunk (supervise,     *)
(* waitForRelief) is MonitoredRunner's; here it is what it may answer.     *)
(* Meanwhile others grow the files, the operator asks for a stop and takes *)
(* it back, and a monitoring channel may hang.                             *)
(***************************************************************************)
EXTENDS ShrinkCalc, Sequences, FiniteSets

CONSTANTS
  Files,          \* files of the operation, in file_id order
  MaxSize,        \* bound on the size of each file, in MB
  GrowTo,         \* bound on the size others grow each file to
  Kinds,          \* which operations: "data", "log", "tempdb"
  Keep,           \* target_free_space, absolute
  Target,         \* targetsizemb
  MaxBlock,       \* max_block_minutes in polls; 0 disables it
  MaxNoProgress, FlushAt,           \* max_no_progress, no_progress_before_flush
  Backoff, BackoffMax, SelfWait,    \* no_progress_backoff(_max), self_wait_timeout
  ReuseWait       \* log_reuse_wait_timeout, in log polls

ASSUME DriverAssumption ==
  /\ {Files, Backoff, BackoffMax, MaxNoProgress, FlushAt} \subseteq Nat \ {0}
  /\ {Keep, Target, MaxBlock, SelfWait, ReuseWait} \subseteq Nat
  /\ MaxSize \in [1 .. Files -> Nat \ {0}] /\ GrowTo \in [1 .. Files -> Nat]
  /\ \A f \in 1 .. Files : GrowTo[f] <= MaxSize[f]
  /\ FlushAt < MaxNoProgress /\ Kinds \subseteq {"data", "log", "tempdb"}

VARIABLES
  op,         \* the operation: kind, flushcaches, identify_tail_object
  used, snap, \* used and total MB of each file when the operation resolved them
  size,       \* the files, on the server
  statement,  \* ours, on the server: its state and the size it asks for
  drain,      \* a graceful stop is requested
  hung,       \* monitoring channels that do not answer
  at, pass,   \* the file in hand; "truncate" or "chunks", of a tempdb shrink
  stage,
  waits,      \* blocking samples of a watched statement in a row; polls of the log reuse
  loop,       \* the chunk loop's locals; attempts is history
  flushed,
  tail,       \* tailProbe: the entry walk found an object; maintenance blocks us
  recorded,   \* blockers written to the sidecar
  results, verdict,
  flushes,    \* cache flushes (history)
  seenMaint   \* files whose own chunk was seen blocked by maintenance (history)

server  == <<size, statement>>
probe   == <<tail, recorded, seenMaint>>
where   == <<at, pass>>
report  == <<results, verdict>>
fixed   == <<op, used, snap>>
outside == <<drain, hung>>
vars == <<fixed, server, outside, where, stage, waits, loop, flushed, probe, report, flushes>>

File == 1 .. Files
Sizes == {s \in [File -> UNION {0 .. MaxSize[f] : f \in File}] : \A f \in File : s[f] <= MaxSize[f]}

\* mutant: a watched statement and a wait for relief never look at it
DeafInWaits == drain /\ stage \notin {"watched", "relief"}
StopRequested == drain

Idle == [state |-> "idle", target |-> 0]
NoLoop == [start |-> 0, current |-> 0, step |-> MinStep, noProgress |-> 0, waited |-> 0,
           backoff |-> Backoff, maint |-> FALSE, seen |-> 0,
           cause |-> "none", attempts |-> 0]
NoTail == [entry |-> FALSE, maint |-> FALSE]

Op == {o \in [kind : Kinds, flush : BOOLEAN, identify : BOOLEAN] :
         (o.flush => o.kind = "tempdb") /\ (o.identify => o.kind = "data")}

(* used of a log is the larger of its used space and its active VLF floor *)
Init ==
  /\ op \in Op
  /\ snap \in {s \in Sizes : \A f \in File : s[f] > 0}
  /\ used \in {u \in Sizes : \A f \in File : u[f] <= snap[f]}
  /\ size = snap /\ statement = Idle
  /\ drain = FALSE /\ hung = {}
  /\ at = 1 /\ pass = (IF op.kind = "tempdb" THEN "truncate" ELSE "chunks")
  /\ stage = "next" /\ waits = 0 /\ loop = NoLoop /\ flushed = FALSE
  /\ tail = NoTail /\ recorded = {} /\ seenMaint = {}
  /\ results = <<>> /\ verdict = "none"
  /\ flushes = 0

(* FinalTargetMB, the clamp of RunTempdb *)
Final(f) == IF op.kind = "tempdb" THEN Greatest(Target, used[f]) ELSE used[f] + Keep
final == Final(at)
Ceiling == EffectiveMaxStep(loop.start)

Result(mb, noop, reason) ==
  [file |-> at, mb |-> mb, target |-> final, noop |-> noop, reason |-> reason]

GoOn == at' = at + 1 /\ stage' = "next" /\ UNCHANGED <<pass, verdict>>
End(v) == stage' = "done" /\ verdict' = v /\ UNCHANGED where

(* One file is through; keepsPartialResult keeps what a stop or blindness left. *)
FileEnds(mb, noop, reason, v) ==
  /\ results' = IF v = "failed" THEN results ELSE Append(results, Result(mb, noop, reason))
  /\ IF v = "nil" THEN GoOn ELSE End(v)

Begin(target, next) ==
  /\ statement' = [state |-> "running", target |-> target]
  /\ stage' = next

----------------------------------------------------------------------------
(* Run, RunTempdb: the next file *)

BeginTruncate ==
  /\ Begin(used[at], "watched") /\ waits' = 0
  /\ UNCHANGED <<where, loop, tail, report, size>>

EntryProbe(found) == [entry |-> found, maint |-> FALSE]

(* chunkLoop's entry: the proactive walk, the first step. *)
EnterLoop(mb) ==
  /\ loop' = [NoLoop EXCEPT !.start = mb, !.current = mb, !.step = InitialStep(mb - final, mb),
                            !.seen = mb]
  /\ \E found \in BOOLEAN : tail' = EntryProbe(found /\ op.identify)
  /\ stage' = "loop"
  /\ UNCHANGED <<where, report>>

NextData ==
  /\ op.kind = "data"
  /\ IF snap[at] <= used[at] \/ final >= snap[at]
     THEN /\ FileEnds(snap[at], TRUE, "nothing to reclaim", "nil")
          /\ UNCHANGED <<server, waits, loop, tail>>
     ELSE BeginTruncate

NextTempdb ==
  /\ op.kind = "tempdb"
  /\ \/ pass = "truncate" /\ BeginTruncate
     \/ /\ pass = "chunks" /\ UNCHANGED <<server, waits>>
        /\ IF size[at] <= final
           THEN /\ FileEnds(size[at], TRUE, "already at target", "nil")
                /\ UNCHANGED <<loop, tail>>
           ELSE EnterLoop(size[at])

(* The log: SIMPLE checkpoints, anything else waits for the log to be reusable. *)
NextLog ==
  /\ op.kind = "log"
  /\ stage' \in {"logready", "reuse"} /\ waits' = 0
  /\ UNCHANGED <<server, where, loop, tail, report>>

NextFile ==
  /\ stage = "next" /\ at <= Files
  /\ \/ /\ StopRequested /\ End("stopped")
        /\ results' = IF pass = "truncate" THEN <<>> ELSE results
        /\ UNCHANGED <<server, waits, loop, tail>>
     \/ ~StopRequested /\ (NextData \/ NextTempdb \/ NextLog)
  /\ UNCHANGED <<fixed, outside, flushed, recorded, seenMaint, flushes>>

(* Past the last file: tempdb turns to its chunks, the others return. *)
LastFile ==
  /\ stage = "next" /\ at > Files
  /\ \/ /\ pass = "truncate" /\ pass' = "chunks" /\ at' = 1
        /\ UNCHANGED <<stage, verdict>>
     \/ pass = "chunks" /\ End("nil")
  /\ UNCHANGED <<fixed, server, outside, waits, loop, flushed, probe, results, flushes>>

----------------------------------------------------------------------------
(* shrinkLog's wait: it asks the server, not the stop flag. *)

PollReuse ==
  /\ stage = "reuse"
  /\ UNCHANGED <<fixed, server, outside, loop, flushed, probe, flushes>>
  /\ \/ stage' = "logready" /\ UNCHANGED <<waits, where, report>>
     \/ waits < ReuseWait /\ waits' = waits + 1 /\ UNCHANGED <<stage, where, report>>
     \/ waits >= ReuseWait /\ FileEnds(snap[at], FALSE, "log not truncatable", "nil") /\ UNCHANGED waits

BeginLog ==
  /\ stage = "logready" /\ Begin(final, "watched") /\ waits' = 0
  /\ UNCHANGED <<fixed, size, outside, where, loop, flushed, probe, report, flushes>>

----------------------------------------------------------------------------
(* runWatchedStatement: TRUNCATEONLY and the log shrink. *)

Outcome == {"completed", "stopped", "blind", "capped"}

(* The size is read after the statement, whatever ended it. *)
AfterData(o) ==
  /\ CASE o \in {"stopped", "blind"} -> FileEnds(size[at], FALSE, o, o) /\ UNCHANGED <<loop, tail>>
       [] o \notin {"stopped", "blind"} /\ size[at] <= final ->
            FileEnds(size[at], FALSE, "", "nil") /\ UNCHANGED <<loop, tail>>
       [] OTHER -> EnterLoop(size[at])
AfterTempdb(o) ==
  /\ IF o \in {"stopped", "blind"} THEN End(o) ELSE GoOn
  /\ results' = IF o \in {"stopped", "blind"} THEN <<>> ELSE results
  /\ UNCHANGED <<loop, tail>>
AfterLog(o) ==
  /\ UNCHANGED <<loop, tail>>
  /\ FileEnds(size[at], FALSE, IF o = "completed" THEN "" ELSE o,
              IF o \in {"stopped", "blind"} THEN o ELSE "nil")
After(o) ==
  /\ statement' = Idle
  /\ \/ op.kind = "data" /\ AfterData(o)
     \/ op.kind = "tempdb" /\ AfterTempdb(o)
     \/ op.kind = "log" /\ AfterLog(o)
  /\ waits' = 0 /\ UNCHANGED size

(* The statement's own answer, which is preferred to every other; an error of *)
(* TRUNCATEONLY is swallowed, one of the log shrink ends the operation.       *)
WatchedReturns ==
  /\ \/ statement.state = "ended" /\ After("completed")
     \/ statement.state = "failed" /\ op.kind # "log" /\ After("completed")
     \/ /\ statement.state = "failed" /\ op.kind = "log" /\ statement' = Idle
        /\ FileEnds(0, FALSE, "", "failed")
        /\ UNCHANGED <<size, waits, loop, tail>>
WatchedBlind == statement.state = "running" /\ hung # {} /\ After("blind")
(* A sample of a channel that answers; the cap needs an unbroken streak. *)
WatchedSample ==
  /\ statement.state = "running" /\ "blocking" \notin hung /\ MaxBlock > 0
  /\ \/ waits' = 0 /\ UNCHANGED <<server, where, stage, loop, tail, report>>
     \/ waits < MaxBlock /\ waits' = waits + 1
          /\ UNCHANGED <<server, where, stage, loop, tail, report>>
     \/ waits >= MaxBlock /\ After("capped")
WatchedStop == statement.state = "running" /\ StopRequested /\ After("stopped")

Watched ==
  /\ stage = "watched"
  /\ WatchedReturns \/ WatchedBlind \/ WatchedSample \/ WatchedStop
  /\ UNCHANGED <<fixed, outside, flushed, recorded, seenMaint, flushes>>

----------------------------------------------------------------------------
(* chunkLoop *)

Blocker(fresh) ==
  [file |-> at, fresh |-> fresh, transient |-> tail'.maint, read |-> loop.seen, target |-> final]

(* The loop returns: shrinkData records the object of the entry walk when the *)
(* reported size misses the target.                                           *)
Leave(mb, reason, v) ==
  /\ FileEnds(mb, FALSE, reason, v)
  /\ loop' = NoLoop
  /\ UNCHANGED <<server, waits, flushed, tail, seenMaint, flushes>>
  /\ recorded' = recorded \cup (IF tail.entry /\ mb > final THEN {Blocker(FALSE)} ELSE {})

LoopTop ==
  /\ stage = "loop"
  /\ \/ loop.current <= final /\ Leave(loop.current, "", "nil")
     \/ loop.current > final /\ StopRequested /\ Leave(loop.current, "stopped", "stopped")
     \/ /\ loop.current > final /\ ~StopRequested /\ stage' = "issue"
        /\ UNCHANGED <<server, where, waits, flushed, probe, loop, report, flushes>>
  /\ UNCHANGED <<fixed, outside>>

(* The stop flag was read before the session's waits were, over the network. *)
IssueChunk ==
  /\ stage = "issue"
  /\ Begin(NextTarget(loop.current, loop.step, final), "chunk")
  /\ loop' = [loop EXCEPT !.attempts = @ + 1]
  /\ UNCHANGED <<fixed, size, outside, where, waits, flushed, probe, report, flushes>>

(* runChunk: the statement's answer, or the supervisor's for it. pumpSelfBlock *)
(* may have seen maintenance block a data file's chunk.                        *)
ChunkEnds(l) ==
  /\ statement' = Idle
  /\ \E maint \in {m \in BOOLEAN : m => op.kind = "data"} :
       /\ loop' = [l EXCEPT !.maint = @ \/ maint]
       /\ seenMaint' = IF maint THEN seenMaint \cup {at} ELSE seenMaint

ChunkFailed ==
  /\ statement.state = "failed" /\ stage' = "weigh"
  /\ ChunkEnds([loop EXCEPT !.step = HalveStep(@, Ceiling), !.seen = loop.current, !.cause = "none"])
ChunkDone ==
  /\ statement.state = "ended" /\ stage' = "weigh"
  /\ ChunkEnds([loop EXCEPT !.seen = size[at], !.cause = "none"])
ChunkStopped ==
  /\ statement.state = "running" /\ stage' = "relief"
  /\ \E cause \in {"pressure", "blind"} :
       /\ IF cause = "blind" THEN hung # {} ELSE hung # {"blocking", "log"}
       /\ ChunkEnds([loop EXCEPT !.seen = size[at], !.cause = cause])

Chunk ==
  /\ stage = "chunk" /\ (ChunkFailed \/ ChunkDone \/ ChunkStopped)
  /\ UNCHANGED <<fixed, size, outside, where, waits, flushed, tail, recorded, report, flushes>>

(* waitForRelief on a new pump: a sample needs a channel that answers, and     *)
(* blindness one that does not; the log's timeout needs the log to be read.    *)
Relieved ==
  /\ hung # {"blocking", "log"} /\ ~StopRequested /\ stage' = "weigh"
  /\ UNCHANGED <<server, where, waits, loop, flushed, probe, report, flushes>>
ReliefStopped  == hung # {"blocking", "log"} /\ StopRequested /\ Leave(loop.current, "stopped", "stopped")
ReliefTimesOut == "log" \notin hung /\ ~StopRequested /\ Leave(loop.current, "log did not drain", "nil")
ReliefBlind    == hung # {} /\ Leave(loop.current, "", "blind")

Relief ==
  /\ stage = "relief"
  /\ Relieved \/ ReliefStopped \/ ReliefTimesOut \/ ReliefBlind
  /\ UNCHANGED <<fixed, outside>>

(* A chunk that moved the file: a fresh budget, and a step for what it cost. *)
Progress ==
  /\ loop.seen < loop.current
  /\ \E pressed, quick \in BOOLEAN :
       loop' = [loop EXCEPT !.noProgress = 0, !.backoff = Backoff, !.waited = 0,
                            !.current = loop.seen,
                            !.step = AdjustStep(@, loop.cause # "none" \/ pressed, quick, Ceiling)]
  /\ stage' = "loop"
  /\ UNCHANGED <<where, report, tail, recorded, flushed, flushes>>

\* mutant: a chunk without a gain is not counted
StallsUncounted == loop.noProgress
Stalls == loop.noProgress + 1
FlushDue == op.flush /\ ~flushed /\ Stalls >= FlushAt
Spent == Stalls >= MaxNoProgress \/ loop.waited >= SelfWait

(* stall, on tempdb: one flush for the whole operation, and a fresh budget. *)
Flush ==
  /\ loop.seen >= loop.current /\ FlushDue
  /\ flushes' = flushes + 1
  /\ \/ /\ flushed' = TRUE /\ stage' = "loop" /\ loop' = [loop EXCEPT !.noProgress = 0]
        /\ UNCHANGED <<where, report>>
     \/ FileEnds(loop.current, FALSE, "", "failed") /\ loop' = NoLoop /\ UNCHANGED flushed
  /\ UNCHANGED <<tail, recorded>>

\* mutant: a stall ends like a success
SilentGiveUp == ""
GiveUpReason == IF tail'.maint THEN "maintenance" ELSE "stalled"

(* applyMaintBlock, then captureGiveUpTail: a fresh walk replaces the entry's. *)
GiveUp ==
  /\ loop.seen >= loop.current /\ ~FlushDue /\ Spent
  /\ tail' = [entry |-> FALSE, maint |-> tail.maint \/ loop.maint]
  /\ FileEnds(loop.current, FALSE, GiveUpReason, "nil")
  /\ \/ UNCHANGED recorded
     \/ op.kind = "data" /\ recorded' = recorded \cup {Blocker(TRUE)}
  /\ loop' = NoLoop /\ UNCHANGED <<flushed, flushes>>

BackOff ==
  /\ loop.seen >= loop.current /\ ~FlushDue /\ ~Spent
  /\ loop' = [loop EXCEPT !.noProgress = Stalls]
  /\ tail' = [tail EXCEPT !.maint = @ \/ loop.maint]
  /\ stage' = "backoff"
  /\ UNCHANGED <<where, report, recorded, flushed, flushes>>

Weigh ==
  /\ stage = "weigh"
  /\ Progress \/ Flush \/ GiveUp \/ BackOff
  /\ UNCHANGED <<fixed, server, outside, waits, seenMaint>>

Waited ==
  /\ stage = "backoff" /\ stage' = "loop"
  /\ loop' = [loop EXCEPT !.waited = @ + loop.backoff, !.backoff = Least(2 * @, BackoffMax)]
  /\ UNCHANGED <<fixed, server, outside, where, waits, flushed, probe, report, flushes>>

(* A read of the size fails, or a hard stop cancels the run's context. *)
Fails ==
  /\ stage \in {"watched", "reuse", "logready", "chunk", "relief", "backoff"}
  /\ statement' = Idle /\ End("failed") /\ loop' = NoLoop
  /\ UNCHANGED <<fixed, size, outside, waits, flushed, tail, seenMaint, results, flushes>>
  /\ recorded' = recorded \cup
       (IF stage \in {"chunk", "relief", "backoff"} /\ tail.entry THEN {Blocker(FALSE)} ELSE {})

----------------------------------------------------------------------------
(* The server and the people around it *)

(* A statement moves the file towards what it asks for, in batches that stay. *)
Moves ==
  /\ statement.state = "running" /\ size[at] > statement.target
  /\ \E mb \in statement.target .. size[at] - 1 : size' = [size EXCEPT ![at] = mb]
  /\ UNCHANGED <<fixed, statement, outside, where, stage, waits, loop, flushed, probe,
                 report, flushes>>
Answers ==
  /\ statement.state = "running"
  /\ \E s \in {"ended", "failed"} : statement' = [statement EXCEPT !.state = s]
  /\ UNCHANGED <<fixed, size, outside, where, stage, waits, loop, flushed, probe,
                 report, flushes>>
(* Only the file in hand is read, so only its growth is seen. *)
Grows ==
  /\ at \in File /\ size[at] < GrowTo[at] /\ size' = [size EXCEPT ![at] = @ + 1]
  /\ UNCHANGED <<fixed, statement, outside, where, stage, waits, loop, flushed, probe,
                 report, flushes>>
AskStop ==
  /\ drain' = ~drain
  /\ UNCHANGED <<fixed, server, hung, where, stage, waits, loop, flushed, probe, report, flushes>>
Hang ==
  /\ hung' \in SUBSET {"blocking", "log"} /\ hung' # hung
  /\ UNCHANGED <<fixed, server, drain, where, stage, waits, loop, flushed, probe, report, flushes>>

Environment == stage # "done" /\ (Moves \/ Answers \/ Grows \/ AskStop \/ Hang)
Driver ==
  \/ NextFile \/ LastFile \/ PollReuse \/ BeginLog \/ Watched
  \/ LoopTop \/ IssueChunk \/ Chunk \/ Relief \/ Weigh \/ Waited \/ Fails
Next == Driver \/ Environment

Spec == Init /\ [][Next]_vars

----------------------------------------------------------------------------
(* Properties *)

Reasons == {"", "stopped", "blind", "capped", "stalled", "maintenance", "log did not drain",
            "log not truncatable", "nothing to reclaim", "already at target"}

(* Every variable has its type; in particular no step leaves the file's own *)
(* bounds, and the loop never holds a size above the one it started from.   *)
TypeOK ==
  /\ op \in Op /\ {used, snap, size} \subseteq Sizes
  /\ statement.state \in {"idle", "running", "ended", "failed"} /\ statement.target \in Nat
  /\ drain \in BOOLEAN /\ hung \subseteq {"blocking", "log"}
  /\ at \in 1 .. Files + 1 /\ pass \in {"truncate", "chunks"}
  /\ stage \in {"next", "logready", "reuse", "watched", "loop", "issue", "chunk", "relief",
                "weigh", "backoff", "done"}
  /\ waits \in Nat /\ flushed \in BOOLEAN
  /\ {loop.start, loop.noProgress, loop.waited, loop.seen} \subseteq Nat
  /\ loop.attempts \in Nat /\ loop.cause \in {"none", "pressure", "blind"}
  /\ loop.current \in 0 .. loop.start /\ loop.step \in MinStep .. Ceiling
  /\ loop.backoff \in 1 .. Greatest(Backoff, BackoffMax)
  /\ {loop.maint, tail.entry, tail.maint} \subseteq BOOLEAN
  /\ \A r \in recorded : r.file \in File
  /\ \A i \in DOMAIN results : results[i].file \in File /\ results[i].reason \in Reasons
  /\ verdict \in {"none", "nil", "stopped", "blind", "failed"}
  /\ flushes \in Nat
  /\ seenMaint \subseteq File

(* A shrink that gains little, fails, or is stopped for pressure again and   *)
(* again still ends: every MB gained buys at most MaxNoProgress chunks, and  *)
(* the one cache flush one budget more (stall, chunkLoop).                   *)
AttemptsBounded ==
  stage \in {"loop", "issue", "chunk", "relief", "weigh", "backoff"} =>
    loop.attempts <= (loop.start - loop.current) * MaxNoProgress + loop.noProgress
                + (IF flushed THEN MaxNoProgress ELSE 0)
                + (IF stage \in {"chunk", "relief", "weigh"} THEN 1 ELSE 0)

(* An operation that ends without an error has told the engine of every file *)
(* that missed its target: a result short of it carries the reason that      *)
(* shrinkStoppedShort reads. A log answers to its VLF boundaries.            *)
ShortIsTold ==
  verdict = "nil" /\ op.kind # "log" =>
    /\ {results[i].file : i \in DOMAIN results} = File
    /\ \A i \in DOMAIN results :
         results[i].mb > results[i].target => results[i].reason # "" /\ ~results[i].noop

(* The temp-object cache is flushed at most once, however many files stall.  *)
FlushedOnce == flushes <= 1

(* The two budgets of an operation that makes no progress: its attempts and  *)
(* its one flush.                                                            *)
EffortBounded == AttemptsBounded /\ FlushedOnce

(* A blocker is called transient only if maintenance was seen blocking a     *)
(* chunk of that very file: the observation does not outlive its file.       *)
TransientIsOurs == \A r \in recorded : r.transient => r.file \in seenMaint

(* What an operation reports of a file is complete and is about that file.   *)
FilesReported == ShortIsTold /\ TransientIsOurs

(* docs/shrink.md:87-89: the object of the entry walk is a blocker only of a  *)
(* file that missed its target. Does not hold: after a stopped chunk the loop *)
(* may report the size before it (shrink.go:564,569).                         *)
BlockersBlock == \A r \in recorded : ~r.fresh => r.read > r.target

(* shrink.go:791-793: a stop or blindness leaves a result whose reason says  *)
(* why the file is not at its target. Does not hold: blindness found while   *)
(* waiting for relief sets no reason (shrink.go:571).                        *)
PartialHasReason ==
  verdict \in {"stopped", "blind"} =>
    \A i \in DOMAIN results : results[i].mb > results[i].target => results[i].reason # ""

(* SPECS.md:567-569: an operation whose monitoring fell silent ends; it is   *)
(* not tried once more. Does not hold: the wait for relief starts a new pump *)
(* and the channel that still answers shows no pressure (shrink.go:764).     *)
BlindEnds == [][stage = "relief" /\ loop.cause = "blind" => stage' \in {"relief", "done"}]_vars

(* The driver's goroutine runs, its tickers and timers fire, and the server  *)
(* answers a chunk in the end; nobody promises that it answers a statement   *)
(* that is watched, nor that pressure ever clears.                           *)
WatchEnds == Watched /\ stage' # "watched"
ReliefEnds == Relief /\ (StopRequested \/ hung = {"blocking", "log"})
ChunkAnswers == stage = "chunk" /\ Answers
Fairness ==
  /\ WF_vars(NextFile) /\ WF_vars(LastFile) /\ WF_vars(PollReuse) /\ WF_vars(BeginLog)
  /\ WF_vars(WatchEnds) /\ WF_vars(LoopTop) /\ WF_vars(IssueChunk) /\ WF_vars(Chunk)
  /\ WF_vars(ReliefEnds) /\ WF_vars(Weigh) /\ WF_vars(Waited) /\ WF_vars(ChunkAnswers)
LiveSpec == Spec /\ Fairness

(* A stop that is not taken back ends the operation wherever it stands: in a *)
(* chunk, in a stall's backoff, waiting for relief or for a log backup, even *)
(* when no channel answers (stopRequested, waitForRelief, runWatchedStatement). *)
StopHeeded == <>[]drain => <>(stage = "done")

=============================================================================

--------------------------- MODULE MonitoredRunner ---------------------------
(***************************************************************************)
(* One operation under monitoring: the statement on the server, the pump   *)
(* that polls blocking and log use, the supervisor that turns samples into *)
(* a reaction, the wait for relief, and the retry and pacing loops around. *)
(*                                                                         *)
(* Time is counted in ticks of the watchdog, the shortest period of the    *)
(* pump; a poll that fails or hangs is a poll that does not happen.        *)
(***************************************************************************)
EXTENDS Integers

CONSTANTS
  Caps,             \* the operations: [resumable, paced, ignore, cap : BOOLEAN]
  BlindAfter,       \* ticks a channel may stay silent
  BlockingTimeout,  \* ticks of blocking before the reaction
  MaxBlock,         \* the max_block_minutes of an operation with a cap
  LogDrainTimeout,  \* ticks a paused operation waits for the log
  KillGrace,        \* ticks an attention may take before the KILL
  MaxRetries

ASSUME RunnerAssumption ==
  /\ Caps \subseteq [resumable : BOOLEAN, paced : BOOLEAN, ignore : BOOLEAN, cap : BOOLEAN]
  /\ \A c \in Caps : ~(c.resumable /\ c.paced)
  /\ {BlindAfter, BlockingTimeout, MaxBlock, LogDrainTimeout, KillGrace} \subseteq Nat \ {0}
  /\ MaxRetries \in Nat

VARIABLES
  caps,      \* the capabilities of the operation
  pc,        \* issue | watch | stopping | killed | relief | returned
  sql,       \* the statement runLoop runs next: the operation's, or a RESUME
  attempt,   \* retries used
  action,    \* the reaction being carried out
  why,       \* the pressure that triggered it: blocking | log | blind
  result,    \* what Run returned
  server,    \* the operation on the server: none | running | paused | done
  finished,  \* the executor's answer, until the runner takes it
  blocking,  \* whom the running statement blocks: nobody | ignored | others
  log,       \* the transaction log is over its cap
  stop,      \* the drain flag
  canceled,  \* the run's context is canceled
  cur,       \* the pump's sample: the last values read
  silent,    \* ticks since each channel was last read
  since,     \* ticks since the supervisor saw each condition begin, or Off
  grace,     \* ticks since the attention was sent
  harm       \* ticks the running statement has been blocking (history)

control == <<pc, sql, attempt, action, why, result>>
world   == <<server, finished, blocking, log, stop, canceled>>
monitor == <<cur, silent, since, grace>>
vars    == <<caps, control, world, monitor, harm>>

Off == -1
Channel == {"blocking", "log"}
Unread  == [blocking |-> "nobody", log |-> "unread", blind |-> FALSE]
Fresh   == [c \in Channel |-> 0]
Reset   == [others |-> Off, any |-> Off, over |-> Off]
Sampling == {"watch", "relief"}
HarmCap == MaxBlock + 2 * BlindAfter + 1   \* bound on the history counter

Init ==
  /\ caps \in Caps
  /\ pc = "issue" /\ sql = "statement" /\ attempt = 0
  /\ action = "continue" /\ why = "none" /\ result = "none"
  /\ server = "none" /\ finished = "none"
  /\ blocking = "nobody" /\ log \in BOOLEAN /\ stop = FALSE /\ canceled = FALSE
  /\ cur = Unread /\ silent = Fresh /\ since = Reset /\ grace = 0 /\ harm = 0

Return(r) == pc' = "returned" /\ result' = r

-----------------------------------------------------------------------------
(* runStatement: the statement and its pump start. A RESUME of something no *)
(* longer paused is an error at once.                                       *)
Issue ==
  /\ pc = "issue"
  /\ pc' = "watch"
  /\ IF sql = "resume" /\ server # "paused"
     THEN finished' = "error" /\ UNCHANGED server
     ELSE finished' = "none" /\ server' = "running"
  /\ cur' = Unread /\ silent' = Fresh /\ since' = Reset
  /\ UNCHANGED <<caps, sql, attempt, action, why, result, blocking, log, stop,
                 canceled, grace, harm>>

(* The statement finished on its own and the supervisor sees it. *)
TakeResult ==
  /\ pc = "watch" /\ finished # "none"
  /\ Return(IF finished = "ok" THEN "ok" ELSE "failed")
  /\ UNCHANGED <<caps, sql, attempt, action, why, world, monitor, harm>>

(* The context is canceled: the supervisor and the wait return at once, the *)
(* statement is left to the attention the same context sends.               *)
ReturnCanceled ==
  /\ pc \in Sampling /\ canceled
  /\ Return("canceled")
  /\ UNCHANGED <<caps, sql, attempt, action, why, world, monitor, harm>>

(* supervise: the reaction a sample calls for. *)
Began(t, holds) == IF ~holds THEN Off ELSE IF t = Off THEN 0 ELSE t

Blinds(c, s) == s.blind

(* Mutant: the cap runs on the sessions that are not ignored. *)
CapOnUnignored(c, t) == c.cap /\ t.others # Off /\ t.others >= MaxBlock
Capped(c, t) == c.cap /\ t.any # Off /\ t.any >= MaxBlock

BlockPressure(c, t) ==
  \/ ~c.ignore /\ t.others # Off /\ t.others >= BlockingTimeout
  \/ Capped(c, t)

React(a, w) ==
  /\ pc' = "stopping" /\ action' = a /\ why' = w /\ grace' = 0

Supervise(s) ==
  LET t == [since EXCEPT !.others = Began(@, s.blocking = "others"),
                         !.any = Began(@, s.blocking # "nobody")]
      over == s.log = "over"
      least == IF caps.resumable THEN "pause" ELSE "cancel"
  IN /\ IF caps.resumable /\ stop THEN React("stop", "drain")
        ELSE IF Blinds(caps, s) THEN React("cancel", "blind")
        ELSE IF over THEN React(least, "log")
        ELSE IF BlockPressure(caps, t) THEN React(least, "blocking")
        ELSE UNCHANGED <<pc, action, why, grace>>
     /\ since' = t
     /\ UNCHANGED <<sql, attempt, result>>

-----------------------------------------------------------------------------
(* The attention, the KILL after the grace period, and what follows once the *)
(* executor has answered -- whatever it answered.                            *)
KillSelf ==
  /\ pc = "stopping" /\ finished = "none" /\ grace >= KillGrace
  /\ pc' = "killed"
  /\ UNCHANGED <<caps, sql, attempt, action, why, result, world, monitor, harm>>

(* Mutant: once killed, the statement is not waited for. *)
AnsweredOrKilled == finished # "none" \/ pc = "killed"
Answered == finished # "none"

Stopped(p) == pc \in {"stopping", "killed"} /\ Answered /\ p

StopRun ==
  /\ Stopped(action = "stop")
  /\ Return("stopped")
  /\ UNCHANGED <<caps, sql, attempt, action, why, world, monitor, harm>>

RetryBlindToo == FALSE   \* mutant: a blind cancel is retried like any other
NotRetried == why = "blind"

GiveUpBlind ==
  /\ Stopped(action = "cancel" /\ NotRetried)
  /\ Return("blind")
  /\ UNCHANGED <<caps, sql, attempt, action, why, world, monitor, harm>>

Exhausted == attempt >= MaxRetries

Retry ==
  /\ Stopped(action = "cancel" /\ ~NotRetried /\ ~caps.paced)
  /\ \/ /\ ~Exhausted
        /\ attempt' = attempt + 1 /\ pc' = "issue"
        /\ UNCHANGED result
     \/ /\ Exhausted
        /\ Return("exhausted")
        /\ UNCHANGED attempt
  /\ UNCHANGED <<caps, sql, action, why, world, monitor, harm>>

(* A paused resumable, or a paced reorganize, waits with a pump of its own. *)
AwaitRelief ==
  /\ Stopped(action = "pause" \/ (action = "cancel" /\ ~NotRetried /\ caps.paced))
  /\ pc' = "relief"
  /\ cur' = Unread /\ silent' = Fresh /\ since' = Reset
  /\ UNCHANGED <<caps, sql, attempt, action, why, result, world, grace, harm>>

DeafToDrain == FALSE   \* mutant: the wait does not look at the drain flag
DrainSeen == stop

(* waitForRelief: what one sample decides. *)
Relieve(s) ==
  LET t == [since EXCEPT !.over = Began(@, s.log = "over")]
      clear == s.log # "over" /\ s.blocking # "others"
  IN /\ \/ s.blind /\ Return("blind") /\ UNCHANGED sql
        \/ ~s.blind /\ DrainSeen /\ Return("stopped") /\ UNCHANGED sql
        \/ ~s.blind /\ ~DrainSeen /\
           \/ t.over >= LogDrainTimeout /\ Return("log_timeout") /\ UNCHANGED sql
           \/ /\ clear
              /\ pc' = "issue" /\ sql' = IF caps.resumable THEN "resume" ELSE sql
              /\ UNCHANGED result
           \/ ~clear /\ t.over < LogDrainTimeout /\ UNCHANGED <<pc, sql, result>>
     /\ since' = t
     /\ UNCHANGED <<attempt, action, why, grace>>

-----------------------------------------------------------------------------
(* pumpSamples: a successful poll of one channel, or the watchdog noticing a *)
(* channel go silent or answer again, sends the combined sample.             *)
BlindNow(sil) == \E c \in Channel : sil[c] >= BlindAfter

Deliver(s) ==
  /\ pc \in Sampling
  /\ cur' = s
  /\ IF pc = "watch" THEN Supervise(s) ELSE Relieve(s)
  /\ UNCHANGED <<caps, world, harm>>

PollBlocking ==
  LET sil == [silent EXCEPT !["blocking"] = 0]
      now == IF server = "running" THEN blocking ELSE "nobody"
  IN /\ silent' = sil
     /\ Deliver([cur EXCEPT !.blocking = now, !.blind = BlindNow(sil)])

PollLog ==
  LET sil == [silent EXCEPT !["log"] = 0]
  IN /\ silent' = sil
     /\ Deliver([cur EXCEPT !.log = IF log THEN "over" ELSE "under",
                            !.blind = BlindNow(sil)])

WatchdogFires == pc \in Sampling /\ BlindNow(silent) # cur.blind
Watchdog ==
  /\ WatchdogFires
  /\ UNCHANGED silent
  /\ Deliver([cur EXCEPT !.blind = BlindNow(silent)])

-----------------------------------------------------------------------------
(* The server and the operator. *)
StatementEnds ==
  /\ server = "running"
  /\ \/ server' = "done" /\ finished' = "ok"
     \/ /\ server' \in IF caps.resumable THEN {"paused", "none"} ELSE {"none"}
        /\ finished' = "error"
  /\ blocking' = "nobody" /\ harm' = 0
  /\ UNCHANGED <<caps, control, log, stop, canceled, monitor>>

BlockingChanges ==
  /\ server = "running"
  /\ blocking' \in {"nobody", "ignored", "others"} \ {blocking}
  /\ harm' = IF blocking' = "nobody" THEN 0 ELSE harm
  /\ UNCHANGED <<caps, control, server, finished, log, stop, canceled, monitor>>

LogChanges ==
  /\ pc # "returned"
  /\ log' = ~log
  /\ UNCHANGED <<caps, control, server, finished, blocking, stop, canceled, monitor, harm>>

DrainChanges ==
  /\ pc # "returned"
  /\ stop' = ~stop
  /\ UNCHANGED <<caps, control, server, finished, blocking, log, canceled, monitor, harm>>

HardStop ==
  /\ pc # "returned" /\ ~canceled
  /\ canceled' = TRUE
  /\ UNCHANGED <<caps, control, server, finished, blocking, log, stop, monitor, harm>>

(* Time passes; the watchdog is never more than a tick late. *)
Older(t, bound) == IF t = Off THEN Off ELSE IF t < bound THEN t + 1 ELSE t

Tick ==
  /\ pc # "returned" /\ ~WatchdogFires
  /\ silent' = [c \in Channel |->
                 IF pc \in Sampling THEN Older(silent[c], BlindAfter) ELSE silent[c]]
  /\ since' = [others |-> Older(since.others, BlockingTimeout),
               any |-> Older(since.any, MaxBlock),
               over |-> Older(since.over, LogDrainTimeout)]
  /\ grace' = IF pc = "stopping" THEN Older(grace, KillGrace) ELSE grace
  /\ harm' = IF pc = "watch" /\ server = "running" /\ blocking # "nobody"
             THEN Older(harm, HarmCap) ELSE harm
  /\ UNCHANGED <<caps, control, world, cur>>

-----------------------------------------------------------------------------
Runner == \/ Issue \/ TakeResult \/ ReturnCanceled
          \/ KillSelf \/ StopRun \/ GiveUpBlind \/ Retry \/ AwaitRelief
Pump   == PollBlocking \/ PollLog \/ Watchdog
World  == StatementEnds \/ BlockingChanges \/ LogChanges \/ DrainChanges \/ HardStop
Done   == pc = "returned" /\ server # "running" /\ UNCHANGED vars

Next == Runner \/ Pump \/ World \/ Tick \/ Done

Spec == Init /\ [][Next]_vars

(* The runner's goroutine and the watchdog run, time passes, and every       *)
(* statement ends one day. No poll is assumed ever to answer.                *)
FairSpec ==
  /\ Spec
  /\ WF_vars(Runner) /\ WF_vars(Watchdog) /\ WF_vars(Tick) /\ WF_vars(StatementEnds)

-----------------------------------------------------------------------------
TypeOK ==
  /\ caps \in Caps
  /\ pc \in {"issue", "watch", "stopping", "killed", "relief", "returned"}
  /\ sql \in {"statement", "resume"}
  /\ attempt \in 0..MaxRetries
  /\ action \in {"continue", "pause", "cancel", "stop"}
  /\ why \in {"none", "drain", "blind", "log", "blocking"}
  /\ result \in {"none", "ok", "failed", "canceled", "stopped", "blind", "exhausted",
                 "log_timeout"}
  /\ server \in {"none", "running", "paused", "done"}
  /\ finished \in {"none", "ok", "error"}
  /\ blocking \in {"nobody", "ignored", "others"}
  /\ {log, stop, canceled} \subseteq BOOLEAN
  /\ cur \in [blocking : {"nobody", "ignored", "others"},
              log : {"unread", "under", "over"}, blind : BOOLEAN]
  /\ silent \in [Channel -> 0..BlindAfter]
  /\ since \in [others : Off..BlockingTimeout, any : Off..MaxBlock,
                over : Off..LogDrainTimeout]
  /\ grace \in 0..KillGrace
  /\ harm \in 0..HarmCap

(* runLoop never puts a second statement on the connection while the first   *)
(* still executes: neither the KILL nor the retry overtakes its answer.      *)
OneStatementAtATime == pc \in {"issue", "relief"} => server # "running"

(* Once monitoring went blind under an operation, nothing more is issued for *)
(* it: no retry, no RESUME, no paced re-issue (ErrMonitorBlind).             *)
NothingIssuedBlind ==
  [][pc # "issue" /\ pc' = "issue" => why # "blind" /\ ~cur'.blind]_vars

(* A safety cap holds whoever is blocked: counting the polls that may be      *)
(* missed before the channel is blind, the operation is stopped in time.     *)
BlockingBounded ==
  caps.cap => harm <= MaxBlock + 2 * BlindAfter

(* Run reports success only for an operation the server carried out, and a    *)
(* graceful stop only when the operation no longer executes.                  *)
ReportIsTrue ==
  /\ result = "ok" => server = "done"
  /\ result \in {"stopped", "blind", "exhausted", "log_timeout"} => server # "running"

(* Neither the next statement nor the report comes before the server is done  *)
(* with the one before.                                                       *)
NeverAhead == OneStatementAtATime /\ ReportIsTrue

(* A graceful stop that is not withdrawn ends a resumable or paced operation, *)
(* even when every pressure lasts forever and no poll ever answers.          *)
DrainHeeded == <>[]stop => <>(pc = "returned")

(* The comment of waitForRelief: snapshots are consumed until the pressure    *)
(* that triggered the pause has cleared.  Does not hold: the first sample of  *)
(* the new pump may come from the other channel.                              *)
ReliefIsRead ==
  [][pc = "relief" /\ pc' = "issue" /\ why = "log" => cur'.log = "under"]_vars

(* The comment of runStatement: a statement that stopped on its own after the *)
(* attention was paused or rolled back.  Does not hold: it may have completed *)
(* before the attention reached it, and its answer is not looked at.          *)
StoppedIsUndone == pc \in {"relief", "issue"} => server # "done"

=============================================================================

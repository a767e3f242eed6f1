----------------------- MODULE MonitoredRunnerProofs -----------------------
(***************************************************************************)
(* The monitored statement, for every kind of operation and every value of *)
(* the timers: one statement at a time and an honest report, nothing       *)
(* issued by a blind monitor, and the bound on the harm a capped operation *)
(* can do.                                                                 *)
(***************************************************************************)
EXTENDS MonitoredRunner, TLAPS

(* The timers are positive numbers. *)
LEMMA TimersNat ==
  /\ BlindAfter \in Nat /\ BlindAfter > 0
  /\ BlockingTimeout \in Nat /\ BlockingTimeout > 0
  /\ MaxBlock \in Nat /\ MaxBlock > 0
  /\ LogDrainTimeout \in Nat /\ LogDrainTimeout > 0
  /\ KillGrace \in Nat /\ KillGrace > 0
  /\ MaxRetries \in Nat
  BY RunnerAssumption

Seen     == {"nobody", "ignored", "others"}
Sample   == [blocking : Seen, log : {"unread", "under", "over"}, blind : BOOLEAN]
Silences == [Channel -> 0..BlindAfter]
Timers   == [others : Off..BlockingTimeout, any : Off..MaxBlock, over : Off..LogDrainTimeout]
Harms    == 0..HarmCap

(* The parts of the state that are flags, apart from the others. *)
FlagsTyped == {log, stop, canceled} \subseteq BOOLEAN

StateTyped ==
  /\ caps \in Caps
  /\ pc \in {"issue", "watch", "stopping", "killed", "relief", "returned"}
  /\ sql \in {"statement", "resume"}
  /\ attempt \in 0..MaxRetries
  /\ action \in {"continue", "pause", "cancel", "stop"}
  /\ why \in {"none", "drain", "blind", "log", "blocking"}
  /\ result \in {"none", "ok", "failed", "canceled", "stopped", "blind", "exhausted",
                 "log_timeout"}
  /\ server \in {"none", "running", "paused", "done"}
  /\ finished \in {"none", "ok", "error"}
  /\ blocking \in Seen
  /\ cur \in Sample
  /\ silent \in Silences
  /\ since \in Timers
  /\ grace \in 0..KillGrace
  /\ harm \in Harms

(* TypeOK is these two. *)
LEMMA TypeParts == TypeOK <=> StateTyped /\ FlagsTyped
  BY DEF TypeOK, StateTyped, FlagsTyped, Sample, Seen, Silences, Timers, Harms

(* What a poll or the watchdog changes in the sample and in the silences. *)
LEMMA SampleTyped ==
  ASSUME cur \in Sample, NEW b \in BOOLEAN
  PROVE  /\ [cur EXCEPT !.blind = b] \in Sample
         /\ [cur EXCEPT !.blind = b].blocking = cur.blocking
         /\ \A n \in Seen : /\ [cur EXCEPT !.blocking = n, !.blind = b] \in Sample
                            /\ [cur EXCEPT !.blocking = n, !.blind = b].blocking = n
         /\ \A l \in {"under", "over"} :
              /\ [cur EXCEPT !.log = l, !.blind = b] \in Sample
              /\ [cur EXCEPT !.log = l, !.blind = b].blocking = cur.blocking
  BY Zenon DEF Sample

LEMMA SilencesTyped ==
  ASSUME silent \in Silences, BlindAfter \in Nat
  PROVE  /\ [silent EXCEPT !["blocking"] = 0] \in Silences
         /\ [silent EXCEPT !["blocking"] = 0]["blocking"] = 0
         /\ [silent EXCEPT !["log"] = 0] \in Silences
         /\ [silent EXCEPT !["log"] = 0]["blocking"] = silent["blocking"]
  BY DEF Silences, Channel

(* Every step of the pump delivers one sample, in which the view of the      *)
(* blocking is either the one before or read just now.                      *)
Delivered(s) ==
  /\ Deliver(s)
  /\ silent' \in Silences
  /\ \/ s.blocking = cur.blocking /\ silent'["blocking"] = silent["blocking"]
     \/ /\ s.blocking = (IF server = "running" THEN blocking ELSE "nobody")
        /\ silent'["blocking"] = 0

LEMMA PumpDelivers ==
  ASSUME StateTyped, Pump
  PROVE  \E s \in Sample : Delivered(s)
<1>a. cur \in Sample /\ silent \in Silences /\ blocking \in Seen
  BY DEF StateTyped
<1>b. \A sil : BlindNow(sil) \in BOOLEAN
  BY DEF BlindNow
<1>c. "nobody" \in Seen
  BY DEF Seen
<1>1. CASE PollBlocking
  <2> DEFINE sil == [silent EXCEPT !["blocking"] = 0]
             now == IF server = "running" THEN blocking ELSE "nobody"
             s   == [cur EXCEPT !.blocking = now, !.blind = BlindNow(sil)]
  <2>1. PICK n \in Seen : n = now
    BY <1>a, <1>c
  <2>a. /\ [cur EXCEPT !.blocking = n, !.blind = BlindNow(sil)] \in Sample
        /\ [cur EXCEPT !.blocking = n, !.blind = BlindNow(sil)].blocking = n
    BY <1>a, <1>b, SampleTyped
  <2>2. s \in Sample /\ s.blocking = now
    BY <2>1, <2>a, Zenon
  <2>3. Deliver(s) /\ silent' = sil
    BY <1>1, Zenon DEF PollBlocking
  <2>4. sil \in Silences /\ sil["blocking"] = 0
    BY <1>a, SilencesTyped, TimersNat
  <2> HIDE DEF s, sil
  <2>5. Delivered(s)
    BY <2>2, <2>3, <2>4 DEF Delivered
  <2> QED
    BY <2>2, <2>5
<1>2. CASE PollLog
  <2> DEFINE sil == [silent EXCEPT !["log"] = 0]
             s   == [cur EXCEPT !.log = IF log THEN "over" ELSE "under", !.blind = BlindNow(sil)]
  <2>1. PICK l \in {"under", "over"} : l = IF log THEN "over" ELSE "under"
    OBVIOUS
  <2>2. /\ [cur EXCEPT !.log = l, !.blind = BlindNow(sil)] \in Sample
        /\ [cur EXCEPT !.log = l, !.blind = BlindNow(sil)].blocking = cur.blocking
    BY <1>a, <1>b, SampleTyped
  <2>3. Deliver(s) /\ silent' = sil
    BY <1>2, Zenon DEF PollLog
  <2>4. sil \in Silences /\ sil["blocking"] = silent["blocking"]
    BY <1>a, SilencesTyped, TimersNat
  <2>5. s \in Sample /\ s.blocking = cur.blocking
    BY <2>1, <2>2, Zenon
  <2> HIDE DEF s, sil
  <2>6. Delivered(s)
    BY <2>3, <2>4, <2>5 DEF Delivered
  <2> QED
    BY <2>5, <2>6
<1>3. CASE Watchdog
  <2> DEFINE s == [cur EXCEPT !.blind = BlindNow(silent)]
  <2>2. s \in Sample /\ s.blocking = cur.blocking
    BY <1>a, <1>b, SampleTyped, Zenon
  <2>3. Deliver(s) /\ silent' = silent
    BY <1>3, Zenon DEF Watchdog
  <2> HIDE DEF s
  <2>5. Delivered(s)
    BY <1>a, <2>2, <2>3 DEF Delivered
  <2> QED
    BY <2>2, <2>5
<1> QED
  BY <1>1, <1>2, <1>3 DEF Pump

(* How the supervisor and the wait rewrite the timers. *)
Watched(s) == [since EXCEPT !.others = Began(@, s.blocking = "others"),
                            !.any = Began(@, s.blocking # "nobody")]
Waited(s)  == [since EXCEPT !.over = Began(@, s.log = "over")]

LEMMA TimersTyped ==
  ASSUME since \in Timers, NEW s
  PROVE  /\ Watched(s) \in Timers
         /\ Watched(s).any = Began(since.any, s.blocking # "nobody")
         /\ Watched(s).others = Began(since.others, s.blocking = "others")
         /\ Waited(s) \in Timers
<1>1. /\ since.others \in Off..BlockingTimeout /\ since.any \in Off..MaxBlock
      /\ since.over \in Off..LogDrainTimeout
  BY DEF Timers
<1>2. /\ Began(since.others, s.blocking = "others") \in Off..BlockingTimeout
      /\ Began(since.any, s.blocking # "nobody") \in Off..MaxBlock
      /\ Began(since.over, s.log = "over") \in Off..LogDrainTimeout
  BY <1>1, TimersNat DEF Began, Off
<1> DEFINE A == Off..BlockingTimeout
           B == Off..MaxBlock
           C == Off..LogDrainTimeout
<1>3. since \in [others : A, any : B, over : C]
  BY DEF Timers
<1> HIDE DEF A, B, C
<1>4. \A a \in A, b \in B :
        /\ [since EXCEPT !.others = a, !.any = b] \in [others : A, any : B, over : C]
        /\ [since EXCEPT !.others = a, !.any = b].others = a
        /\ [since EXCEPT !.others = a, !.any = b].any = b
  BY <1>3, Zenon
<1>5. \A c \in C : [since EXCEPT !.over = c] \in [others : A, any : B, over : C]
  BY <1>3, Zenon
<1>6. Timers = [others : A, any : B, over : C]
  BY DEF A, B, C, Timers
<1> QED
  BY <1>2, <1>4, <1>5, <1>6, Zenon DEF A, B, C, Watched, Waited

(* What starts afresh is typed. *)
LEMMA FreshTyped == Unread \in Sample /\ Fresh \in Silences /\ Reset \in Timers
  BY TimersNat DEF Unread, Fresh, Channel, Sample, Seen, Reset, Silences, Timers, Off

(* The initial states are typed. *)
LEMMA InitTyped == Init => TypeOK
<1> SUFFICES ASSUME Init PROVE StateTyped /\ FlagsTyped
  BY TypeParts
<1>1. 0 \in Harms /\ 0 \in 0..MaxRetries /\ 0 \in 0..KillGrace
  BY TimersNat DEF Harms, HarmCap
<1>2. StateTyped
  BY FreshTyped, <1>1 DEF Init, StateTyped, Seen
<1>3. FlagsTyped
  BY DEF Init, FlagsTyped
<1> QED
  BY <1>2, <1>3

(* The flags change in the world's steps only. *)
LEMMA FlagsStep == FlagsTyped /\ [Next]_vars => FlagsTyped'
<1> SUFFICES ASSUME FlagsTyped, [Next]_vars PROVE FlagsTyped'
  OBVIOUS
<1>1. CASE LogChanges \/ DrainChanges \/ HardStop
  BY <1>1 DEF LogChanges, DrainChanges, HardStop, FlagsTyped
<1>2. CASE UNCHANGED <<log, stop, canceled>>
  BY <1>2 DEF FlagsTyped
<1>3. \/ LogChanges \/ DrainChanges \/ HardStop
      \/ UNCHANGED <<log, stop, canceled>>
  BY DEF Next, Runner, Pump, World, Done, Issue, TakeResult, ReturnCanceled, KillSelf, StopRun,
     GiveUpBlind, Retry, AwaitRelief, PollBlocking, PollLog, Watchdog, Deliver, StatementEnds,
     BlockingChanges, Tick, vars, world
<1> QED
  BY <1>1, <1>2, <1>3

(* A delivered sample keeps the state typed, whatever the supervisor or the  *)
(* wait decides.                                                             *)
LEMMA DeliverTyped ==
  ASSUME StateTyped, NEW s \in Sample, Delivered(s)
  PROVE  StateTyped'
<1>1. since' \in Timers
  BY TimersTyped DEF Delivered, Deliver, Supervise, Relieve, Watched, Waited, StateTyped
<1>2. grace' \in 0..KillGrace
  <2>1. grace' = grace \/ grace' = 0
    BY DEF Delivered, Deliver, Supervise, React, Relieve
  <2> QED
    BY <2>1, TimersNat DEF StateTyped
<1>3. cur' \in Sample /\ silent' \in Silences
  BY DEF Delivered, Deliver
<1>4. CASE pc = "watch"
  BY <1>1, <1>2, <1>3, <1>4 DEF Delivered, Deliver, Supervise, React, StateTyped, world
<1>5. CASE pc # "watch"
  BY <1>1, <1>2, <1>3, <1>5 DEF Delivered, Deliver, Relieve, Return, StateTyped, world
<1> QED
  BY <1>4, <1>5

(* Every other step keeps it typed as well. *)
LEMMA StateStep == StateTyped /\ [Next]_vars => StateTyped'
<1> SUFFICES ASSUME StateTyped, [Next]_vars PROVE StateTyped'
  OBVIOUS
<1> USE DEF control, world, monitor
<1>1. CASE Issue
  BY <1>1, FreshTyped DEF Issue, StateTyped
<1>2. CASE TakeResult
  BY <1>2 DEF TakeResult, Return, StateTyped
<1>3. CASE ReturnCanceled \/ KillSelf \/ StopRun \/ GiveUpBlind
  BY <1>3 DEF ReturnCanceled, KillSelf, StopRun, GiveUpBlind, Return, StateTyped
<1>4. CASE Retry
  <2>1. attempt' = attempt \/ (attempt' = attempt + 1 /\ attempt < MaxRetries)
    <3>1. attempt' = attempt \/ (attempt' = attempt + 1 /\ ~(attempt >= MaxRetries))
      BY <1>4, Zenon DEF Retry, Exhausted
    <3> QED
      BY <3>1, TimersNat DEF StateTyped
  <2>2. attempt' \in 0..MaxRetries
    BY <2>1, TimersNat DEF StateTyped
  <2> QED
    BY <1>4, <2>2 DEF Retry, Return, StateTyped
<1>5. CASE AwaitRelief
  BY <1>5, FreshTyped DEF AwaitRelief, StateTyped
<1>6. CASE Pump
  BY <1>6, PumpDelivers, DeliverTyped
<1>z. 0 \in Harms
  BY TimersNat DEF Harms, HarmCap
<1>7. CASE StatementEnds
  <2>1. /\ server' \in {"none", "running", "paused", "done"} /\ finished' \in {"ok", "error"}
        /\ blocking' = "nobody" /\ harm' = 0
    BY <1>7 DEF StatementEnds
  <2> QED
    BY <1>7, <1>z, <2>1 DEF StatementEnds, StateTyped, Seen
<1>8. CASE BlockingChanges
  <2>1. blocking' \in Seen /\ (harm' = 0 \/ harm' = harm)
    BY <1>8 DEF BlockingChanges, Seen
  <2> QED
    BY <1>8, <1>z, <2>1 DEF BlockingChanges, StateTyped
<1>9. CASE LogChanges \/ DrainChanges \/ HardStop \/ Done \/ UNCHANGED vars
  BY <1>9 DEF LogChanges, DrainChanges, HardStop, Done, vars, StateTyped
<1>10. CASE Tick
  <2>a. \A n \in Nat : \A t \in Off..n : Older(t, n) \in Off..n /\ (t # Off => Older(t, n) \in 0..n)
    BY DEF Older, Off
  <2>1. silent' \in Silences
    <3>1. \A c \in Channel : silent[c] \in 0..BlindAfter
      BY DEF StateTyped, Silences
    <3>2. \A c \in Channel : Older(silent[c], BlindAfter) \in 0..BlindAfter
      BY <3>1, TimersNat DEF Older, Off
    <3> QED
      BY <1>10, <3>1, <3>2, Zenon DEF Tick, Silences
  <2>2. since' \in Timers
    <3>1. /\ since.others \in Off..BlockingTimeout /\ since.any \in Off..MaxBlock
          /\ since.over \in Off..LogDrainTimeout
      BY DEF Timers, StateTyped
    <3>2. /\ Older(since.others, BlockingTimeout) \in Off..BlockingTimeout
          /\ Older(since.any, MaxBlock) \in Off..MaxBlock
          /\ Older(since.over, LogDrainTimeout) \in Off..LogDrainTimeout
      BY <3>1, <2>a, TimersNat
    <3> QED
      BY <1>10, <3>2, Zenon DEF Tick, Timers
  <2>3. grace' \in 0..KillGrace
    <3>1. grace' = grace \/ grace' = Older(grace, KillGrace)
      BY <1>10, Zenon DEF Tick
    <3> QED
      BY <3>1, TimersNat DEF Older, Off, StateTyped
  <2>4. harm' \in Harms
    <3>1. harm' = harm \/ harm' = Older(harm, HarmCap)
      BY <1>10, Zenon DEF Tick
    <3>2. HarmCap \in Nat
      BY TimersNat DEF HarmCap
    <3> QED
      BY <3>1, <3>2 DEF Older, Off, StateTyped, Harms
  <2> QED
    <3>1. UNCHANGED <<caps, control, world, cur>>
      BY <1>10, Zenon DEF Tick
    <3> QED
      BY <2>1, <2>2, <2>3, <2>4, <3>1 DEF StateTyped
<1> QED
  BY <1>1, <1>2, <1>3, <1>4, <1>5, <1>6, <1>7, <1>8, <1>9, <1>10 DEF Next, Runner, World

(* Every reachable state is typed. *)
THEOREM RunnerTyped == Spec => []TypeOK
<1>1. TypeOK /\ [Next]_vars => TypeOK'
  <2> SUFFICES ASSUME TypeOK, [Next]_vars PROVE TypeOK'
    OBVIOUS
  <2>1. StateTyped' /\ FlagsTyped'
    BY TypeParts, StateStep, FlagsStep
  <2> QED
    BY <2>1, TypeParts, PTL
<1> QED
  BY <1>1, InitTyped, PTL DEF Spec

-----------------------------------------------------------------------------
(* The executor's answer is kept until the runner has taken it, and nothing   *)
(* is put on the connection or reported before it.                            *)
Answers ==
  /\ finished = "ok" => server = "done"
  /\ finished # "none" => server # "running"
  /\ pc \in {"issue", "relief"} => server # "running"
  /\ pc # "returned" => result = "none"
  /\ ReportIsTrue

(* A sample moves the runner to a reaction, back to the statement or out, and *)
(* never touches the server or the answer.                                    *)
LEMMA DeliverMoves ==
  ASSUME NEW s, Deliver(s)
  PROVE  /\ UNCHANGED <<server, finished>>
         /\ \/ pc = "watch" /\ pc' \in {"watch", "stopping"} /\ result' = result
            \/ pc = "relief" /\ pc' \in {"relief", "issue"} /\ result' = result
            \/ pc = "relief" /\ pc' = "returned" /\ result' \in {"blind", "stopped", "log_timeout"}
<1>1. UNCHANGED <<server, finished>>
  BY DEF Deliver, world
<1>2. CASE pc = "watch"
  <2>1. Supervise(s)
    BY <1>2 DEF Deliver
  <2>2. pc' \in {"watch", "stopping"} /\ result' = result
    BY <1>2, <2>1, Zenon DEF Supervise, React
  <2> QED
    BY <1>1, <1>2, <2>2
<1>3. CASE pc # "watch"
  <2>1. pc = "relief" /\ Relieve(s)
    BY <1>3 DEF Deliver, Sampling
  <2>2. \/ pc' \in {"relief", "issue"} /\ result' = result
        \/ pc' = "returned" /\ result' \in {"blind", "stopped", "log_timeout"}
    BY <2>1, Zenon DEF Relieve, Return
  <2> QED
    BY <1>1, <2>1, <2>2
<1> QED
  BY <1>2, <1>3

LEMMA AnswersStep == StateTyped /\ Answers /\ [Next]_vars => Answers'
<1> SUFFICES ASSUME StateTyped, Answers, [Next]_vars PROVE Answers'
  OBVIOUS
<1> USE DEF Answers, ReportIsTrue, world, control, monitor
<1>1. CASE Issue
  BY <1>1 DEF Issue, StateTyped
<1>2. CASE TakeResult
  BY <1>2 DEF TakeResult, Return, StateTyped
<1>3. CASE ReturnCanceled
  BY <1>3 DEF ReturnCanceled, Return
<1>4. CASE KillSelf
  BY <1>4 DEF KillSelf
<1>5. CASE StopRun \/ GiveUpBlind \/ Retry
  BY <1>5 DEF StopRun, GiveUpBlind, Retry, Stopped, Answered, Return, StateTyped
<1>6. CASE AwaitRelief
  BY <1>6 DEF AwaitRelief, Stopped, Answered
<1>7. CASE Pump
  <2>1. PICK s \in Sample : Deliver(s)
    BY <1>7, PumpDelivers DEF Delivered
  <2> QED
    BY <2>1, DeliverMoves
<1>8. CASE StatementEnds
  BY <1>8 DEF StatementEnds
<1>9. CASE BlockingChanges \/ LogChanges \/ DrainChanges \/ HardStop
  BY <1>9 DEF BlockingChanges, LogChanges, DrainChanges, HardStop
<1>10. CASE Tick
  <2>1. UNCHANGED <<control, world>>
    BY <1>10, Zenon DEF Tick
  <2> QED
    BY <2>1
<1>11. CASE Done \/ UNCHANGED vars
  BY <1>11 DEF Done, vars
<1> QED
  BY <1>1, <1>2, <1>3, <1>4, <1>5, <1>6, <1>7, <1>8, <1>9, <1>10, <1>11 DEF Next, Runner, World

(* For every kind of operation and every timer: no statement is issued while *)
(* the one before still executes, and the report is what the server did.     *)
THEOREM NothingOvertakes == Spec => []NeverAhead
<1>1. Init => Answers
  BY DEF Init, Answers, ReportIsTrue
<1>2. TypeOK /\ Answers /\ [Next]_vars => Answers'
  BY AnswersStep, TypeParts
<1>3. Answers => NeverAhead
  BY DEF Answers, NeverAhead, OneStatementAtATime
<1> QED
  BY <1>1, <1>2, <1>3, RunnerTyped, PTL DEF Spec

-----------------------------------------------------------------------------
(* What a blind monitor may still decide: only the reaction it takes at once, *)
(* and that one is never followed by another statement.                       *)
BlindKept ==
  /\ why = "blind" => action = "cancel" /\ pc \in {"stopping", "killed", "returned"}
  /\ pc = "watch" => ~cur.blind
  /\ pc \in {"stopping", "killed"} /\ cur.blind => why = "blind" \/ action = "stop"

(* What a sample does about blindness: the supervisor reacts to it, the wait  *)
(* returns on it.                                                             *)
LEMMA DeliverHeedsBlind ==
  ASSUME NEW s, Deliver(s)
  PROVE  /\ cur' = s
         /\ \/ pc = "watch" /\ pc' = "watch" /\ ~s.blind /\ UNCHANGED <<action, why>>
            \/ pc = "watch" /\ pc' = "stopping" /\ action' = "stop" /\ why' = "drain"
            \/ pc = "watch" /\ pc' = "stopping" /\ action' = "cancel" /\ why' = "blind"
            \/ pc = "watch" /\ pc' = "stopping" /\ ~s.blind /\ why' \in {"log", "blocking"}
            \/ pc = "relief" /\ pc' \in {"relief", "returned"} /\ UNCHANGED <<action, why>>
            \/ pc = "relief" /\ pc' = "issue" /\ ~s.blind /\ UNCHANGED <<action, why>>
<1>1. cur' = s
  BY DEF Deliver
<1>2. CASE pc = "watch"
  <2>1. Supervise(s)
    BY <1>2 DEF Deliver
  <2>2. \/ pc' = "watch" /\ ~s.blind /\ UNCHANGED <<action, why>>
        \/ pc' = "stopping" /\ action' = "stop" /\ why' = "drain"
        \/ pc' = "stopping" /\ action' = "cancel" /\ why' = "blind"
        \/ pc' = "stopping" /\ ~s.blind /\ why' \in {"log", "blocking"}
    BY <1>2, <2>1, Zenon DEF Supervise, React, Blinds
  <2> QED
    BY <1>1, <1>2, <2>2, Zenon
<1>3. CASE pc # "watch"
  <2>1. pc = "relief" /\ Relieve(s)
    BY <1>3 DEF Deliver, Sampling
  <2>2. \/ pc' \in {"relief", "returned"} /\ UNCHANGED <<action, why>>
        \/ pc' = "issue" /\ ~s.blind /\ UNCHANGED <<action, why>>
    BY <2>1, Zenon DEF Relieve, Return
  <2> QED
    BY <1>1, <2>1, <2>2, Zenon
<1> QED
  BY <1>2, <1>3

(* The other steps: the runner's, and those that leave its decision alone.    *)
OtherStep ==
  \/ /\ pc = "issue" /\ pc' = "watch" /\ cur' = Unread /\ UNCHANGED <<action, why>>
  \/ /\ pc' = "returned" /\ UNCHANGED <<action, why>>
  \/ /\ pc = "stopping" /\ pc' = "killed" /\ UNCHANGED <<action, why, cur>>
  \/ /\ pc \in {"stopping", "killed"} /\ pc' = "issue" /\ action = "cancel" /\ why # "blind"
     /\ UNCHANGED <<action, why, cur>>
  \/ /\ pc \in {"stopping", "killed"} /\ pc' = "relief" /\ cur' = Unread
     /\ (action = "pause" \/ why # "blind") /\ UNCHANGED <<action, why>>
  \/ UNCHANGED <<pc, action, why, cur>>

LEMMA PumpOrOther == [Next]_vars => Pump \/ OtherStep
<1> SUFFICES ASSUME [Next]_vars PROVE Pump \/ OtherStep
  OBVIOUS
<1> USE DEF control, world, monitor
<1>1. CASE Issue
  BY <1>1 DEF Issue, OtherStep
<1>2. CASE TakeResult \/ ReturnCanceled
  BY <1>2 DEF TakeResult, ReturnCanceled, Return, OtherStep
<1>3. CASE KillSelf
  BY <1>3 DEF KillSelf, OtherStep
<1>4. CASE StopRun \/ GiveUpBlind
  BY <1>4 DEF StopRun, GiveUpBlind, Return, OtherStep
<1>5. CASE Retry
  BY <1>5, Zenon DEF Retry, Stopped, NotRetried, Return, OtherStep
<1>6. CASE AwaitRelief
  BY <1>6, Zenon DEF AwaitRelief, Stopped, NotRetried, OtherStep
<1>7. CASE World
  BY <1>7 DEF World, StatementEnds, BlockingChanges, LogChanges, DrainChanges, HardStop, OtherStep
<1>8. CASE Tick
  BY <1>8, Zenon DEF Tick, OtherStep
<1>9. CASE Done \/ UNCHANGED vars
  BY <1>9 DEF Done, vars, OtherStep
<1> QED
  BY <1>1, <1>2, <1>3, <1>4, <1>5, <1>6, <1>7, <1>8, <1>9 DEF Next, Runner

LEMMA BlindKeptStep ==
  ASSUME StateTyped, BlindKept, [Next]_vars
  PROVE  /\ BlindKept'
         /\ pc # "issue" /\ pc' = "issue" => why # "blind" /\ ~cur'.blind
<1>1. ~Unread.blind
  BY DEF Unread
<1>2. CASE Pump
  <2>1. PICK s \in Sample : Deliver(s)
    BY <1>2, PumpDelivers DEF Delivered
  <2> QED
    BY <2>1, DeliverHeedsBlind, Zenon DEF BlindKept
<1>3. CASE OtherStep
  BY <1>1, <1>3, Zenon DEF OtherStep, BlindKept
<1> QED
  BY <1>2, <1>3, PumpOrOther

(* Whatever the timers: once the monitoring is blind, no further statement is *)
(* issued for the operation.                                                  *)
THEOREM BlindIssuesNothing == Spec => NothingIssuedBlind
<1>1. Init => BlindKept
  BY DEF Init, BlindKept, Unread
<1>2. TypeOK /\ BlindKept /\ [Next]_vars => BlindKept'
  BY BlindKeptStep, TypeParts
<1>3. TypeOK /\ BlindKept /\ [Next]_vars =>
        [pc # "issue" /\ pc' = "issue" => why # "blind" /\ ~cur'.blind]_vars
  BY BlindKeptStep, TypeParts
<1> QED
  BY <1>1, <1>2, <1>3, RunnerTyped, PTL DEF Spec, NothingIssuedBlind

-----------------------------------------------------------------------------
(* How far behind the harm a sample may be. While it shows nobody blocked,   *)
(* the harm is no older than the silence of the channel; while it shows      *)
(* somebody, the cap's own timer is at most one silence behind, and once the *)
(* timer has run out the next sample, at most one more silence away, ends it.*)
HarmSeen ==
  caps.cap /\ pc = "watch" =>
    /\ cur.blocking = "nobody" => since.any = Off /\ harm <= silent["blocking"]
    /\ cur.blocking # "nobody" =>
         /\ since.any # Off
         /\ harm <= since.any + BlindAfter + (IF since.any = MaxBlock THEN silent["blocking"] ELSE 0)

(* Only a running statement blocks, and only blocking is harm. *)
HarmOwned ==
  /\ server # "running" => blocking = "nobody"
  /\ blocking = "nobody" => harm = 0

HarmBounded == HarmOwned /\ BlockingBounded /\ HarmSeen

(* The numbers the argument is about. *)
LEMMA Numbers ==
  ASSUME StateTyped
  PROVE  /\ silent["blocking"] \in 0..BlindAfter /\ since.any \in Off..MaxBlock
         /\ harm \in Nat /\ harm <= HarmCap /\ HarmCap = MaxBlock + 2 * BlindAfter + 1
<1>1. silent \in [Channel -> 0..BlindAfter] /\ "blocking" \in Channel
  BY DEF StateTyped, Silences, Channel
<1>2. since.any \in Off..MaxBlock
  BY DEF StateTyped, Timers
<1>3. HarmCap = MaxBlock + 2 * BlindAfter + 1
  BY DEF HarmCap
<1>4. harm \in 0..HarmCap /\ HarmCap \in Nat
  BY <1>3, TimersNat DEF StateTyped, Harms
<1> QED
  BY <1>1, <1>2, <1>3, <1>4

(* The watch goes on after a sample only while the cap has not run out.       *)
LEMMA DeliverCaps ==
  ASSUME since \in Timers, NEW s, Deliver(s)
  PROVE  /\ UNCHANGED <<caps, server, blocking, harm>> /\ cur' = s
         /\ pc' = "watch" =>
              /\ pc = "watch"
              /\ since'.any = Began(since.any, s.blocking # "nobody")
              /\ caps.cap /\ since'.any # Off => ~(since'.any >= MaxBlock)
<1>1. UNCHANGED <<caps, server, blocking, harm>> /\ cur' = s
  BY DEF Deliver, world
<1>2. ASSUME pc' = "watch" PROVE pc = "watch"
  BY <1>2, DeliverMoves
<1>3. ASSUME pc' = "watch"
      PROVE  since' = Watched(s) /\ ~Capped(caps, Watched(s))
  <2>1. Supervise(s)
    BY <1>2, <1>3 DEF Deliver
  <2>2. ASSUME NEW a, NEW w PROVE ~React(a, w)
    BY <1>3 DEF React
  <2>3. since' = Watched(s) /\ ~BlockPressure(caps, Watched(s))
    BY <2>1, <2>2, Zenon DEF Supervise, Watched
  <2> QED
    BY <2>3, Zenon DEF BlockPressure
<1>4. ASSUME pc' = "watch"
      PROVE  /\ since'.any = Began(since.any, s.blocking # "nobody")
             /\ caps.cap /\ since'.any # Off => ~(since'.any >= MaxBlock)
  BY <1>3, <1>4, TimersTyped, Zenon DEF Capped
<1> QED
  BY <1>1, <1>2, <1>4, Zenon

LEMMA HarmBoundedPump ==
  ASSUME StateTyped, HarmBounded, Pump
  PROVE  HarmBounded'
<1>1. PICK s \in Sample : Delivered(s)
  BY PumpDelivers
<1>2. since \in Timers /\ StateTyped'
  BY <1>1, DeliverTyped DEF StateTyped
<1>3. /\ UNCHANGED <<caps, server, blocking, harm>> /\ cur' = s
      /\ pc' = "watch" =>
           /\ pc = "watch"
           /\ since'.any = Began(since.any, s.blocking # "nobody")
           /\ caps.cap /\ since'.any # Off => ~(since'.any >= MaxBlock)
  BY <1>1, <1>2, DeliverCaps DEF Delivered
<1>4. HarmOwned' /\ BlockingBounded'
  BY <1>3 DEF HarmBounded, HarmOwned, BlockingBounded
<1>5. ASSUME caps.cap, pc' = "watch"
      PROVE  /\ s.blocking = "nobody" => since'.any = Off /\ harm <= silent'["blocking"]
             /\ s.blocking # "nobody" =>
                  since'.any # Off /\ since'.any # MaxBlock /\ harm <= since'.any + BlindAfter
  <2>1. /\ pc = "watch" /\ since'.any = Began(since.any, s.blocking # "nobody")
        /\ since'.any # Off => ~(since'.any >= MaxBlock)
    BY <1>3, <1>5
  <2>2. /\ cur.blocking = "nobody" => since.any = Off /\ harm <= silent["blocking"]
        /\ cur.blocking # "nobody" =>
             /\ since.any # Off
             /\ harm <= since.any + BlindAfter + (IF since.any = MaxBlock THEN silent["blocking"] ELSE 0)
    BY <1>5, <2>1 DEF HarmBounded, HarmSeen
  <2>3. /\ blocking = "nobody" => harm = 0
        /\ server # "running" => blocking = "nobody"
    BY DEF HarmBounded, HarmOwned
  <2>4. \/ s.blocking = cur.blocking /\ silent'["blocking"] = silent["blocking"]
        \/ s.blocking = blocking /\ silent'["blocking"] = 0
        \/ s.blocking = "nobody" /\ blocking = "nobody" /\ silent'["blocking"] = 0
    BY <1>1, <2>3 DEF Delivered
  <2>5. /\ silent["blocking"] \in 0..BlindAfter /\ since.any \in Off..MaxBlock
        /\ silent'["blocking"] \in 0..BlindAfter /\ since'.any \in Off..MaxBlock /\ harm \in Nat
    <3>1. harm' = harm
      BY <1>3
    <3> QED
      BY <1>2, <3>1, Numbers, TimersNat DEF StateTyped, Silences, Timers, Channel
  <2>6. CASE s.blocking = "nobody"
    BY <2>1, <2>2, <2>3, <2>4, <2>5, <2>6, TimersNat DEF Began, Off
  <2>7. CASE s.blocking # "nobody"
    BY <2>1, <2>2, <2>3, <2>4, <2>5, <2>7, TimersNat DEF Began, Off
  <2> QED
    BY <2>6, <2>7
<1>6. HarmSeen'
  <2>1. SUFFICES ASSUME caps.cap, pc' = "watch"
        PROVE  /\ cur'.blocking = "nobody" => since'.any = Off /\ harm' <= silent'["blocking"]
               /\ cur'.blocking # "nobody" =>
                    /\ since'.any # Off
                    /\ harm' <= since'.any + BlindAfter
                                  + (IF since'.any = MaxBlock THEN silent'["blocking"] ELSE 0)
    BY <1>3, Zenon DEF HarmSeen
  <2>2. /\ cur'.blocking = s.blocking /\ harm' = harm /\ harm \in Nat
        /\ since'.any \in Int /\ silent'["blocking"] \in Int
    BY <1>2, <1>3, Numbers, TimersNat DEF StateTyped, Silences, Timers, Channel, Off
  <2> QED
    BY <1>5, <2>1, <2>2, TimersNat
<1> QED
  BY <1>4, <1>6 DEF HarmBounded

(* Time: the harm grows by one, and so does the timer or the silence it is     *)
(* measured against, because a channel silent for longer is blind at once.     *)
LEMMA HarmBoundedTick ==
  ASSUME StateTyped, BlindKept, HarmBounded, Tick
  PROVE  HarmBounded'
<1>1. UNCHANGED <<caps, server, blocking, cur, pc>>
  BY Zenon DEF Tick, control, world
<1>2. harm' = IF pc = "watch" /\ server = "running" /\ blocking # "nobody"
              THEN Older(harm, HarmCap) ELSE harm
  BY Zenon DEF Tick
<1>3. HarmOwned'
  BY <1>1, <1>2 DEF HarmBounded, HarmOwned
<1>4. ~caps.cap \/ pc # "watch" => BlockingBounded' /\ HarmSeen'
  BY <1>1, <1>2 DEF HarmBounded, HarmSeen, BlockingBounded
<1>5. ASSUME caps.cap, pc = "watch" PROVE BlockingBounded' /\ HarmSeen'
  <2>1. ~WatchdogFires
    BY Zenon DEF Tick
  <2>2. ~cur.blind
    BY <1>5 DEF BlindKept
  <2>3. ~BlindNow(silent)
    BY <2>1, <2>2, <1>5 DEF WatchdogFires, Sampling, StateTyped, Sample, BlindNow
  <2>4. ~(silent["blocking"] >= BlindAfter)
    BY <2>3, Zenon DEF BlindNow, Channel
  <2>5. silent' = [c \in Channel |-> Older(silent[c], BlindAfter)]
    BY <1>5, Zenon DEF Tick, Sampling
  <2>6. silent'["blocking"] = Older(silent["blocking"], BlindAfter)
    BY <2>5, Zenon DEF Channel
  <2>7. since'.any = Older(since.any, MaxBlock)
    BY Zenon DEF Tick
  <2>8. /\ cur.blocking = "nobody" => since.any = Off /\ harm <= silent["blocking"]
        /\ cur.blocking # "nobody" =>
             /\ since.any # Off
             /\ harm <= since.any + BlindAfter + (IF since.any = MaxBlock THEN silent["blocking"] ELSE 0)
    BY <1>5 DEF HarmBounded, HarmSeen
  <2>9. harm' = harm \/ harm' = harm + 1
    BY <1>2, Numbers DEF Older, Off
  <2>10. /\ cur.blocking = "nobody" => since'.any = Off /\ harm' <= silent'["blocking"]
         /\ cur.blocking # "nobody" =>
              /\ since'.any # Off
              /\ harm' <= since'.any + BlindAfter
                            + (IF since'.any = MaxBlock THEN silent'["blocking"] ELSE 0)
    BY <2>4, <2>6, <2>7, <2>8, <2>9, Numbers, TimersNat DEF Older, Off
  <2>11. harm' <= MaxBlock + 2 * BlindAfter
    BY <2>4, <2>6, <2>7, <2>8, <2>9, Numbers, TimersNat DEF Older, Off
  <2> QED
    BY <1>1, <2>10, <2>11 DEF BlockingBounded, HarmSeen
<1> QED
  BY <1>3, <1>4, <1>5 DEF HarmBounded

LEMMA HarmBoundedStep ==
  ASSUME StateTyped, Answers, BlindKept, HarmBounded, [Next]_vars
  PROVE  HarmBounded'
<1> USE DEF HarmBounded, HarmOwned, BlockingBounded, HarmSeen, control, world, monitor
<1>1. CASE Issue
  <2>1. harm = 0 /\ blocking = "nobody" /\ server # "running"
    BY <1>1 DEF Issue, Answers
  <2>2. /\ cur' = Unread /\ silent' = Fresh /\ since' = Reset
        /\ UNCHANGED <<caps, blocking, harm>>
    BY <1>1, Zenon DEF Issue
  <2>3. Unread.blocking = "nobody" /\ Fresh["blocking"] = 0 /\ Reset.any = Off
    BY DEF Unread, Fresh, Reset, Channel
  <2> QED
    BY <2>1, <2>2, <2>3, TimersNat
<1>2. CASE TakeResult \/ ReturnCanceled
  BY <1>2 DEF TakeResult, ReturnCanceled, Return
<1>3. CASE KillSelf
  BY <1>3 DEF KillSelf
<1>4. CASE StopRun \/ GiveUpBlind
  BY <1>4 DEF StopRun, GiveUpBlind, Return
<1>5. CASE Retry
  BY <1>5 DEF Retry, Return
<1>6. CASE AwaitRelief
  BY <1>6 DEF AwaitRelief
<1>7. CASE Pump
  BY <1>7, HarmBoundedPump
<1>8. CASE StatementEnds
  <2>1. harm' = 0 /\ blocking' = "nobody" /\ UNCHANGED <<caps, pc, cur, silent, since>>
    BY <1>8, Zenon DEF StatementEnds
  <2>2. /\ silent["blocking"] >= 0 /\ MaxBlock + 2 * BlindAfter >= 0
        /\ since.any # Off =>
             0 <= since.any + BlindAfter + (IF since.any = MaxBlock THEN silent["blocking"] ELSE 0)
    BY Numbers, TimersNat DEF Off
  <2> QED
    BY <2>1, <2>2
<1>9. CASE BlockingChanges
  <2>1. /\ harm' = 0 \/ harm' = harm
        /\ server = "running" /\ UNCHANGED <<caps, pc, cur, silent, since, server>>
        /\ blocking' = "nobody" => harm' = 0
    BY <1>9, Zenon DEF BlockingChanges
  <2>2. /\ silent["blocking"] >= 0 /\ MaxBlock + 2 * BlindAfter >= 0
        /\ since.any # Off =>
             0 <= since.any + BlindAfter + (IF since.any = MaxBlock THEN silent["blocking"] ELSE 0)
    BY Numbers, TimersNat DEF Off
  <2> QED
    BY <2>1, <2>2
<1>10. CASE LogChanges \/ DrainChanges \/ HardStop
  BY <1>10 DEF LogChanges, DrainChanges, HardStop
<1>11. CASE Tick
  BY <1>11, HarmBoundedTick
<1>12. CASE Done \/ UNCHANGED vars
  BY <1>12 DEF Done, vars
<1> QED
  BY <1>1, <1>2, <1>3, <1>4, <1>5, <1>6, <1>7, <1>8, <1>9, <1>10, <1>11, <1>12 DEF Next, Runner, World

(* Whatever the cap and the silence a channel is allowed: an operation with a  *)
(* cap blocks no longer than the cap and two silences.                         *)
THEOREM CapHolds == Spec => []BlockingBounded
<1>1. Init => Answers /\ BlindKept /\ HarmBounded
  BY TimersNat DEF Init, Answers, ReportIsTrue, BlindKept, Unread, HarmBounded, HarmOwned,
     BlockingBounded, HarmSeen
<1>2. TypeOK /\ Answers /\ BlindKept /\ HarmBounded /\ [Next]_vars
        => Answers' /\ BlindKept' /\ HarmBounded'
  BY AnswersStep, BlindKeptStep, HarmBoundedStep, TypeParts
<1>3. HarmBounded => BlockingBounded
  BY DEF HarmBounded
<1> QED
  BY <1>1, <1>2, <1>3, RunnerTyped, PTL DEF Spec
=============================================================================
